-------------------------- MODULE ResponseProofs --------------------------
(***************************************************************************)
(* What the public text of a response never loses, for any Runs, blocks,   *)
(* texts and limits, however the Runs interleave: its segments are well    *)
(* bracketed, every text is shown once and in its Run's order, and the     *)
(* sealed response is complete.                                            *)
(***************************************************************************)
EXTENDS ResponseScheduler, SequenceTheorems, WellFoundedInduction, TLAPS

-----------------------------------------------------------------------------
(* The loops of the scheduler, by induction on the number of their turns.  *)

LEMMA LeastNatural ==
  ASSUME NEW T \in SUBSET Nat, T # {}
  PROVE  \E m \in T : \A k \in T : m <= k
<1> DEFINE below == OpToRel(<, Nat)
<1>1. \A k, m \in Nat : k < m => <<k, m>> \in below
  BY DEF OpToRel
<1> HIDE DEF below
<1>2. PICK m \in T : \A k \in T : ~ (<<k, m>> \in below)
  BY NatLessThanWellFounded, WFMin DEF below
<1>3. ASSUME NEW k \in T PROVE m <= k
  <2>1. k \in Nat /\ m \in Nat /\ ~ (<<k, m>> \in below)
    BY <1>2
  <2>2. ~ (k < m)
    BY <1>1, <2>1
  <2>3. QED BY <2>1, <2>2
<1>4. QED BY <1>3

LEMMA UpTo ==
  ASSUME NEW n \in Nat, NEW T \in SUBSET Nat, 0 \in T,
         \A i \in 1 .. n : i - 1 \in T => i \in T
  PROVE  n \in T
<1> SUFFICES ASSUME n \notin T PROVE FALSE
  OBVIOUS
<1> DEFINE M == {i \in 0 .. n : i \notin T}
<1>0. M \in SUBSET Nat /\ M # {}
  OBVIOUS
<1>1. PICK m \in M : \A k \in M : m <= k
  <2> HIDE DEF M
  <2>1. QED BY <1>0, LeastNatural
<1>2. m \in 1 .. n /\ m - 1 \in 0 .. n
  BY <1>1
<1>3. m - 1 \in T
  BY <1>1, <1>2
<1>4. QED BY <1>1, <1>2, <1>3

\* The first turns of the loop of DrainOwner.
Draining(f, s, r, n) ==
  f = [i \in 0 .. n |-> IF i = 0 THEN s ELSE PresentNext(f[i - 1], r)]

LEMMA DrainingExists ==
  ASSUME NEW s, NEW r, NEW n \in Nat
  PROVE  \E f : Draining(f, s, r, n)
<1> DEFINE Turns(f, k) == Draining(f, s, r, k)
           T == {k \in 0 .. n : \E f : Turns(f, k)}
<1>1. 0 \in T
  <2>1. Turns([i \in 0 .. 0 |-> s], 0)
    BY DEF Draining
  <2> HIDE DEF Turns
  <2>2. QED BY <2>1
<1>2. ASSUME NEW k \in 1 .. n, k - 1 \in T PROVE k \in T
  <2>1. PICK f : Turns(f, k - 1)
    BY <1>2
  <2> DEFINE h == [i \in 0 .. k |-> IF i = k THEN PresentNext(f[k - 1], r) ELSE f[i]]
  <2>2. \A i \in 0 .. k - 1 : f[i] = IF i = 0 THEN s ELSE PresentNext(f[i - 1], r)
    BY <2>1 DEF Draining
  <2>3. ASSUME NEW i \in 0 .. k
        PROVE  h[i] = IF i = 0 THEN s ELSE PresentNext(h[i - 1], r)
    <3>1. CASE i = k
      <4>1. h[i - 1] = f[k - 1] /\ i # 0
        BY <3>1
      <4>2. QED BY <3>1, <4>1
    <3>2. CASE i # k
      <4>1. i \in 0 .. k - 1
        BY <3>2
      <4>2. h[i] = f[i] /\ (i # 0 => h[i - 1] = f[i - 1])
        BY <4>1
      <4>3. QED BY <2>2, <4>1, <4>2
    <3>3. QED BY <3>1, <3>2
  <2>4. Turns(h, k)
    <3>1. h = [i \in 0 .. k |-> h[i]]
      OBVIOUS
    <3> HIDE DEF h
    <3>2. QED BY <2>3, <3>1 DEF Draining
  <2> HIDE DEF Turns, h
  <2>5. QED BY <2>4
<1>3. n \in T
  <2> HIDE DEF T
  <2>1. T \in SUBSET Nat
    BY DEF T
  <2>2. QED BY <1>1, <1>2, <2>1, UpTo
<1>4. QED BY <1>3

\* What holds before the first frame, and of every turn, holds in the end.
LEMMA DrainRule ==
  ASSUME NEW s, s.owner # None, Len(s.out[s.owner].pending) \in Nat,
         NEW V, s \in V[0],
         \A i \in 1 .. Len(s.out[s.owner].pending) : \A t \in V[i - 1] :
           PresentNext(t, s.owner) \in V[i]
  PROVE  DrainOwner(s) \in V[Len(s.out[s.owner].pending)]
<1> DEFINE n == Len(s.out[s.owner].pending)
           d == CHOOSE f : Draining(f, s, s.owner, n)
<1>0. n \in Nat
  OBVIOUS
<1>1. \E f : Draining(f, s, s.owner, n)
  BY <1>0, DrainingExists
<1>2. DrainOwner(s) = d[n]
  BY DEF DrainOwner, Draining
<1>3. Draining(d, s, s.owner, n)
  BY <1>1, Zenon
<1> HIDE DEF d
<1>4. d[0] = s /\ \A i \in 1 .. n : d[i] = PresentNext(d[i - 1], s.owner)
  BY <1>0, <1>3 DEF Draining
<1> DEFINE T == {i \in 0 .. n : d[i] \in V[i]}
<1>5. 0 \in T
  BY <1>0, <1>4
<1>6. ASSUME NEW i \in 1 .. n, i - 1 \in T PROVE i \in T
  BY <1>4, <1>6
<1>7. n \in T
  <2>1. T \in SUBSET Nat
    OBVIOUS
  <2> HIDE DEF T
  <2>2. QED BY <1>0, <1>5, <1>6, <2>1, UpTo
<1>8. QED BY <1>2, <1>7
\* The first turns of the loop of AssignOwner.
Assigning(f, s, n) ==
  f = [i \in 0 .. n |-> IF i = 0 THEN s ELSE AdmitNext(f[i - 1])]

LEMMA AssigningExists ==
  ASSUME NEW s, NEW n \in Nat
  PROVE  \E f : Assigning(f, s, n)
<1> DEFINE Turns(f, k) == Assigning(f, s, k)
           T == {k \in 0 .. n : \E f : Turns(f, k)}
<1>1. 0 \in T
  <2>1. Turns([i \in 0 .. 0 |-> s], 0)
    BY DEF Assigning
  <2> HIDE DEF Turns
  <2>2. QED BY <2>1
<1>2. ASSUME NEW k \in 1 .. n, k - 1 \in T PROVE k \in T
  <2>1. PICK f : Turns(f, k - 1)
    BY <1>2
  <2> DEFINE h == [i \in 0 .. k |-> IF i = k THEN AdmitNext(f[k - 1]) ELSE f[i]]
  <2>2. \A i \in 0 .. k - 1 : f[i] = IF i = 0 THEN s ELSE AdmitNext(f[i - 1])
    BY <2>1 DEF Assigning
  <2>3. ASSUME NEW i \in 0 .. k
        PROVE  h[i] = IF i = 0 THEN s ELSE AdmitNext(h[i - 1])
    <3>1. CASE i = k
      <4>1. h[i - 1] = f[k - 1] /\ i # 0
        BY <3>1
      <4>2. QED BY <3>1, <4>1
    <3>2. CASE i # k
      <4>1. i \in 0 .. k - 1
        BY <3>2
      <4>2. h[i] = f[i] /\ (i # 0 => h[i - 1] = f[i - 1])
        BY <4>1
      <4>3. QED BY <2>2, <4>1, <4>2
    <3>3. QED BY <3>1, <3>2
  <2>4. Turns(h, k)
    <3>1. h = [i \in 0 .. k |-> h[i]]
      OBVIOUS
    <3> HIDE DEF h
    <3>2. QED BY <2>3, <3>1 DEF Assigning
  <2> HIDE DEF Turns, h
  <2>5. QED BY <2>4
<1>3. n \in T
  <2> HIDE DEF T
  <2>1. T \in SUBSET Nat
    BY DEF T
  <2>2. QED BY <1>1, <1>2, <2>1, UpTo
<1>4. QED BY <1>3

\* Likewise of the turns of AssignOwner: what holds before them and of each, holds in the end.
LEMMA AssignRule ==
  ASSUME NEW s, Len(s.ready) \in Nat,
         NEW V, s \in V[0],
         \A i \in 1 .. Len(s.ready) : \A t \in V[i - 1] :
           AdmitNext(t) \in V[i]
  PROVE  AssignOwner(s) \in V[Len(s.ready)]
<1> DEFINE n == Len(s.ready)
           d == CHOOSE f : Assigning(f, s, n)
<1>0. n \in Nat
  OBVIOUS
<1>1. \E f : Assigning(f, s, n)
  BY <1>0, AssigningExists
<1>2. AssignOwner(s) = d[n]
  BY DEF AssignOwner, Assigning
<1>3. Assigning(d, s, n)
  BY <1>1, Zenon
<1> HIDE DEF d
<1>4. d[0] = s /\ \A i \in 1 .. n : d[i] = AdmitNext(d[i - 1])
  BY <1>0, <1>3 DEF Assigning
<1> DEFINE T == {i \in 0 .. n : d[i] \in V[i]}
<1>5. 0 \in T
  BY <1>0, <1>4
<1>6. ASSUME NEW i \in 1 .. n, i - 1 \in T PROVE i \in T
  BY <1>4, <1>6
<1>7. n \in T
  <2>1. T \in SUBSET Nat
    OBVIOUS
  <2> HIDE DEF T
  <2>2. QED BY <1>0, <1>5, <1>6, <2>1, UpTo
<1>8. QED BY <1>2, <1>7

-----------------------------------------------------------------------------
(* Types.                                                                  *)

Frames ==
  {f \in [phase : {"atomic", "start", "delta", "finish"}, block : Blocks \cup {None},
          text : Nat, end : Nat, src : Nat] : f.phase # "atomic" => f.block \in Blocks}
Tables == UNION {[D -> Nat \X Nat] : D \in SUBSET Blocks}
RunOutputs ==
  [pending : Seq(Frames), blocks : Tables, openBlock : Blocks \cup {None},
   terminal : BOOLEAN, parked : BOOLEAN]
Schedulers ==
  [runs : SUBSET Runs, out : [Runs -> RunOutputs], ready : Seq(Runs),
   readySet : SUBSET Runs, owner : Runs \cup {None},
   ownerLeft : (0 .. IdleTimeout) \cup {None}, pendingFrames : Seq(PublicFrame),
   published : Seq(PublicFrame), batchLeft : 0 .. SendInterval,
   wakeup : BOOLEAN, finished : BOOLEAN]

\* What presenting frames of a Run leaves alone.
Apart(s, t, r) ==
  /\ t.runs = s.runs /\ t.ready = s.ready /\ t.readySet = s.readySet
  /\ t.owner = s.owner /\ (t.ownerLeft = None) = (s.ownerLeft = None)
  /\ t.published = s.published /\ t.batchLeft = s.batchLeft
  /\ t.wakeup = s.wakeup /\ t.finished = s.finished
  /\ \A o \in Runs \ {r} : t.out[o] = s.out[o]
  /\ t.out[r].terminal = s.out[r].terminal /\ t.out[r].parked = s.out[r].parked

Beside(s, t, r) == Apart(s, t, r) /\ t.out[r].pending = s.out[r].pending

\* Only the block that the Run holds open is another.
Reopened(s, t, r, b) ==
  Beside(s, t, r) /\ t.out[r].openBlock = b /\ t.out[r].blocks = s.out[r].blocks
AllClosed(s) == \A o \in Runs : s.out[o].openBlock = None
Opened(s, r, b) == s.out[r].openBlock = b

PublicFrameOf(r, phase, b, text, src) ==
  [run |-> r, phase |-> phase, block |-> b, text |-> text, src |-> src]

\* The calls, as relations between the state before (s) and after (t).
Emission(s, t, r, phase, b, text, src, f) ==
  t = Emit(s, r, phase, b, text, src) /\ f = PublicFrameOf(r, phase, b, text, src)
PendingSet(s, t, r, queue) == t = [s EXCEPT !.out[r].pending = queue]
OpenSet(s, t, r, b) == t = [s EXCEPT !.out[r].openBlock = b]
BlocksSet(s, t, r, table) == t = [s EXCEPT !.out[r].blocks = table]
Ending(s, t, r, b, text, src) == t = CloseFinished(s, r, b, text, src)
Closing(s, t, r) == t = ClosePublicSegment(s, r)
Opening(s, t, r, b) == t = OpenSegment(s, r, b)
Resuming(s, t, r, b) == t = Resume(s, r, b)
Saying(s, t, r, phase, b, f) == t = EmitText(s, r, phase, b, f)

LEMMA EmitEffect ==
  ASSUME NEW s \in Schedulers, NEW r \in Runs, NEW b \in Blocks \cup {None},
         NEW phase \in {"start", "delta", "finish", "atomic"},
         NEW text \in Nat, NEW src \in Nat, NEW t, NEW f,
         Emission(s, t, r, phase, b, text, src, f)
  PROVE  /\ t \in Schedulers /\ Beside(s, t, r) /\ t.out = s.out
         /\ t.pendingFrames = Append(s.pendingFrames, f) /\ f \in PublicFrame
<1>1. f \in PublicFrame
  BY DEF Emission, PublicFrameOf, PublicFrame
<1>2. t = [s EXCEPT !.pendingFrames = Append(@, f)]
  BY DEF Emission, Emit, PublicFrameOf
<1>3. Append(s.pendingFrames, f) \in Seq(PublicFrame)
  BY <1>1 DEF Schedulers
<1>4. t \in Schedulers /\ t.pendingFrames = Append(s.pendingFrames, f)
  BY <1>2, <1>3 DEF Schedulers
<1>5. Beside(s, t, r) /\ t.out = s.out
  BY <1>2 DEF Schedulers, Beside, Apart
<1>6. QED BY <1>1, <1>4, <1>5

LEMMA SetPending ==
  ASSUME NEW s \in Schedulers, NEW r \in Runs, NEW queue \in Seq(Frames),
         NEW t, PendingSet(s, t, r, queue)
  PROVE  /\ t \in Schedulers /\ Apart(s, t, r) /\ t.pendingFrames = s.pendingFrames
         /\ t.out[r].blocks = s.out[r].blocks /\ t.out[r].openBlock = s.out[r].openBlock
         /\ t.out[r].pending = queue
BY DEF PendingSet, Schedulers, RunOutputs, Apart

LEMMA SetOpen ==
  ASSUME NEW s \in Schedulers, NEW r \in Runs, NEW b \in Blocks \cup {None},
         NEW t, OpenSet(s, t, r, b)
  PROVE  t \in Schedulers /\ Reopened(s, t, r, b) /\ t.pendingFrames = s.pendingFrames
<1>1. /\ t \in Schedulers /\ Beside(s, t, r) /\ t.pendingFrames = s.pendingFrames
      /\ t.out[r].blocks = s.out[r].blocks /\ t.out[r].openBlock = b
  BY DEF OpenSet, Schedulers, RunOutputs, Beside, Apart
<1>2. QED BY <1>1 DEF Reopened

LEMMA SetBlocks ==
  ASSUME NEW s \in Schedulers, NEW r \in Runs, NEW table \in Tables,
         NEW t, BlocksSet(s, t, r, table)
  PROVE  /\ t \in Schedulers /\ Beside(s, t, r) /\ t.pendingFrames = s.pendingFrames
         /\ t.out[r].openBlock = s.out[r].openBlock /\ t.out[r].blocks = table
BY DEF BlocksSet, Schedulers, RunOutputs, Beside, Apart

LEMMA BesideTransitive ==
  ASSUME NEW s, NEW t, NEW u, NEW r, Beside(s, t, r), Beside(t, u, r)
  PROVE  Beside(s, u, r)
BY DEF Beside, Apart

LEMMA TableValues ==
  ASSUME NEW s \in Schedulers, NEW r \in Runs, NEW b \in DOMAIN s.out[r].blocks
  PROVE  b \in Blocks /\ s.out[r].blocks[b][1] \in Nat /\ s.out[r].blocks[b][2] \in Nat
<1>1. s.out[r].blocks \in Tables
  BY DEF Schedulers, RunOutputs
<1>2. PICK D \in SUBSET Blocks : s.out[r].blocks \in [D -> Nat \X Nat]
  BY <1>1 DEF Tables
<1>3. QED BY <1>2

-----------------------------------------------------------------------------
(* The stream: brackets, and which texts it shows.                         *)

Shown(s, before) == before \o s.published \o s.pendingFrames

LEMMA ConcatAppend ==
  ASSUME NEW S, NEW p \in Seq(S), NEW q \in Seq(S), NEW f \in S
  PROVE  p \o Append(q, f) = Append(p \o q, f)
<1>1. p \o Append(q, f) \in Seq(S) /\ Append(p \o q, f) \in Seq(S)
  OBVIOUS
<1>2. Len(p \o Append(q, f)) = Len(Append(p \o q, f))
  OBVIOUS
<1>3. \A i \in 1 .. Len(p \o Append(q, f)) : (p \o Append(q, f))[i] = Append(p \o q, f)[i]
  OBVIOUS
<1>4. QED BY <1>1, <1>2, <1>3, SeqEqual

LEMMA ShownAppend ==
  ASSUME NEW s \in Schedulers, NEW t \in Schedulers, NEW f \in PublicFrame,
         NEW before \in Seq(PublicFrame), t.published = s.published,
         t.pendingFrames = Append(s.pendingFrames, f)
  PROVE  Shown(t, before) = Append(Shown(s, before), f)
<1> DEFINE p == before \o s.published
           q == s.pendingFrames
<1>1. p \in Seq(PublicFrame) /\ q \in Seq(PublicFrame)
  BY DEF Schedulers
<1>2. Shown(t, before) = p \o Append(q, f) /\ Shown(s, before) = p \o q
  BY DEF Shown
<1> HIDE DEF p, q
<1>3. p \o Append(q, f) = Append(p \o q, f)
  BY <1>1, ConcatAppend
<1>4. QED BY <1>2, <1>3

LEMMA ShownType ==
  ASSUME NEW s \in Schedulers, NEW before \in Seq(PublicFrame)
  PROVE  Shown(s, before) \in Seq(PublicFrame)
BY DEF Schedulers, Shown

\* A frame that fits what is open is read on.
LEMMA BracketsAppend ==
  ASSUME NEW q \in Seq(PublicFrame), NEW f \in PublicFrame,
         Bracketed(q), OpenBefore(f) = OpenAtEnd(q)
  PROVE  Bracketed(Append(q, f)) /\ OpenAtEnd(Append(q, f)) = OpenAfter(f)
<1> DEFINE p == Append(q, f)
<1>1. p \in Seq(PublicFrame) /\ Len(p) = Len(q) + 1 /\ p # <<>> /\ p[Len(p)] = f
      /\ \A i \in 1 .. Len(q) : p[i] = q[i]
  OBVIOUS
<1>2. DOMAIN p = 1 .. Len(q) + 1 /\ DOMAIN q = 1 .. Len(q)
  BY <1>1
<1> HIDE DEF p
<1>3. ASSUME NEW i \in DOMAIN p
      PROVE  OpenBefore(p[i]) = IF i = 1 THEN <<>> ELSE OpenAfter(p[i - 1])
  <2>1. CASE i \in 1 .. Len(q)
    <3>1. p[i] = q[i] /\ (i # 1 => i - 1 \in 1 .. Len(q) /\ p[i - 1] = q[i - 1])
      BY <1>1, <2>1
    <3>2. QED BY <1>2, <2>1, <3>1 DEF Bracketed
  <2>2. CASE i = Len(q) + 1
    <3>1. p[i] = f
      BY <1>1, <2>2
    <3>2. CASE i = 1
      <4>1. q = <<>>
        BY <2>2, <3>2
      <4>2. QED BY <3>1, <3>2, <4>1 DEF OpenAtEnd
    <3>3. CASE i # 1
      <4>1. q # <<>> /\ i - 1 = Len(q) /\ i - 1 \in 1 .. Len(q)
        BY <2>2, <3>3
      <4>2. p[i - 1] = q[Len(q)]
        BY <1>1, <4>1
      <4>3. QED BY <3>1, <3>3, <4>1, <4>2 DEF OpenAtEnd
    <3>4. QED BY <3>2, <3>3
  <2>3. QED BY <1>2, <2>1, <2>2
<1>4. Bracketed(p)
  BY <1>3 DEF Bracketed
<1>5. OpenAtEnd(p) = OpenAfter(f)
  BY <1>1 DEF OpenAtEnd
<1>6. QED BY <1>4, <1>5 DEF p

Numbers(frames) == {frames[i].src : i \in DOMAIN frames}
Emits(frames, r) == {frames[i].src : i \in Emitted(frames, r)}

\* A Run that has published the frames of past: those of ahead wait, those
\* with a number in leaving are neither waiting nor shown yet.
Conserved(q, r, past, leaving, ahead) ==
  /\ Carried(past) = Emits(q, r) \cup leaving \cup Carried(ahead)
  /\ \A i, j \in Emitted(q, r) : i < j => q[i].src < q[j].src
  /\ \A n \in Emits(q, r) : \A m \in leaving \cup Numbers(ahead) : n < m
  /\ \A n \in leaving : \A m \in Numbers(ahead) : n < m
  /\ \A i, j \in DOMAIN ahead : i < j => ahead[i].src < ahead[j].src
  /\ Emits(q, r) \cup leaving \cup Numbers(ahead) \subseteq 1 .. Len(past)

LEMMA EmittedAppend ==
  ASSUME NEW q \in Seq(PublicFrame), NEW f \in PublicFrame, NEW r
  PROVE  /\ Emitted(Append(q, f), r) =
              Emitted(q, r) \cup (IF f.run = r /\ f.src > 0 THEN {Len(q) + 1} ELSE {})
         /\ \A i \in Emitted(q, r) : Append(q, f)[i] = q[i] /\ i < Len(q) + 1
         /\ Append(q, f)[Len(q) + 1] = f
<1> DEFINE p == Append(q, f)
<1>1. p \in Seq(PublicFrame) /\ Len(p) = Len(q) + 1 /\ p[Len(q) + 1] = f
      /\ \A i \in 1 .. Len(q) : p[i] = q[i]
  OBVIOUS
<1>2. DOMAIN p = 1 .. Len(q) + 1 /\ DOMAIN q = 1 .. Len(q) /\ Len(q) \in Nat
  BY <1>1
<1> HIDE DEF p
<1>3. QED BY <1>1, <1>2 DEF Emitted, p

LEMMA EmitsAppend ==
  ASSUME NEW q \in Seq(PublicFrame), NEW f \in PublicFrame, NEW r
  PROVE  Emits(Append(q, f), r) =
           Emits(q, r) \cup (IF f.run = r /\ f.src > 0 THEN {f.src} ELSE {})
<1> DEFINE p == Append(q, f)
           new == IF f.run = r /\ f.src > 0 THEN {Len(q) + 1} ELSE {}
<1>1. /\ Emitted(p, r) = Emitted(q, r) \cup new
      /\ \A i \in Emitted(q, r) : p[i] = q[i] /\ i < Len(q) + 1
      /\ p[Len(q) + 1] = f
  BY EmittedAppend, Zenon
<1>2. {p[i].src : i \in new} = IF f.run = r /\ f.src > 0 THEN {f.src} ELSE {}
  <2> HIDE DEF p
  <2>1. QED BY <1>1
<1> HIDE DEF p, new
<1>3. {p[i].src : i \in Emitted(q, r) \cup new}
        = {q[i].src : i \in Emitted(q, r)} \cup {p[i].src : i \in new}
  BY <1>1
<1>4. QED BY <1>1, <1>2, <1>3 DEF Emits, p

\* Frames that show no text of the Run's change nothing.
LEMMA ConservedSilently ==
  ASSUME NEW q \in Seq(PublicFrame), NEW f \in PublicFrame, NEW r, NEW past, NEW leaving,
         NEW ahead, Conserved(q, r, past, leaving, ahead), f.run # r \/ f.src = 0
  PROVE  Conserved(Append(q, f), r, past, leaving, ahead)
<1> DEFINE p == Append(q, f)
<1>1. ~ (f.run = r /\ f.src > 0)
  BY DEF PublicFrame
<1> DEFINE new == IF f.run = r /\ f.src > 0 THEN {Len(q) + 1} ELSE {}
<1>2. /\ Emitted(p, r) = Emitted(q, r) \cup new
      /\ \A i \in Emitted(q, r) : p[i] = q[i] /\ i < Len(q) + 1
  BY EmittedAppend, Zenon
<1>0. new = {}
  BY <1>1
<1>3. Emits(p, r) = Emits(q, r) \cup {}
  BY <1>1, EmitsAppend
<1> HIDE DEF p, new
<1>4. Emitted(p, r) = Emitted(q, r) /\ Emits(p, r) = Emits(q, r)
  BY <1>0, <1>2, <1>3
<1>5. QED BY <1>2, <1>4 DEF Conserved, p

\* The text that leaves is shown.
LEMMA ConservedAloud ==
  ASSUME NEW q \in Seq(PublicFrame), NEW f \in PublicFrame, NEW r, NEW past,
         NEW ahead, Conserved(q, r, past, {f.src}, ahead), f.run = r, f.src > 0
  PROVE  Conserved(Append(q, f), r, past, {}, ahead)
<1> DEFINE p == Append(q, f)
<1>1. Emitted(p, r) = Emitted(q, r) \cup {Len(q) + 1} /\ Emits(p, r) = Emits(q, r) \cup {f.src}
      /\ (\A i \in Emitted(q, r) : p[i] = q[i] /\ i < Len(q) + 1) /\ p[Len(q) + 1] = f
  BY EmittedAppend, EmitsAppend
<1>2. \A i \in Emitted(q, r) : q[i].src < f.src /\ i \in Nat
  BY DEF Conserved, Emits, Emitted
<1> HIDE DEF p
<1>3. ASSUME NEW i \in Emitted(p, r), NEW j \in Emitted(p, r), i < j
      PROVE  p[i].src < p[j].src
  <2>1. Len(q) \in Nat
    OBVIOUS
  <2>2. i # Len(q) + 1
    BY <1>1, <1>2, <1>3, <2>1
  <2>3. QED BY <1>1, <1>2, <1>3, <2>1, <2>2 DEF Conserved
<1>4. Carried(past) = Emits(p, r) \cup {} \cup Carried(ahead)
      /\ (\A n \in Emits(p, r) : \A m \in {} \cup Numbers(ahead) : n < m)
      /\ Emits(p, r) \cup {} \cup Numbers(ahead) \subseteq 1 .. Len(past)
  BY <1>1 DEF Conserved
<1>5. QED BY <1>3, <1>4 DEF Conserved, p

-----------------------------------------------------------------------------
(* Presenting one frame.                                                   *)

Tells(q, s, past, r, leaving) ==
  \A o \in Runs :
    Conserved(q, o, past[o], IF o = r THEN leaving ELSE {}, s.out[o].pending)

\* The owner r holds open a block it knows, the stream is bracketed, and the
\* only text that is neither waiting nor shown is r's text of number leaving.
Well(s, before, past, r, leaving) ==
  /\ s \in Schedulers /\ s.owner = r
  /\ s.out[r].openBlock # None => s.out[r].openBlock \in DOMAIN s.out[r].blocks
  /\ Bracketed(Shown(s, before)) /\ OpenAtEnd(Shown(s, before)) = HeldOpen(s)
  /\ Tells(Shown(s, before), s, past, r, leaving)

LEMMA BesideOutputs ==
  ASSUME NEW s \in Schedulers, NEW t, NEW r \in Runs, Beside(s, t, r), NEW o \in Runs
  PROVE  t.out[o].pending = s.out[o].pending /\ t.out[o].terminal = s.out[o].terminal
BY DEF Beside, Apart

\* One more frame of the owner's is well said.
LEMMA EmitWell ==
  ASSUME NEW before \in Seq(PublicFrame), NEW past, NEW r \in Runs, NEW leaving, NEW left,
         NEW s, NEW t \in Schedulers, NEW g \in PublicFrame,
         Well(s, before, past, r, leaving), Beside(s, t, r), g.run = r,
         t.pendingFrames = Append(s.pendingFrames, g),
         OpenBefore(g) = HeldOpen(s), OpenAfter(g) = HeldOpen(t),
         t.out[r].openBlock # None => t.out[r].openBlock \in DOMAIN t.out[r].blocks,
         \/ g.src = 0 /\ left = leaving
         \/ g.src > 0 /\ leaving = {g.src} /\ left = {}
  PROVE  Well(t, before, past, r, left)
<1> DEFINE q == Shown(s, before)
           p == Append(q, g)
<1>1. s \in Schedulers /\ t.owner = r /\ t.published = s.published
  BY DEF Well, Beside, Apart
<1>2. Shown(t, before) = p /\ q \in Seq(PublicFrame)
  BY <1>1, ShownAppend, ShownType
<1>3. Bracketed(q) /\ OpenAtEnd(q) = HeldOpen(s) /\ Tells(q, s, past, r, leaving)
  BY DEF Well
<1> HIDE DEF q
<1>4. Bracketed(p) /\ OpenAtEnd(p) = HeldOpen(t)
  BY <1>2, <1>3, BracketsAppend
<1>5. ASSUME NEW o \in Runs
      PROVE  Conserved(p, o, past[o], IF o = r THEN left ELSE {}, t.out[o].pending)
  <2>1. Conserved(q, o, past[o], IF o = r THEN leaving ELSE {}, s.out[o].pending)
    BY <1>3 DEF Tells
  <2>2. t.out[o].pending = s.out[o].pending
    BY <1>1, BesideOutputs
  <2>3. CASE o # r \/ (g.src = 0 /\ left = leaving)
    <3>1. g.run # o \/ g.src = 0
      BY <2>3
    <3>2. Conserved(p, o, past[o], IF o = r THEN leaving ELSE {}, s.out[o].pending)
      BY <1>2, <2>1, <3>1, ConservedSilently
    <3>3. QED BY <2>2, <2>3, <3>2
  <2>4. CASE o = r /\ g.src > 0 /\ leaving = {g.src} /\ left = {}
    <3>1. Conserved(q, o, past[o], {g.src}, s.out[o].pending)
      BY <2>1, <2>4
    <3>2. Conserved(p, o, past[o], {}, s.out[o].pending)
      BY <1>2, <2>4, <3>1, ConservedAloud
    <3>3. QED BY <2>2, <2>4, <3>2
  <2>5. QED BY <2>3, <2>4
<1>6. Tells(p, t, past, r, left)
  BY <1>5 DEF Tells
<1> HIDE DEF p
<1>7. QED BY <1>1, <1>2, <1>4, <1>6 DEF Well

\* The open segment ends, with a text of its own or with a silent one.
\* Of the numbers of leaving, those of left are yet to be shown after a frame
\* with the number src, if it has one.
Shows(src, leaving, left) ==
  \/ src = 0 /\ left = leaving
  \/ src > 0 /\ leaving = {src} /\ left = {}

\* The text and the number of a frame.
Numeric(text, src) == text \in Nat /\ src \in Nat

LEMMA EndWell ==
  ASSUME NEW before \in Seq(PublicFrame), NEW past, NEW r \in Runs, NEW leaving, NEW left, NEW s,
         Well(s, before, past, r, leaving), NEW b \in Blocks, Opened(s, r, b),
         NEW text, NEW src, Numeric(text, src), NEW t, Ending(s, t, r, b, text, src),
         Shows(src, leaving, left)
  PROVE  Well(t, before, past, r, left) /\ Reopened(s, t, r, None)
<1> DEFINE g == PublicFrameOf(r, "finish", b, text, src)
           u == Emit(s, r, "finish", b, text, src)
<1>1. /\ s \in Schedulers /\ s.owner = r /\ r # None /\ b # None
      /\ text \in Nat /\ src \in Nat /\ s.out[r].openBlock = b
  BY PolicyAssumption, AlphabetAssumption DEF Well, Numeric, Opened
<1>2. "finish" \in {"start", "delta", "finish", "atomic"} /\ b \in Blocks \cup {None}
      /\ None \in Blocks \cup {None}
  OBVIOUS
<1>3. Emission(s, u, r, "finish", b, text, src, g)
  BY DEF Emission
<1>4. OpenSet(u, t, r, None)
  BY <1>1 DEF Ending, CloseFinished, OpenSet
<1> HIDE DEF g, u
<1>5. /\ u \in Schedulers /\ Beside(s, u, r) /\ u.out = s.out
      /\ u.pendingFrames = Append(s.pendingFrames, g) /\ g \in PublicFrame
  BY <1>1, <1>2, <1>3, EmitEffect
<1>6. /\ t \in Schedulers /\ Beside(u, t, r) /\ t.pendingFrames = u.pendingFrames
      /\ t.out[r].blocks = u.out[r].blocks /\ t.out[r].openBlock = None
  <2>1. u \in Schedulers /\ None \in Blocks \cup {None}
    BY <1>5
  <2>2. t \in Schedulers /\ Reopened(u, t, r, None) /\ t.pendingFrames = u.pendingFrames
    BY <2>1, <1>4, SetOpen
  <2>3. QED BY <2>2 DEF Reopened
<1>7. Beside(s, t, r)
  BY <1>5, <1>6, BesideTransitive
<1>8. OpenBefore(g) = HeldOpen(s) /\ g.run = r /\ g.src = src
  BY <1>1, <1>3 DEF OpenBefore, HeldOpen, Emission, PublicFrameOf
<1>9. t.owner = r
  BY <1>1, <1>7 DEF Beside, Apart
<1>10. OpenAfter(g) = HeldOpen(t)
  BY <1>3, <1>6, <1>9 DEF OpenAfter, HeldOpen, Emission, PublicFrameOf
<1>11. \/ g.src = 0 /\ left = leaving
       \/ g.src > 0 /\ leaving = {g.src} /\ left = {}
  BY <1>8 DEF Shows
<1>12. Well(t, before, past, r, left)
  BY <1>5, <1>6, <1>7, <1>8, <1>10, <1>11, EmitWell
<1>13. QED BY <1>5, <1>6, <1>7, <1>12 DEF Reopened

LEMMA CloseWell ==
  ASSUME NEW before \in Seq(PublicFrame), NEW past, NEW r \in Runs, NEW leaving, NEW s,
         Well(s, before, past, r, leaving), NEW t, Closing(s, t, r)
  PROVE  Well(t, before, past, r, leaving) /\ Reopened(s, t, r, None)
<1> DEFINE b == s.out[r].openBlock
           text == s.out[r].blocks[b][2]
<1>1. s \in Schedulers /\ (b # None => b \in DOMAIN s.out[r].blocks)
  BY DEF Well
<1>2. CASE b = None
  <2>1. t = s
    BY <1>2 DEF Closing, ClosePublicSegment
  <2>2. Beside(s, s, r)
    BY DEF Beside, Apart
  <2>3. QED BY <1>2, <2>1, <2>2 DEF Reopened
<1>3. CASE b # None
  <2>1. b \in Blocks /\ Numeric(text, 0)
    BY <1>1, <1>3, TableValues DEF Numeric
  <2>2. Ending(s, t, r, b, text, 0)
    BY <1>1, <1>3 DEF Closing, ClosePublicSegment, Ending, CloseFinished
  <2>3. Opened(s, r, b)
    BY DEF Opened
  <2> HIDE DEF b, text
  <2>4. Shows(0, leaving, leaving)
    BY DEF Shows
  <2>5. QED BY <2>1, <2>2, <2>3, <2>4, EndWell
<1>4. QED BY <1>2, <1>3

LEMMA OpenWell ==
  ASSUME NEW before \in Seq(PublicFrame), NEW past, NEW r \in Runs, NEW leaving, NEW s,
         Well(s, before, past, r, leaving), s.out[r].openBlock = None,
         NEW b \in DOMAIN s.out[r].blocks, NEW t, Opening(s, t, r, b)
  PROVE  /\ Well(t, before, past, r, leaving) /\ Beside(s, t, r)
         /\ t.out[r].openBlock = b /\ t.out[r].blocks = s.out[r].blocks
<1> DEFINE text == s.out[r].blocks[b][1]
           g == PublicFrameOf(r, "start", b, text, 0)
           u == Emit(s, r, "start", b, text, 0)
<1>0. s \in Schedulers /\ s.owner = r /\ r # None
  BY PolicyAssumption DEF Well
<1>1. b \in Blocks /\ text \in Nat /\ b # None
  BY <1>0, TableValues, AlphabetAssumption
<1>2. "start" \in {"start", "delta", "finish", "atomic"} /\ 0 \in Nat
      /\ b \in Blocks \cup {None}
  BY <1>1
<1>3. OpenSet(u, t, r, b)
  BY DEF Opening, OpenSegment, OpenSet
<1>4. Emission(s, u, r, "start", b, text, 0, g)
  BY DEF Emission
<1> HIDE DEF text, u, g
<1>5. /\ u \in Schedulers /\ Beside(s, u, r) /\ u.out = s.out
      /\ u.pendingFrames = Append(s.pendingFrames, g) /\ g \in PublicFrame
  BY <1>0, <1>1, <1>2, <1>4, EmitEffect
<1>6. /\ t \in Schedulers /\ Beside(u, t, r) /\ t.pendingFrames = u.pendingFrames
      /\ t.out[r].blocks = u.out[r].blocks /\ t.out[r].openBlock = b
  <2>1. u \in Schedulers /\ b \in Blocks \cup {None}
    BY <1>2, <1>5
  <2>2. t \in Schedulers /\ Reopened(u, t, r, b) /\ t.pendingFrames = u.pendingFrames
    BY <2>1, <1>3, SetOpen
  <2>3. QED BY <2>2 DEF Reopened
<1>7. Beside(s, t, r)
  BY <1>5, <1>6, BesideTransitive
<1>8. OpenBefore(g) = HeldOpen(s) /\ g.run = r /\ g.src = 0
  BY <1>0, <1>4 DEF OpenBefore, HeldOpen, Emission, PublicFrameOf
<1>9. t.owner = r
  BY <1>0, <1>7 DEF Beside, Apart
<1>10. OpenAfter(g) = HeldOpen(t)
  BY <1>0, <1>1, <1>4, <1>6, <1>9 DEF OpenAfter, HeldOpen, Emission, PublicFrameOf
<1>11. t.out[r].openBlock \in DOMAIN t.out[r].blocks
  BY <1>5, <1>6
<1>12. Well(t, before, past, r, leaving)
  BY <1>5, <1>6, <1>7, <1>8, <1>10, <1>11, EmitWell
<1>13. QED BY <1>5, <1>6, <1>7, <1>12

LEMMA ResumeWell ==
  ASSUME NEW before \in Seq(PublicFrame), NEW past, NEW r \in Runs, NEW leaving, NEW s,
         Well(s, before, past, r, leaving),
         NEW b \in DOMAIN s.out[r].blocks, NEW t, Resuming(s, t, r, b)
  PROVE  /\ Well(t, before, past, r, leaving) /\ Beside(s, t, r)
         /\ t.out[r].openBlock = b /\ t.out[r].blocks = s.out[r].blocks
<1>1. CASE s.out[r].openBlock = b
  <2>1. t = s
    BY <1>1 DEF Resuming, Resume
  <2>2. Beside(s, s, r)
    BY DEF Beside, Apart
  <2>3. QED BY <1>1, <2>1, <2>2
<1>2. CASE s.out[r].openBlock # b
  <2> DEFINE c == ClosePublicSegment(s, r)
  <2>1. Opening(c, t, r, b)
    BY <1>2 DEF Resuming, Opening, Resume
  <2>2. Closing(s, c, r)
    BY DEF Closing
  <2> HIDE DEF c
  <2>3. /\ Well(c, before, past, r, leaving) /\ Beside(s, c, r)
        /\ c.out[r].openBlock = None /\ c.out[r].blocks = s.out[r].blocks
    <3>1. Well(c, before, past, r, leaving) /\ Reopened(s, c, r, None)
      BY <2>2, CloseWell
    <3>2. QED BY <3>1 DEF Reopened
  <2>4. b \in DOMAIN c.out[r].blocks
    BY <2>3
  <2>5. /\ Well(t, before, past, r, leaving) /\ Beside(c, t, r)
        /\ t.out[r].openBlock = b /\ t.out[r].blocks = c.out[r].blocks
    BY <2>1, <2>3, <2>4, OpenWell
  <2>6. QED BY <2>3, <2>5, BesideTransitive
<1>3. QED BY <1>1, <1>2

\* The number of the text a frame carries, if it carries any.
Says(f) == IF f.text > 0 THEN {f.src} ELSE {}

LEMMA SayWell ==
  ASSUME NEW before \in Seq(PublicFrame), NEW past, NEW r \in Runs, NEW s,
         NEW f \in Frames, f.src > 0, Well(s, before, past, r, Says(f)),
         NEW phase, NEW b, NEW t, Saying(s, t, r, phase, b, f),
         \/ phase = "atomic" /\ b = None /\ s.out[r].openBlock = None
         \/ phase = "delta" /\ b \in Blocks /\ s.out[r].openBlock = b
  PROVE  Well(t, before, past, r, {}) /\ Beside(s, t, r) /\ t.out = s.out
<1>0. s \in Schedulers /\ s.owner = r /\ r # None
  BY PolicyAssumption DEF Well
<1>1. CASE f.text = 0
  <2>1. t = s /\ Says(f) = {}
    BY <1>1 DEF Saying, EmitText, Says
  <2>2. Beside(s, s, r)
    BY DEF Beside, Apart
  <2>3. QED BY <2>1, <2>2
<1>2. CASE f.text # 0
  <2> DEFINE g == PublicFrameOf(r, phase, b, f.text, f.src)
  <2>1. f.text \in Nat /\ f.src \in Nat /\ f.text > 0 /\ Says(f) = {f.src}
    BY <1>2 DEF Frames, Says
  <2>2. phase \in {"start", "delta", "finish", "atomic"} /\ b \in Blocks \cup {None}
    OBVIOUS
  <2>3. Emission(s, t, r, phase, b, f.text, f.src, g)
    BY <1>2 DEF Saying, EmitText, Emission
  <2> HIDE DEF g
  <2>5. /\ t \in Schedulers /\ Beside(s, t, r) /\ t.out = s.out
        /\ t.pendingFrames = Append(s.pendingFrames, g) /\ g \in PublicFrame
    BY <1>0, <2>1, <2>2, <2>3, EmitEffect
  <2>6. g.run = r /\ g.src = f.src /\ g.phase = phase /\ g.block = b
    BY <2>3 DEF Emission, PublicFrameOf
  <2>7. t.owner = r
    BY <1>0, <2>5 DEF Beside, Apart
  <2>8. OpenBefore(g) = HeldOpen(s) /\ OpenAfter(g) = HeldOpen(t)
    BY <1>0, <2>5, <2>6, <2>7, AlphabetAssumption DEF OpenBefore, OpenAfter, HeldOpen
  <2>9. t.out[r].openBlock # None => t.out[r].openBlock \in DOMAIN t.out[r].blocks
    BY <2>5 DEF Well
  <2>10. g.src > 0 /\ Says(f) = {g.src}
    BY <2>1, <2>6
  <2>11. Well(t, before, past, r, {})
    BY <2>5, <2>6, <2>8, <2>9, <2>10, EmitWell
  <2>12. QED BY <2>5, <2>11
<1>3. QED BY <1>1, <1>2

-----------------------------------------------------------------------------
(* The next frame of the owner leaves its queue and is presented.          *)

Leaving(f) == IF Carrying(f) THEN {f.src} ELSE {}

LEMMA ConservedTakes ==
  ASSUME NEW q, NEW r, NEW past, NEW ahead \in Seq(Frames), ahead # <<>>,
         Conserved(q, r, past, {}, ahead)
  PROVE  /\ Head(ahead) \in Frames /\ Head(ahead).src > 0
         /\ Conserved(q, r, past, Leaving(Head(ahead)), Tail(ahead))
<1> DEFINE f == Head(ahead)
           rest == Tail(ahead)
<1>1. /\ f \in Frames /\ rest \in Seq(Frames) /\ f = ahead[1] /\ Len(ahead) \in Nat
      /\ Len(rest) = Len(ahead) - 1 /\ 1 \in 1 .. Len(ahead)
      /\ \A i \in 1 .. Len(rest) : rest[i] = ahead[i + 1]
  BY HeadTailProperties
<1>2. DOMAIN ahead = 1 .. Len(ahead) /\ DOMAIN rest = 1 .. Len(rest)
  BY <1>1
<1> HIDE DEF f, rest
<1>3. \A i \in DOMAIN rest : i + 1 \in DOMAIN ahead /\ rest[i] = ahead[i + 1] /\ 1 < i + 1 /\ i \in Nat
  BY <1>1, <1>2
<1>4. \A k \in DOMAIN ahead : k = 1 \/ (k - 1 \in DOMAIN rest /\ ahead[k] = rest[k - 1])
  BY <1>1, <1>2
<1>5. Numbers(ahead) = {f.src} \cup Numbers(rest)
  <2>1. \A n \in Numbers(ahead) : n \in {f.src} \cup Numbers(rest)
    BY <1>1, <1>4 DEF Numbers
  <2>2. f.src \in Numbers(ahead)
    BY <1>1, <1>2 DEF Numbers
  <2>3. \A n \in Numbers(rest) : n \in Numbers(ahead)
    BY <1>3 DEF Numbers
  <2>4. QED BY <2>1, <2>2, <2>3
<1>6. Carried(ahead) = Leaving(f) \cup Carried(rest)
  <2>1. \A n \in Carried(ahead) : n \in Leaving(f) \cup Carried(rest)
    BY <1>1, <1>4 DEF Carried, Leaving
  <2>2. \A n \in Leaving(f) : n \in Carried(ahead)
    BY <1>1, <1>2 DEF Carried, Leaving
  <2>3. \A n \in Carried(rest) : n \in Carried(ahead)
    BY <1>3 DEF Carried
  <2>4. QED BY <2>1, <2>2, <2>3
<1>7. f.src \in 1 .. Len(past)
  BY <1>5 DEF Conserved
<1>8. \A m \in Numbers(rest) : f.src < m
  <2>1. ASSUME NEW i \in DOMAIN rest PROVE f.src < rest[i].src
    <3>1. 1 \in DOMAIN ahead /\ ahead[1] = f
      BY <1>1, <1>2
    <3>2. i + 1 \in DOMAIN ahead /\ rest[i] = ahead[i + 1] /\ 1 < i + 1
      BY <1>3
    <3>3. \A k, j \in DOMAIN ahead : k < j => ahead[k].src < ahead[j].src
      BY DEF Conserved
    <3>4. ahead[1].src < ahead[i + 1].src
      BY <3>1, <3>2, <3>3
    <3>5. QED BY <3>1, <3>2, <3>4
  <2>2. QED BY <2>1 DEF Numbers
<1>9. Leaving(f) \subseteq {f.src}
  BY DEF Leaving
<1>10. /\ Carried(past) = Emits(q, r) \cup Leaving(f) \cup Carried(rest)
       /\ \A n \in Emits(q, r) : \A m \in Leaving(f) \cup Numbers(rest) : n < m
  BY <1>5, <1>6, <1>9 DEF Conserved
<1>11. \A n \in Leaving(f) : \A m \in Numbers(rest) : n < m
  BY <1>8, <1>9
<1>12. \A i, j \in DOMAIN rest : i < j => rest[i].src < rest[j].src
  <2>1. ASSUME NEW i \in DOMAIN rest, NEW j \in DOMAIN rest, i < j
        PROVE  rest[i].src < rest[j].src
    <3>1. i + 1 < j + 1 /\ i + 1 \in DOMAIN ahead /\ j + 1 \in DOMAIN ahead
      BY <1>3, <2>1
    <3>2. QED BY <1>3, <3>1 DEF Conserved
  <2>2. QED BY <2>1
<1>13. Emits(q, r) \cup Leaving(f) \cup Numbers(rest) \subseteq 1 .. Len(past)
  BY <1>5, <1>9 DEF Conserved
<1>14. \A i, j \in Emitted(q, r) : i < j => q[i].src < q[j].src
  BY DEF Conserved
<1>15. Conserved(q, r, past, Leaving(f), rest)
  BY <1>10, <1>11, <1>12, <1>13, <1>14 DEF Conserved
<1>16. QED BY <1>1, <1>7, <1>15 DEF f, rest

Popping(s, t, r) == t = [s EXCEPT !.out[r].pending = Tail(@)]
Presenting(s, t, r, f) == t = Present(s, r, f)

Popped(s, t, r) == Apart(s, t, r) /\ t.out[r].pending = Tail(s.out[r].pending)

\* The blocks a Run knows after a frame.
KnownAfter(D, f) ==
  IF f.phase = "start" THEN D \cup {f.block}
  ELSE IF f.phase = "finish" THEN D \ {f.block} ELSE D

LEMMA PopWell ==
  ASSUME NEW before \in Seq(PublicFrame), NEW past, NEW r \in Runs, NEW s,
         Well(s, before, past, r, {}), s.out[r].pending # <<>>,
         NEW t, Popping(s, t, r), NEW f, f = Head(s.out[r].pending)
  PROVE  /\ f \in Frames /\ f.src > 0 /\ Well(t, before, past, r, Leaving(f))
         /\ Popped(s, t, r) /\ t.out[r].blocks = s.out[r].blocks
<1> DEFINE ahead == s.out[r].pending
           rest == Tail(ahead)
<1>1. s \in Schedulers /\ s.owner = r /\ ahead \in Seq(Frames) /\ r # None
  BY PolicyAssumption DEF Well, Schedulers, RunOutputs
<1>2. rest \in Seq(Frames)
  <2> HIDE DEF ahead
  <2>1. ahead # <<>>
    BY DEF ahead
  <2>2. QED BY <1>1, <2>1, HeadTailProperties
<1>3. PendingSet(s, t, r, rest)
  BY DEF Popping, PendingSet
<1>4. /\ t \in Schedulers /\ Popped(s, t, r) /\ t.out[r].blocks = s.out[r].blocks
      /\ t.out[r].openBlock = s.out[r].openBlock /\ t.pendingFrames = s.pendingFrames
  <2>1. rest = Tail(s.out[r].pending)
    OBVIOUS
  <2> HIDE DEF rest
  <2>2. /\ t \in Schedulers /\ Apart(s, t, r) /\ t.out[r].blocks = s.out[r].blocks
        /\ t.out[r].openBlock = s.out[r].openBlock /\ t.pendingFrames = s.pendingFrames
        /\ t.out[r].pending = rest
    BY <1>1, <1>2, <1>3, SetPending
  <2>3. QED BY <2>1, <2>2 DEF Popped
<1>5. Shown(t, before) = Shown(s, before) /\ HeldOpen(t) = HeldOpen(s) /\ t.owner = r
  BY <1>1, <1>4 DEF Shown, HeldOpen, Popped, Apart
<1> DEFINE q == Shown(s, before)
<1>6. Tells(q, s, past, r, {})
  BY DEF Well
<1> HIDE DEF q
<1>7. Conserved(q, r, past[r], {}, ahead)
  BY <1>6 DEF Tells
<1>8. f \in Frames /\ f.src > 0 /\ Conserved(q, r, past[r], Leaving(f), Tail(ahead))
  <2> HIDE DEF ahead
  <2>1. ahead # <<>> /\ f = Head(ahead)
    BY DEF ahead
  <2>2. QED BY <1>1, <1>7, <2>1, ConservedTakes
<1>9. ASSUME NEW o \in Runs
      PROVE  Conserved(q, o, past[o], IF o = r THEN Leaving(f) ELSE {}, t.out[o].pending)
  <2>1. CASE o = r
    BY <1>4, <1>8, <2>1 DEF Popped, Apart
  <2>2. CASE o # r
    <3>1. Conserved(q, o, past[o], {}, s.out[o].pending)
      BY <1>6, <2>2 DEF Tells
    <3>2. QED BY <1>4, <2>2, <3>1 DEF Popped, Apart
  <2>3. QED BY <2>1, <2>2
<1>10. Tells(q, t, past, r, Leaving(f))
  BY <1>9 DEF Tells
<1>11. Well(t, before, past, r, Leaving(f))
  BY <1>4, <1>5, <1>10 DEF Well, q
<1>12. QED BY <1>4, <1>8, <1>11

LEMMA BlocksWell ==
  ASSUME NEW before \in Seq(PublicFrame), NEW past, NEW r \in Runs, NEW leaving, NEW s,
         Well(s, before, past, r, leaving), NEW table \in Tables, NEW t,
         BlocksSet(s, t, r, table),
         s.out[r].openBlock # None => s.out[r].openBlock \in DOMAIN table
  PROVE  /\ Well(t, before, past, r, leaving) /\ Beside(s, t, r)
         /\ t.out[r].openBlock = s.out[r].openBlock /\ t.out[r].blocks = table
<1>1. s \in Schedulers /\ s.owner = r
  BY DEF Well
<1>2. /\ t \in Schedulers /\ Beside(s, t, r) /\ t.pendingFrames = s.pendingFrames
      /\ t.out[r].openBlock = s.out[r].openBlock /\ t.out[r].blocks = table
  BY <1>1, SetBlocks
<1>3. Shown(t, before) = Shown(s, before) /\ HeldOpen(t) = HeldOpen(s) /\ t.owner = r
  BY <1>1, <1>2 DEF Shown, HeldOpen, Beside, Apart
<1>4. Tells(Shown(s, before), t, past, r, leaving)
  BY <1>1, <1>2, BesideOutputs DEF Well, Tells
<1>5. Well(t, before, past, r, leaving)
  BY <1>2, <1>3, <1>4 DEF Well
<1>6. QED BY <1>2, <1>5

LEMMA TableGrows ==
  ASSUME NEW s \in Schedulers, NEW r \in Runs, NEW f \in Frames, f.phase # "atomic"
  PROVE  /\ Put(s.out[r].blocks, f.block, <<f.text, f.end>>) \in Tables
         /\ DOMAIN Put(s.out[r].blocks, f.block, <<f.text, f.end>>)
              = DOMAIN s.out[r].blocks \cup {f.block}
<1> DEFINE table == s.out[r].blocks
           b == f.block
           v == <<f.text, f.end>>
<1>1. b \in Blocks /\ v \in Nat \X Nat
  BY DEF Frames
<1>2. table \in Tables
  BY DEF Schedulers, RunOutputs
<1> HIDE DEF table, b, v
<1>3. PICK D \in SUBSET Blocks : table \in [D -> Nat \X Nat]
  BY <1>2 DEF Tables
<1>4. /\ Put(table, b, v) \in [D \cup {b} -> Nat \X Nat]
      /\ DOMAIN Put(table, b, v) = D \cup {b} /\ DOMAIN table = D
  BY <1>1, <1>3 DEF Put
<1>5. D \cup {b} \in SUBSET Blocks
  BY <1>1
<1>6. Put(table, b, v) \in Tables
  BY <1>4, <1>5 DEF Tables
<1>7. QED BY <1>4, <1>6 DEF table, b, v

LEMMA TableShrinks ==
  ASSUME NEW s \in Schedulers, NEW r \in Runs, NEW b
  PROVE  /\ [x \in DOMAIN s.out[r].blocks \ {b} |-> s.out[r].blocks[x]] \in Tables
         /\ DOMAIN [x \in DOMAIN s.out[r].blocks \ {b} |-> s.out[r].blocks[x]]
              = DOMAIN s.out[r].blocks \ {b}
<1> DEFINE table == s.out[r].blocks
<1>1. table \in Tables
  BY DEF Schedulers, RunOutputs
<1> HIDE DEF table
<1>2. PICK D \in SUBSET Blocks : table \in [D -> Nat \X Nat]
  BY <1>1 DEF Tables
<1>3. [x \in DOMAIN table \ {b} |-> table[x]] \in [D \ {b} -> Nat \X Nat] /\ DOMAIN table = D
      /\ D \ {b} \in SUBSET Blocks
  BY <1>2
<1>4. [x \in DOMAIN table \ {b} |-> table[x]] \in Tables
  BY <1>3 DEF Tables
<1>5. QED BY <1>4 DEF table

Presented(s, t, before, past, r, f) ==
  /\ Well(t, before, past, r, {}) /\ Beside(s, t, r)
  /\ DOMAIN t.out[r].blocks = KnownAfter(DOMAIN s.out[r].blocks, f)

LEMMA PresentAtomicWell ==
  ASSUME NEW before \in Seq(PublicFrame), NEW past, NEW r \in Runs, NEW s,
         NEW f \in Frames, f.src > 0, Well(s, before, past, r, Leaving(f)),
         f.phase = "atomic", NEW t, Presenting(s, t, r, f)
  PROVE  Presented(s, t, before, past, r, f)
<1> DEFINE c == ClosePublicSegment(s, r)
<1>1. Closing(s, c, r) /\ Saying(c, t, r, "atomic", None, f)
  BY DEF Closing, Saying, Presenting, Present
<1> HIDE DEF c
<1>2. Leaving(f) = Says(f)
  BY DEF Leaving, Says, Carrying
<1>3. /\ Well(c, before, past, r, Says(f)) /\ Beside(s, c, r)
      /\ c.out[r].openBlock = None /\ c.out[r].blocks = s.out[r].blocks
  <2>1. Well(c, before, past, r, Says(f)) /\ Reopened(s, c, r, None)
    BY <1>1, <1>2, CloseWell
  <2>2. QED BY <2>1 DEF Reopened
<1>4. Well(t, before, past, r, {}) /\ Beside(c, t, r) /\ t.out = c.out
  BY <1>1, <1>3, SayWell
<1>5. KnownAfter(DOMAIN s.out[r].blocks, f) = DOMAIN s.out[r].blocks
  BY DEF KnownAfter
<1>6. QED BY <1>3, <1>4, <1>5, BesideTransitive DEF Presented

LEMMA PresentStartWell ==
  ASSUME NEW before \in Seq(PublicFrame), NEW past, NEW r \in Runs, NEW s,
         NEW f \in Frames, f.src > 0, Well(s, before, past, r, Leaving(f)),
         f.phase = "start", NEW t, Presenting(s, t, r, f)
  PROVE  Presented(s, t, before, past, r, f)
<1> DEFINE c == ClosePublicSegment(s, r)
           table == Put(c.out[r].blocks, f.block, <<f.text, f.end>>)
           d == [c EXCEPT !.out[r].blocks = table]
<1>1. Leaving(f) = {}
  BY DEF Leaving, Carrying
<1>2. Closing(s, c, r) /\ BlocksSet(c, d, r, table)
  BY DEF Closing, BlocksSet
<1>3. Opening(d, t, r, f.block)
  BY DEF Opening, Presenting, Present, PresentStart
<1> HIDE DEF c, d
<1>4. /\ Well(c, before, past, r, {}) /\ Beside(s, c, r)
      /\ c.out[r].openBlock = None /\ c.out[r].blocks = s.out[r].blocks
  <2>1. Well(c, before, past, r, {}) /\ Reopened(s, c, r, None)
    BY <1>1, <1>2, CloseWell
  <2>2. QED BY <2>1 DEF Reopened
<1>5. table \in Tables /\ DOMAIN table = DOMAIN c.out[r].blocks \cup {f.block}
  BY <1>4, TableGrows DEF Well
<1> HIDE DEF table
<1>6. /\ Well(d, before, past, r, {}) /\ Beside(c, d, r)
      /\ d.out[r].openBlock = None /\ d.out[r].blocks = table
  BY <1>2, <1>4, <1>5, BlocksWell
<1>7. f.block \in DOMAIN d.out[r].blocks
  BY <1>5, <1>6
<1>8. /\ Well(t, before, past, r, {}) /\ Beside(d, t, r)
      /\ t.out[r].openBlock = f.block /\ t.out[r].blocks = d.out[r].blocks
  BY <1>3, <1>6, <1>7, OpenWell
<1>9. DOMAIN t.out[r].blocks = KnownAfter(DOMAIN s.out[r].blocks, f)
  BY <1>4, <1>5, <1>6, <1>8 DEF KnownAfter
<1>10. Beside(s, t, r)
  BY <1>4, <1>6, <1>8, BesideTransitive
<1>11. QED BY <1>8, <1>9, <1>10 DEF Presented

LEMMA PresentDeltaWell ==
  ASSUME NEW before \in Seq(PublicFrame), NEW past, NEW r \in Runs, NEW s,
         NEW f \in Frames, f.src > 0, Well(s, before, past, r, Leaving(f)),
         f.phase = "delta", f.block \in DOMAIN s.out[r].blocks,
         NEW t, Presenting(s, t, r, f)
  PROVE  Presented(s, t, before, past, r, f)
<1> DEFINE c == Resume(s, r, f.block)
<1>1. Leaving(f) = Says(f)
  BY DEF Leaving, Says, Carrying
<1>2. Resuming(s, c, r, f.block) /\ Saying(c, t, r, "delta", f.block, f)
  BY DEF Resuming, Saying, Presenting, Present, BlockKnown
<1> HIDE DEF c
<1>3. /\ Well(c, before, past, r, Says(f)) /\ Beside(s, c, r)
      /\ c.out[r].openBlock = f.block /\ c.out[r].blocks = s.out[r].blocks
  BY <1>1, <1>2, ResumeWell
<1>4. f.block \in Blocks
  BY DEF Frames
<1>5. Well(t, before, past, r, {}) /\ Beside(c, t, r) /\ t.out = c.out
  BY <1>2, <1>3, <1>4, SayWell
<1>6. KnownAfter(DOMAIN s.out[r].blocks, f) = DOMAIN s.out[r].blocks
  BY DEF KnownAfter
<1>7. QED BY <1>3, <1>5, <1>6, BesideTransitive DEF Presented

LEMMA EndingSilently ==
  ASSUME NEW s, NEW r, NEW b, NEW text, NEW t, Ending(s, t, r, b, text, 0),
         s.out[r].openBlock # b
  PROVE  t = s
BY DEF Ending, CloseFinished

LEMMA PresentFinishWell ==
  ASSUME NEW before \in Seq(PublicFrame), NEW past, NEW r \in Runs, NEW s,
         NEW f \in Frames, f.src > 0, Well(s, before, past, r, Leaving(f)),
         f.phase = "finish", f.block \in DOMAIN s.out[r].blocks,
         NEW t, Presenting(s, t, r, f)
  PROVE  Presented(s, t, before, past, r, f)
<1> DEFINE b == f.block
           c == Resume(s, r, b)
           e == IF f.text > 0 THEN CloseFinished(c, r, b, f.text, f.src)
                ELSE CloseFinished(s, r, b, s.out[r].blocks[b][2], 0)
           table == [x \in DOMAIN e.out[r].blocks \ {b} |-> e.out[r].blocks[x]]
<1>1. b \in Blocks /\ b # None /\ f.text \in Nat /\ f.src \in Nat
  BY AlphabetAssumption DEF Frames
<1>2. t = ForgetBlock(e, r, b)
  BY DEF Presenting, Present, PresentFinish, BlockKnown
<1>3. BlocksSet(e, t, r, table)
  BY <1>2 DEF BlocksSet, ForgetBlock
<1>4. /\ Well(e, before, past, r, {}) /\ Beside(s, e, r)
      /\ e.out[r].openBlock # b /\ e.out[r].blocks = s.out[r].blocks
  <2>1. CASE f.text > 0
    <3>1. Resuming(s, c, r, b) /\ Ending(c, e, r, b, f.text, f.src)
      BY <2>1 DEF Resuming, Ending
    <3>2. Leaving(f) = {f.src}
      BY <2>1 DEF Leaving, Carrying
    <3> HIDE DEF c, e
    <3>3. /\ Well(c, before, past, r, {f.src}) /\ Beside(s, c, r)
          /\ c.out[r].openBlock = b /\ c.out[r].blocks = s.out[r].blocks
      BY <3>1, <3>2, ResumeWell
    <3>4. /\ Well(e, before, past, r, {}) /\ Beside(c, e, r)
          /\ e.out[r].openBlock = None /\ e.out[r].blocks = c.out[r].blocks
      <4> DEFINE src == f.src
                 text == f.text
                 leaving == {src}
                 left == {}
      <4>1. Well(c, before, past, r, leaving) /\ Opened(c, r, b)
        BY <3>3 DEF Opened
      <4>2. Ending(c, e, r, b, text, src)
        BY <3>1
      <4>3. b \in Blocks /\ Numeric(text, src)
        BY <1>1 DEF Numeric
      <4>4. Shows(src, leaving, left)
        BY <1>1 DEF Shows
      <4> HIDE DEF b, src, text, leaving, left, table
      <4>5. Well(e, before, past, r, left) /\ Reopened(c, e, r, None)
        BY <4>1, <4>2, <4>3, <4>4, EndWell
      <4>6. QED BY <4>5 DEF left, Reopened
    <3>5. QED BY <1>1, <3>3, <3>4, BesideTransitive
  <2>2. CASE ~ (f.text > 0)
    <3>1. Ending(s, e, r, b, s.out[r].blocks[b][2], 0)
      BY <2>2 DEF Ending
    <3>2. Leaving(f) = {}
      BY <2>2 DEF Leaving, Carrying
    <3>3. Numeric(s.out[r].blocks[b][2], 0)
      BY TableValues DEF Well, Numeric
    <3> HIDE DEF e, table
    <3>4. CASE s.out[r].openBlock = b
      <4> DEFINE none == {}
                 end == s.out[r].blocks[b][2]
      <4>1. Well(s, before, past, r, none)
        BY <3>2
      <4>2. /\ Ending(s, e, r, b, end, 0) /\ Numeric(end, 0)
            /\ b \in Blocks /\ Opened(s, r, b)
        BY <1>1, <3>1, <3>3, <3>4 DEF Opened
      <4> HIDE DEF b, end, none
      <4>3. Shows(0, none, none)
        BY DEF Shows
      <4>4. Well(e, before, past, r, none) /\ Reopened(s, e, r, None)
        BY <4>1, <4>2, <4>3, EndWell
      <4>5. QED BY <1>1, <4>4 DEF none, Reopened
    <3>5. CASE s.out[r].openBlock # b
      <4>1. e = s
        BY <3>1, <3>5, EndingSilently
      <4>2. Beside(s, s, r)
        BY DEF Beside, Apart
      <4>3. QED BY <3>2, <3>5, <4>1, <4>2
    <3>6. QED BY <3>4, <3>5
  <2>3. QED BY <2>1, <2>2
<1> HIDE DEF e
<1>5. table \in Tables /\ DOMAIN table = DOMAIN e.out[r].blocks \ {b}
  BY <1>4, TableShrinks DEF Well
<1> HIDE DEF table
<1>6. e.out[r].openBlock # None => e.out[r].openBlock \in DOMAIN table
  BY <1>4, <1>5 DEF Well
<1>7. Well(t, before, past, r, {}) /\ Beside(e, t, r) /\ t.out[r].blocks = table
  BY <1>3, <1>4, <1>5, <1>6, BlocksWell
<1>8. DOMAIN t.out[r].blocks = KnownAfter(DOMAIN s.out[r].blocks, f)
  BY <1>4, <1>5, <1>7 DEF KnownAfter
<1>9. QED BY <1>4, <1>7, <1>8, BesideTransitive DEF Presented

LEMMA PresentWell ==
  ASSUME NEW before \in Seq(PublicFrame), NEW past, NEW r \in Runs, NEW s,
         NEW f \in Frames, f.src > 0, Well(s, before, past, r, Leaving(f)),
         f.phase \in {"delta", "finish"} => f.block \in DOMAIN s.out[r].blocks,
         NEW t, Presenting(s, t, r, f)
  PROVE  Presented(s, t, before, past, r, f)
<1>1. f.phase \in {"atomic", "start", "delta", "finish"}
  BY DEF Frames
<1>2. CASE f.phase = "atomic"
  BY <1>2, PresentAtomicWell
<1>3. CASE f.phase = "start"
  BY <1>3, PresentStartWell
<1>4. CASE f.phase = "delta"
  BY <1>4, PresentDeltaWell
<1>5. CASE f.phase = "finish"
  BY <1>5, PresentFinishWell
<1>6. QED BY <1>1, <1>2, <1>3, <1>4, <1>5

Idling(u, s, t) == t = RestartIdle(u, s)

LEMMA IdleWell ==
  ASSUME NEW before \in Seq(PublicFrame), NEW past, NEW r \in Runs, NEW leaving, NEW s,
         NEW u, Well(s, before, past, r, leaving), s.ownerLeft # None,
         NEW t, Idling(u, s, t)
  PROVE  Well(t, before, past, r, leaving) /\ Beside(s, t, r) /\ t.out = s.out
<1>1. CASE t = s
  BY <1>1 DEF Beside, Apart
<1>2. CASE t = [s EXCEPT !.ownerLeft = IdleTimeout]
  <2>1. s \in Schedulers /\ IdleTimeout \in 0 .. IdleTimeout /\ IdleTimeout # None
    BY PolicyAssumption DEF Well
  <2>2. t \in Schedulers
    BY <1>2, <2>1 DEF Schedulers
  <2>3. /\ t.out = s.out /\ t.owner = s.owner /\ t.published = s.published
        /\ t.pendingFrames = s.pendingFrames /\ Beside(s, t, r)
    BY <1>2, <2>1 DEF Schedulers, Beside, Apart
  <2>4. Shown(t, before) = Shown(s, before) /\ HeldOpen(t) = HeldOpen(s)
    BY <2>3 DEF Shown, HeldOpen
  <2>5. Tells(Shown(s, before), t, past, r, leaving)
    BY <2>3 DEF Well, Tells
  <2>6. QED BY <2>2, <2>3, <2>4, <2>5 DEF Well
<1>3. QED BY <1>1, <1>2 DEF Idling, RestartIdle

\* One turn of _drain_owner.
Turning(s, t, r, f) == f = Head(s.out[r].pending) /\ t = PresentNext(s, r)

LEMMA PresentNextWell ==
  ASSUME NEW before \in Seq(PublicFrame), NEW past, NEW r \in Runs, NEW s,
         Well(s, before, past, r, {}), s.ownerLeft # None, s.out[r].pending # <<>>,
         NEW f, NEW t, Turning(s, t, r, f),
         f.phase \in {"delta", "finish"} => f.block \in DOMAIN s.out[r].blocks
  PROVE  /\ Well(t, before, past, r, {}) /\ Popped(s, t, r) /\ f \in Frames
         /\ DOMAIN t.out[r].blocks = KnownAfter(DOMAIN s.out[r].blocks, f)
<1> DEFINE u == [s EXCEPT !.out[r].pending = Tail(@)]
           v == Present(u, r, f)
<1>1. Idling(s, v, t)
  BY DEF Idling, Turning, PresentNext
<1>2. Popping(s, u, r) /\ Presenting(u, v, r, f)
  BY DEF Turning, Popping, Presenting
<1> HIDE DEF u, v
<1>3. /\ f \in Frames /\ f.src > 0 /\ Well(u, before, past, r, Leaving(f))
      /\ Popped(s, u, r) /\ u.out[r].blocks = s.out[r].blocks
  BY <1>2, PopWell DEF Turning
<1>4. Presented(u, v, before, past, r, f)
  BY <1>2, <1>3, PresentWell
<1>5. v.ownerLeft # None
  BY <1>3, <1>4 DEF Presented, Popped, Beside, Apart
<1>6. Well(t, before, past, r, {}) /\ Beside(v, t, r) /\ t.out = v.out
  BY <1>1, <1>4, <1>5, IdleWell DEF Presented
<1>7. Popped(s, t, r)
  BY <1>3, <1>4, <1>6 DEF Presented, Popped, Beside, Apart
<1>8. QED BY <1>3, <1>4, <1>6, <1>7 DEF Presented

-----------------------------------------------------------------------------
(* Blocks that a Run's waiting frames will find known.                     *)

Starts(f, b) == f.phase = "start" /\ f.block = b
Ends(f, b) == f.phase = "finish" /\ f.block = b

\* When the first i - 1 frames of the queue have been presented to a Run that
\* knows the blocks D, it knows b.
Alive(D, queue, b, i) ==
  \E k \in 0 .. i - 1 :
    /\ IF k = 0 THEN b \in D ELSE Starts(queue[k], b)
    /\ \A j \in k + 1 .. i - 1 : ~ Ends(queue[j], b)

\* No delta and no finish waits for a block that will not be known ...
Playable(queue, D) ==
  \A i \in 1 .. Len(queue) :
    queue[i].phase \in {"delta", "finish"} => Alive(D, queue, queue[i].block, i)

\* ... and the blocks of K are known after the last frame.
Learns(queue, D, K) == \A b \in K : Alive(D, queue, b, Len(queue) + 1)

LEMMA AliveTakes ==
  ASSUME NEW queue \in Seq(Frames), queue # <<>>, NEW D, NEW b,
         NEW i \in 2 .. Len(queue) + 1, Alive(D, queue, b, i)
  PROVE  Alive(KnownAfter(D, Head(queue)), Tail(queue), b, i - 1)
<1> DEFINE f == Head(queue)
           rest == Tail(queue)
<1>1. /\ f = queue[1] /\ Len(queue) \in Nat /\ Len(rest) = Len(queue) - 1
      /\ \A k \in 1 .. Len(rest) : rest[k] = queue[k + 1]
  BY HeadTailProperties
<1> HIDE DEF f, rest
<1>2. PICK k \in 0 .. i - 1 : /\ IF k = 0 THEN b \in D ELSE Starts(queue[k], b)
                              /\ \A j \in k + 1 .. i - 1 : ~ Ends(queue[j], b)
  BY DEF Alive
<1>3. i \in Nat /\ i - 1 <= Len(queue) /\ k \in Nat
  BY <1>1
<1>4. \A j \in 1 .. i - 2 : rest[j] = queue[j + 1]
  BY <1>1, <1>3
<1>5. CASE k \in {0, 1}
  <2>1. b \in KnownAfter(D, f)
    <3>1. CASE k = 0
      <4>1. ~ Ends(f, b) /\ b \in D
        BY <1>1, <1>2, <3>1
      <4>2. QED BY <4>1 DEF KnownAfter, Ends
    <3>2. CASE k = 1
      BY <1>1, <1>2, <3>2 DEF KnownAfter, Starts
    <3>3. QED BY <1>5, <3>1, <3>2
  <2>2. ASSUME NEW j \in 0 + 1 .. (i - 1) - 1 PROVE ~ Ends(rest[j], b)
    <3>1. j + 1 \in k + 1 .. i - 1 /\ j \in 1 .. i - 2
      BY <1>3, <1>5, <2>2
    <3>2. QED BY <1>2, <1>4, <3>1
  <2>3. 0 \in 0 .. (i - 1) - 1
    BY <1>3
  <2>4. QED BY <2>1, <2>2, <2>3 DEF Alive, f, rest
<1>6. CASE k >= 2
  <2>1. k - 1 \in 0 .. (i - 1) - 1 /\ k - 1 # 0 /\ k - 1 \in 1 .. i - 2 /\ (k - 1) + 1 = k
    BY <1>3, <1>6
  <2>2. Starts(rest[k - 1], b)
    BY <1>2, <1>4, <1>6, <2>1
  <2>3. ASSUME NEW j \in (k - 1) + 1 .. (i - 1) - 1 PROVE ~ Ends(rest[j], b)
    <3>1. j + 1 \in k + 1 .. i - 1 /\ j \in 1 .. i - 2
      BY <1>3, <1>6, <2>3
    <3>2. QED BY <1>2, <1>4, <3>1
  <2>4. QED BY <2>1, <2>2, <2>3 DEF Alive, f, rest
<1>7. QED BY <1>3, <1>5, <1>6

LEMMA PlayableTakes ==
  ASSUME NEW queue \in Seq(Frames), queue # <<>>, NEW D, NEW K,
         Playable(queue, D), Learns(queue, D, K)
  PROVE  LET f == Head(queue)
         IN  /\ f.phase \in {"delta", "finish"} => f.block \in D
             /\ Playable(Tail(queue), KnownAfter(D, f))
             /\ Learns(Tail(queue), KnownAfter(D, f), K)
<1> DEFINE f == Head(queue)
           rest == Tail(queue)
           E == KnownAfter(D, f)
<1>1. /\ f = queue[1] /\ Len(queue) \in Nat /\ Len(rest) = Len(queue) - 1
      /\ 1 \in 1 .. Len(queue) /\ \A k \in 1 .. Len(rest) : rest[k] = queue[k + 1]
  BY HeadTailProperties
<1>2. \A b : \A i \in 2 .. Len(queue) + 1 : Alive(D, queue, b, i) => Alive(E, rest, b, i - 1)
  BY AliveTakes
<1> HIDE DEF f, rest, E
<1>3. f.phase \in {"delta", "finish"} => f.block \in D
  BY <1>1 DEF Playable, Alive
<1>4. ASSUME NEW i \in 1 .. Len(rest), rest[i].phase \in {"delta", "finish"}
      PROVE  Alive(E, rest, rest[i].block, i)
  <2>1. i + 1 \in 1 .. Len(queue) /\ i + 1 \in 2 .. Len(queue) + 1 /\ rest[i] = queue[i + 1]
        /\ (i + 1) - 1 = i
    BY <1>1
  <2>2. Alive(D, queue, rest[i].block, i + 1)
    BY <1>4, <2>1 DEF Playable
  <2>3. QED BY <1>2, <2>1, <2>2
<1>5. ASSUME NEW b \in K PROVE Alive(E, rest, b, Len(rest) + 1)
  <2>1. Len(queue) + 1 \in 2 .. Len(queue) + 1 /\ (Len(queue) + 1) - 1 = Len(rest) + 1
    BY <1>1
  <2>2. Alive(D, queue, b, Len(queue) + 1)
    BY DEF Learns
  <2>3. QED BY <1>2, <2>1, <2>2
<1>6. Playable(rest, E) /\ Learns(rest, E, K)
  BY <1>4, <1>5 DEF Playable, Learns
<1>7. QED BY <1>3, <1>6 DEF f, rest, E

LEMMA AliveAdds ==
  ASSUME NEW queue \in Seq(Frames), NEW f, NEW D, NEW b,
         NEW i \in 1 .. Len(queue) + 1, Alive(D, queue, b, i)
  PROVE  Alive(D, Append(queue, f), b, i)
<1> DEFINE more == Append(queue, f)
<1>1. Len(queue) \in Nat /\ \A j \in 1 .. Len(queue) : more[j] = queue[j]
  OBVIOUS
<1> HIDE DEF more
<1>2. PICK k \in 0 .. i - 1 : /\ IF k = 0 THEN b \in D ELSE Starts(queue[k], b)
                              /\ \A j \in k + 1 .. i - 1 : ~ Ends(queue[j], b)
  BY DEF Alive
<1>3. k # 0 => k \in 1 .. Len(queue)
  BY <1>1
<1>4. \A j \in k + 1 .. i - 1 : j \in 1 .. Len(queue)
  BY <1>1
<1>5. IF k = 0 THEN b \in D ELSE Starts(more[k], b)
  BY <1>1, <1>2, <1>3
<1>6. \A j \in k + 1 .. i - 1 : ~ Ends(more[j], b)
  BY <1>1, <1>2, <1>4
<1>7. QED BY <1>5, <1>6 DEF Alive, more

LEMMA PlayableAdds ==
  ASSUME NEW queue \in Seq(Frames), NEW f \in Frames, NEW D, NEW K, NEW L,
         Playable(queue, D), Learns(queue, D, K),
         f.phase \in {"delta", "finish"} => f.block \in K,
         \A b \in L : Starts(f, b) \/ (b \in K /\ ~ Ends(f, b))
  PROVE  Playable(Append(queue, f), D) /\ Learns(Append(queue, f), D, L)
<1> DEFINE more == Append(queue, f)
           n == Len(queue)
<1>1. n \in Nat /\ Len(more) = n + 1 /\ more[n + 1] = f /\ \A j \in 1 .. n : more[j] = queue[j]
  OBVIOUS
<1>2. \A b : \A i \in 1 .. n + 1 : Alive(D, queue, b, i) => Alive(D, more, b, i)
  BY AliveAdds
<1> HIDE DEF more
<1>3. \A b \in K : Alive(D, queue, b, n + 1) /\ Alive(D, more, b, n + 1)
  BY <1>1, <1>2 DEF Learns
<1>4. ASSUME NEW i \in 1 .. Len(more), more[i].phase \in {"delta", "finish"}
      PROVE  Alive(D, more, more[i].block, i)
  <2>1. CASE i = n + 1
    BY <1>1, <1>3, <1>4, <2>1
  <2>2. CASE i \in 1 .. n
    <3>1. Alive(D, queue, more[i].block, i)
      BY <1>1, <1>4, <2>2 DEF Playable
    <3>2. QED BY <1>1, <1>2, <2>2, <3>1
  <2>3. QED BY <1>1, <2>1, <2>2
<1>5. ASSUME NEW b \in L PROVE Alive(D, more, b, Len(more) + 1)
  <2>1. CASE Starts(f, b)
    <3>1. n + 1 \in 0 .. (Len(more) + 1) - 1 /\ n + 1 # 0
          /\ \A j \in (n + 1) + 1 .. (Len(more) + 1) - 1 : FALSE
      BY <1>1
    <3>2. QED BY <1>1, <2>1, <3>1 DEF Alive
  <2>2. CASE b \in K /\ ~ Ends(f, b)
    <3>1. PICK k \in 0 .. (n + 1) - 1 :
            /\ IF k = 0 THEN b \in D ELSE Starts(more[k], b)
            /\ \A j \in k + 1 .. (n + 1) - 1 : ~ Ends(more[j], b)
      BY <1>3, <2>2 DEF Alive
    <3>2. k \in 0 .. (Len(more) + 1) - 1
      BY <1>1
    <3>3. ASSUME NEW j \in k + 1 .. (Len(more) + 1) - 1 PROVE ~ Ends(more[j], b)
      <4>1. j \in k + 1 .. (n + 1) - 1 \/ j = n + 1
        BY <1>1, <3>3
      <4>2. QED BY <1>1, <2>2, <3>1, <4>1
    <3>4. QED BY <3>1, <3>2, <3>3 DEF Alive
  <2>3. QED BY <1>5, <2>1, <2>2
<1>6. QED BY <1>4, <1>5 DEF Playable, Learns, more

-----------------------------------------------------------------------------
(* The invariant of the scheduler: past[o] are the frames that Run o has    *)
(* published, keys[o] the blocks its event stream holds to be open.         *)

\* Only the owner holds a block open, and it knows it.
Owning(s) ==
  \A o \in Runs : s.out[o].openBlock # None =>
    o = s.owner /\ s.out[o].openBlock \in DOMAIN s.out[o].blocks

Bracketing(s, before) ==
  Bracketed(Shown(s, before)) /\ OpenAtEnd(Shown(s, before)) = HeldOpen(s)

Telling(s, before, past) ==
  \A o \in Runs : Conserved(Shown(s, before), o, past[o], {}, s.out[o].pending)

\* What waits can be presented, and a Run that has ended opens nothing more.
Following(s, keys) ==
  \A o \in Runs :
    /\ Playable(s.out[o].pending, DOMAIN s.out[o].blocks)
    /\ Learns(s.out[o].pending, DOMAIN s.out[o].blocks, keys[o])
    /\ s.out[o].terminal => keys[o] = {}

\* Runs that own, wait or have queued frames are registered.
Placed(s) ==
  /\ s.ready \in Seq(s.runs) /\ s.owner \in s.runs \cup {None}
  /\ (s.owner = None) = (s.ownerLeft = None)
  /\ \A o \in Runs \ s.runs : s.out[o].pending = <<>>

Sound(s, before, past, keys) ==
  /\ s \in Schedulers /\ Owning(s) /\ Bracketing(s, before)
  /\ Telling(s, before, past) /\ Following(s, keys) /\ Placed(s)

\* No call but registration and sealing changes these.
Alike(s, t) == t.runs = s.runs /\ t.finished = s.finished

LEMMA SoundIsWell ==
  ASSUME NEW before \in Seq(PublicFrame), NEW past, NEW keys, NEW s,
         Sound(s, before, past, keys), NEW r \in Runs, s.owner = r
  PROVE  Well(s, before, past, r, {}) /\ s.ownerLeft # None
<1>1. Well(s, before, past, r, {})
  <2>1. s \in Schedulers /\ s.owner = r
    BY DEF Sound
  <2>2. s.out[r].openBlock # None => s.out[r].openBlock \in DOMAIN s.out[r].blocks
    BY DEF Sound, Owning
  <2>3. Bracketed(Shown(s, before)) /\ OpenAtEnd(Shown(s, before)) = HeldOpen(s)
    BY DEF Sound, Bracketing
  <2>4. Tells(Shown(s, before), s, past, r, {})
    BY DEF Sound, Telling, Tells
  <2>5. QED BY <2>1, <2>2, <2>3, <2>4 DEF Well
<1>2. s.ownerLeft # None
  BY PolicyAssumption DEF Sound, Placed
<1>3. QED BY <1>1, <1>2

LEMMA WellIsSound ==
  ASSUME NEW before \in Seq(PublicFrame), NEW past, NEW keys, NEW s,
         Sound(s, before, past, keys), NEW r \in Runs, s.owner = r,
         NEW t, Well(t, before, past, r, {}), Apart(s, t, r),
         Playable(t.out[r].pending, DOMAIN t.out[r].blocks),
         Learns(t.out[r].pending, DOMAIN t.out[r].blocks, keys[r])
  PROVE  Sound(t, before, past, keys) /\ Alike(s, t)
<1>1. t \in Schedulers /\ s \in Schedulers /\ t.owner = r
  BY DEF Sound, Well
<1>2. Owning(t)
  <2>1. ASSUME NEW o \in Runs, t.out[o].openBlock # None
        PROVE  o = t.owner /\ t.out[o].openBlock \in DOMAIN t.out[o].blocks
    <3>1. CASE o = r
      BY <1>1, <2>1, <3>1 DEF Well
    <3>2. CASE o # r
      <4>1. t.out[o] = s.out[o]
        BY <3>2 DEF Apart
      <4>2. o = s.owner
        BY <2>1, <4>1 DEF Sound, Owning
      <4>3. QED BY <3>2, <4>2
    <3>3. QED BY <3>1, <3>2
  <2>2. QED BY <2>1 DEF Owning
<1>3. Bracketing(t, before)
  BY DEF Well, Bracketing
<1>4. Telling(t, before, past)
  BY DEF Well, Tells, Telling
<1>5. Following(t, keys)
  <2>1. ASSUME NEW o \in Runs, o # r
        PROVE  /\ Playable(t.out[o].pending, DOMAIN t.out[o].blocks)
               /\ Learns(t.out[o].pending, DOMAIN t.out[o].blocks, keys[o])
               /\ t.out[o].terminal => keys[o] = {}
    <3>1. t.out[o] = s.out[o]
      BY <2>1 DEF Apart
    <3>2. QED BY <3>1 DEF Sound, Following
  <2>2. t.out[r].terminal => keys[r] = {}
    BY DEF Apart, Sound, Following
  <2>3. QED BY <2>1, <2>2 DEF Following
<1>6. Placed(t)
  <2>1. t.ready \in Seq(t.runs) /\ t.owner \in t.runs \cup {None}
        /\ (t.owner = None) = (t.ownerLeft = None)
    BY DEF Apart, Sound, Placed
  <2>2. ASSUME NEW o \in Runs \ t.runs PROVE t.out[o].pending = <<>>
    <3>1. o \in Runs \ s.runs /\ o # r
      BY PolicyAssumption DEF Apart, Sound, Placed
    <3>2. t.out[o] = s.out[o] /\ s.out[o].pending = <<>>
      BY <3>1 DEF Apart, Sound, Placed
    <3>3. QED BY <3>2
  <2>3. QED BY <2>1, <2>2 DEF Placed
<1>7. QED BY <1>1, <1>2, <1>3, <1>4, <1>5, <1>6 DEF Sound, Alike, Apart

LEMMA NextSound ==
  ASSUME NEW before \in Seq(PublicFrame), NEW past, NEW keys, NEW s,
         Sound(s, before, past, keys), NEW r \in Runs, s.owner = r,
         s.out[r].pending # <<>>, NEW t, t = PresentNext(s, r)
  PROVE  Sound(t, before, past, keys) /\ Popped(s, t, r)
<1> DEFINE queue == s.out[r].pending
           f == Head(queue)
           D == DOMAIN s.out[r].blocks
<1>1. queue \in Seq(Frames)
  BY DEF Sound, Schedulers, RunOutputs
<1>2. Playable(queue, D) /\ Learns(queue, D, keys[r])
  BY DEF Sound, Following
<1>3. queue # <<>>
  OBVIOUS
<1>4. Well(s, before, past, r, {}) /\ s.ownerLeft # None
  BY SoundIsWell
<1>5. /\ f.phase \in {"delta", "finish"} => f.block \in D
      /\ Playable(Tail(queue), KnownAfter(D, f))
      /\ Learns(Tail(queue), KnownAfter(D, f), keys[r])
  <2> HIDE DEF queue, D
  <2>1. QED BY <1>1, <1>2, <1>3, PlayableTakes
<1>6. f.phase \in {"delta", "finish"} => f.block \in DOMAIN s.out[r].blocks
  BY <1>5
<1>a. Turning(s, t, r, f)
  BY DEF Turning
<1> HIDE DEF f
<1>7. /\ Well(t, before, past, r, {}) /\ Popped(s, t, r)
      /\ DOMAIN t.out[r].blocks = KnownAfter(D, f)
  BY <1>3, <1>4, <1>6, <1>a, PresentNextWell
<1>8. Apart(s, t, r) /\ t.out[r].pending = Tail(queue)
  BY <1>7 DEF Popped
<1> HIDE DEF D, queue
<1>9. Playable(t.out[r].pending, DOMAIN t.out[r].blocks)
      /\ Learns(t.out[r].pending, DOMAIN t.out[r].blocks, keys[r])
  BY <1>5, <1>7, <1>8
<1>10. QED BY <1>7, <1>8, <1>9, WellIsSound

Drained(s, t) == t = DrainOwner(s)

LEMMA DrainSound ==
  ASSUME NEW before \in Seq(PublicFrame), NEW past, NEW keys, NEW s,
         Sound(s, before, past, keys), NEW r \in Runs, s.owner = r,
         NEW t, Drained(s, t)
  PROVE  Sound(t, before, past, keys) /\ Apart(s, t, r) /\ t.out[r].pending = <<>>
<1> DEFINE n == Len(s.out[r].pending)
           Reached(u, i) == /\ Sound(u, before, past, keys) /\ Apart(s, u, r)
                            /\ Len(u.out[r].pending) = n - i
           V == [i \in 0 .. n |-> {u \in Schedulers : Reached(u, i)}]
<1>1. s \in Schedulers /\ r # None /\ n \in Nat
  <2>1. s.out[r].pending \in Seq(Frames)
    BY DEF Sound, Schedulers, RunOutputs
  <2>2. QED BY <2>1, PolicyAssumption DEF Sound
<1>2. Reached(s, 0)
  BY <1>1 DEF Apart
<1>3. ASSUME NEW i \in 1 .. n, NEW u \in Schedulers, Reached(u, i - 1)
      PROVE  PresentNext(u, r) \in Schedulers /\ Reached(PresentNext(u, r), i)
  <2> DEFINE v == PresentNext(u, r)
             queue == u.out[r].pending
  <2>1. u.owner = r /\ queue \in Seq(Frames) /\ Len(queue) = n - i + 1 /\ i - 1 < n
    BY <1>1, <1>3 DEF Apart, Schedulers, RunOutputs
  <2>2. queue # <<>>
    BY <1>1, <2>1
  <2>3. v = PresentNext(u, r)
    OBVIOUS
  <2> HIDE DEF v
  <2>4. Sound(v, before, past, keys) /\ Popped(u, v, r)
    <3>1. u.out[r].pending # <<>>
      BY <2>2
    <3> HIDE DEF queue
    <3>2. QED BY <1>3, <2>1, <2>3, <3>1, NextSound
  <2>5. v.out[r].pending = Tail(queue) /\ Apart(u, v, r)
    BY <2>4 DEF Popped
  <2> HIDE DEF queue
  <2>6. Len(v.out[r].pending) = n - i
    BY <1>1, <2>1, <2>2, <2>5, HeadTailProperties
  <2>7. Apart(s, v, r)
    BY <1>3, <2>5 DEF Apart
  <2>8. v \in Schedulers
    BY <2>4 DEF Sound
  <2>9. QED BY <2>4, <2>6, <2>7, <2>8 DEF v
<1> HIDE DEF Reached
<1>4. s \in V[0]
  BY <1>1, <1>2
<1>5. \A i \in 1 .. n : \A u \in V[i - 1] : PresentNext(u, r) \in V[i]
  BY <1>1, <1>3
<1>6. V[n] = {u \in Schedulers : Reached(u, n)}
  BY <1>1
<1> HIDE DEF V
<1>7. DrainOwner(s) \in V[n]
  <2>1. s.owner # None /\ Len(s.out[s.owner].pending) \in Nat
        /\ \A i \in 1 .. Len(s.out[s.owner].pending) : \A u \in V[i - 1] :
             PresentNext(u, s.owner) \in V[i]
    BY <1>1, <1>5
  <2>2. DrainOwner(s) \in V[Len(s.out[s.owner].pending)]
    BY <1>4, <2>1, DrainRule
  <2>3. QED BY <2>2
<1>8. Reached(t, n) /\ t \in Schedulers
  BY <1>6, <1>7 DEF Drained
<1>9. Sound(t, before, past, keys) /\ Apart(s, t, r) /\ Len(t.out[r].pending) = 0
  BY <1>1, <1>8 DEF Reached
<1>10. t.out[r].pending \in Seq(Frames)
  BY <1>8 DEF Schedulers, RunOutputs
<1>11. QED BY <1>9, <1>10

-----------------------------------------------------------------------------
(* Changes that say nothing.                                               *)

\* A Run keeps what it has waiting and knows, or drops frames without text
\* when its event stream holds nothing open.
Settles(a, b, K, L) ==
  /\ L \subseteq K /\ (b.terminal => L = {})
  /\ \/ b.pending = a.pending /\ b.blocks = a.blocks
     \/ b.pending = <<>> /\ L = {} /\ Carried(a.pending) = {}

LEMMA ConservedDrops ==
  ASSUME NEW q, NEW r, NEW past, NEW ahead, Conserved(q, r, past, {}, ahead),
         Carried(ahead) = {}
  PROVE  Conserved(q, r, past, {}, <<>>)
<1>1. Carried(<<>>) = {} /\ Numbers(<<>>) = {} /\ DOMAIN <<>> = {}
  BY DEF Carried, Numbers
<1>2. Carried(past) = Emits(q, r) \cup {} \cup Carried(<<>>)
  BY <1>1 DEF Conserved
<1>3. \A i, j \in Emitted(q, r) : i < j => q[i].src < q[j].src
  BY DEF Conserved
<1>4. Emits(q, r) \cup {} \cup Numbers(<<>>) \subseteq 1 .. Len(past)
  BY <1>1 DEF Conserved
<1>5. (\A n \in Emits(q, r) : \A m \in {} \cup Numbers(<<>>) : n < m)
      /\ (\A n \in {} : \A m \in Numbers(<<>>) : n < m)
      /\ (\A i, j \in DOMAIN <<>> : i < j => <<>>[i].src < <<>>[j].src)
  BY <1>1
<1>6. QED BY <1>2, <1>3, <1>4, <1>5 DEF Conserved

LEMMA ChangeSound ==
  ASSUME NEW before, NEW later, NEW past, NEW keys, NEW less, NEW s,
         Sound(s, before, past, keys), NEW t \in Schedulers,
         Shown(t, later) = Shown(s, before), HeldOpen(t) = HeldOpen(s),
         Owning(t), Placed(t),
         \A o \in Runs : Settles(s.out[o], t.out[o], keys[o], less[o])
  PROVE  Sound(t, later, past, less)
<1>1. Bracketing(t, later)
  BY DEF Sound, Bracketing
<1>2. ASSUME NEW o \in Runs
      PROVE  Conserved(Shown(t, later), o, past[o], {}, t.out[o].pending)
  <2>1. Conserved(Shown(s, before), o, past[o], {}, s.out[o].pending)
    BY DEF Sound, Telling
  <2>2. t.out[o].pending = s.out[o].pending
        \/ (t.out[o].pending = <<>> /\ Carried(s.out[o].pending) = {})
    BY DEF Settles
  <2>3. QED BY <2>1, <2>2, ConservedDrops
<1>3. ASSUME NEW o \in Runs
      PROVE  /\ Playable(t.out[o].pending, DOMAIN t.out[o].blocks)
             /\ Learns(t.out[o].pending, DOMAIN t.out[o].blocks, less[o])
             /\ t.out[o].terminal => less[o] = {}
  <2>1. Settles(s.out[o], t.out[o], keys[o], less[o])
    OBVIOUS
  <2>2. CASE t.out[o].pending = s.out[o].pending /\ t.out[o].blocks = s.out[o].blocks
    BY <2>1, <2>2 DEF Sound, Following, Settles, Learns
  <2>3. CASE t.out[o].pending = <<>> /\ less[o] = {}
    <3>1. Playable(<<>>, DOMAIN t.out[o].blocks) /\ Learns(<<>>, DOMAIN t.out[o].blocks, {})
      BY DEF Playable, Learns
    <3>2. QED BY <2>3, <3>1
  <2>4. QED BY <2>1, <2>2, <2>3 DEF Settles
<1>4. Telling(t, later, past) /\ Following(t, less)
  BY <1>2, <1>3 DEF Telling, Following
<1>5. QED BY <1>1, <1>4 DEF Sound

LEMMA SettlesItself ==
  ASSUME NEW s, NEW before, NEW past, NEW keys, Sound(s, before, past, keys), NEW o \in Runs
  PROVE  Settles(s.out[o], s.out[o], keys[o], keys[o])
BY DEF Settles, Sound, Following

-----------------------------------------------------------------------------
(* Handing over the stream.                                                *)

\* The owner's segment is closed.
LEMMA CloseSound ==
  ASSUME NEW before \in Seq(PublicFrame), NEW past, NEW keys, NEW s,
         Sound(s, before, past, keys), NEW r \in Runs, s.owner = r,
         NEW t, Closing(s, t, r)
  PROVE  Sound(t, before, past, keys) /\ Beside(s, t, r) /\ AllClosed(t)
<1>1. Well(s, before, past, r, {})
  BY SoundIsWell
<1>2. /\ Well(t, before, past, r, {}) /\ Beside(s, t, r)
      /\ t.out[r].openBlock = None /\ t.out[r].blocks = s.out[r].blocks
  <2>1. Well(t, before, past, r, {}) /\ Reopened(s, t, r, None)
    BY <1>1, CloseWell
  <2>2. QED BY <2>1 DEF Reopened
<1>3. Playable(t.out[r].pending, DOMAIN t.out[r].blocks)
      /\ Learns(t.out[r].pending, DOMAIN t.out[r].blocks, keys[r])
  BY <1>2 DEF Beside, Sound, Following
<1>4. Sound(t, before, past, keys)
  BY <1>2, <1>3, WellIsSound DEF Beside
<1>5. AllClosed(t)
  BY <1>2, <1>4 DEF Sound, Owning, Beside, Apart, AllClosed
<1>6. QED BY <1>2, <1>4, <1>5

\* With every segment closed, the stream has no owner.
LEMMA ReleaseSound ==
  ASSUME NEW before \in Seq(PublicFrame), NEW past, NEW keys, NEW s,
         Sound(s, before, past, keys), \A o \in Runs : s.out[o].openBlock = None,
         NEW t \in Schedulers, t.owner = None, t.ownerLeft = None,
         t.runs = s.runs, t.ready = s.ready, t.published = s.published,
         t.pendingFrames = s.pendingFrames,
         \A o \in Runs : t.out[o].openBlock = s.out[o].openBlock,
         \A o \in Runs : Settles(s.out[o], t.out[o], keys[o], keys[o])
  PROVE  Sound(t, before, past, keys)
<1>1. Shown(t, before) = Shown(s, before)
  BY DEF Shown
<1>2. HeldOpen(t) = <<>> /\ HeldOpen(s) = <<>>
  BY DEF HeldOpen, Sound, Schedulers
<1>3. Owning(t)
  BY DEF Owning
<1>4. Placed(t)
  <2>1. ASSUME NEW o \in Runs \ t.runs PROVE t.out[o].pending = <<>>
    BY DEF Sound, Placed, Settles
  <2>2. QED BY <2>1 DEF Sound, Placed
<1>5. QED BY <1>1, <1>2, <1>3, <1>4, ChangeSound

LEMMA ExpireSound ==
  ASSUME NEW before \in Seq(PublicFrame), NEW past, NEW keys, NEW s,
         Sound(s, before, past, keys), NEW t, t = ExpireOwner(s)
  PROVE  Sound(t, before, past, keys) /\ Alike(s, t)
<1>1. CASE s.owner = None \/ s.ownerLeft # 0
  <2>1. t = s
    BY <1>1 DEF ExpireOwner
  <2>2. QED BY <2>1 DEF Alike
<1>2. CASE ~ (s.owner = None \/ s.ownerLeft # 0)
  <2> DEFINE r == s.owner
             c == ClosePublicSegment(s, r)
             parked == ~ s.out[r].terminal
  <2>1. r \in Runs /\ parked \in BOOLEAN
    BY <1>2 DEF Sound, Schedulers
  <2>2. Closing(s, c, r) /\ s.owner = r
    BY DEF Closing
  <2>3. t = [c EXCEPT !.out[r].parked = parked, !.owner = None, !.ownerLeft = None]
    BY <1>2 DEF ExpireOwner, ReleaseOwner
  <2> HIDE DEF r, c, parked
  <2>4. /\ Sound(c, before, past, keys) /\ Beside(s, c, r)
        /\ \A o \in Runs : c.out[o].openBlock = None
    <3>1. Sound(c, before, past, keys) /\ Beside(s, c, r) /\ AllClosed(c)
      BY <2>1, <2>2, CloseSound
    <3>2. QED BY <3>1 DEF AllClosed
  <2>5. c \in Schedulers
    BY <2>4 DEF Sound
  <2>6. /\ t \in Schedulers /\ t.owner = None /\ t.ownerLeft = None
        /\ t.runs = c.runs /\ t.ready = c.ready /\ t.published = c.published
        /\ t.pendingFrames = c.pendingFrames /\ t.finished = c.finished
    <3> DEFINE outputs == [c.out EXCEPT ![r].parked = parked]
    <3>1. outputs \in [Runs -> RunOutputs]
      BY <2>1, <2>5 DEF Schedulers, RunOutputs
    <3>2. t = [c EXCEPT !.out = outputs, !.owner = None, !.ownerLeft = None]
      BY <2>3, <2>5 DEF Schedulers
    <3> HIDE DEF outputs
    <3>3. QED BY <2>5, <3>1, <3>2 DEF Schedulers
  <2>7. \A o \in Runs : /\ t.out[o].openBlock = c.out[o].openBlock
                        /\ t.out[o].pending = c.out[o].pending
                        /\ t.out[o].blocks = c.out[o].blocks
                        /\ t.out[o].terminal = c.out[o].terminal
    BY <2>1, <2>3, <2>5 DEF Schedulers, RunOutputs
  <2>8. \A o \in Runs : Settles(c.out[o], t.out[o], keys[o], keys[o])
    BY <2>4, <2>7 DEF Settles, Sound, Following
  <2>9. Sound(t, before, past, keys)
    BY <2>4, <2>6, <2>7, <2>8, ReleaseSound
  <2>10. QED BY <2>4, <2>6, <2>9 DEF Alike, Beside, Apart
<1>3. QED BY <1>1, <1>2

LEMMA NoBlocksTable == NoBlocks \in Tables
<1>1. {} \in SUBSET Blocks /\ NoBlocks \in [{} -> Nat \X Nat]
  BY DEF NoBlocks
<1>2. QED BY <1>1 DEF Tables

\* A Run that has ended and has nothing waiting leaves the stream.
LEMMA FinishOwnerSound ==
  ASSUME NEW before \in Seq(PublicFrame), NEW past, NEW keys, NEW s,
         Sound(s, before, past, keys), NEW r \in Runs, s.owner = r,
         s.out[r].pending = <<>>, keys[r] = {}, NEW t, t = FinishOwner(s)
  PROVE  Sound(t, before, past, keys) /\ Alike(s, t)
<1> DEFINE c == ClosePublicSegment(s, r)
<1>1. Closing(s, c, r) /\ s.owner # None
  BY PolicyAssumption DEF Closing
<1>2. t = [c EXCEPT !.out[r].blocks = NoBlocks, !.owner = None, !.ownerLeft = None]
  <2>1. t = ReleaseOwner([c EXCEPT !.out[r].blocks = NoBlocks])
    BY <1>1 DEF FinishOwner
  <2> HIDE DEF c
  <2>2. QED BY <2>1 DEF ReleaseOwner
<1> HIDE DEF c
<1>3. /\ Sound(c, before, past, keys) /\ Beside(s, c, r)
      /\ \A o \in Runs : c.out[o].openBlock = None
  <2>1. Sound(c, before, past, keys) /\ Beside(s, c, r) /\ AllClosed(c)
    BY <1>1, CloseSound
  <2>2. QED BY <2>1 DEF AllClosed
<1>4. c \in Schedulers /\ NoBlocks \in Tables
  BY <1>3, NoBlocksTable DEF Sound
<1>5. /\ t \in Schedulers /\ t.owner = None /\ t.ownerLeft = None
      /\ t.runs = c.runs /\ t.ready = c.ready /\ t.published = c.published
      /\ t.pendingFrames = c.pendingFrames /\ t.finished = c.finished
  <2> DEFINE outputs == [c.out EXCEPT ![r].blocks = NoBlocks]
  <2>1. outputs \in [Runs -> RunOutputs]
    <3>1. c.out \in [Runs -> RunOutputs]
      BY <1>4 DEF Schedulers
    <3>2. [c.out[r] EXCEPT !.blocks = NoBlocks] \in RunOutputs
      BY <1>4, <3>1 DEF RunOutputs
    <3>3. QED BY <3>1, <3>2
  <2>2. t = [c EXCEPT !.out = outputs, !.owner = None, !.ownerLeft = None]
    BY <1>2
  <2> HIDE DEF outputs
  <2>3. QED BY <1>4, <2>1, <2>2 DEF Schedulers
<1>6. \A o \in Runs : /\ t.out[o].openBlock = c.out[o].openBlock
                      /\ t.out[o].pending = c.out[o].pending
                      /\ t.out[o].terminal = c.out[o].terminal
                      /\ o # r => t.out[o].blocks = c.out[o].blocks
  BY <1>2, <1>4 DEF Schedulers, RunOutputs
<1>7. ASSUME NEW o \in Runs PROVE Settles(c.out[o], t.out[o], keys[o], keys[o])
  <2>1. CASE o # r
    BY <1>3, <1>6, <2>1 DEF Settles, Sound, Following
  <2>2. CASE o = r
    <3>1. t.out[o].pending = <<>> /\ c.out[o].pending = <<>>
      BY <1>3, <1>6, <2>2 DEF Beside
    <3>2. Carried(<<>>) = {}
      BY DEF Carried
    <3>3. QED BY <2>2, <3>1, <3>2 DEF Settles
  <2>3. QED BY <2>1, <2>2
<1>8. Sound(t, before, past, keys)
  BY <1>3, <1>5, <1>6, <1>7, ReleaseSound
<1>9. QED BY <1>3, <1>5, <1>8 DEF Alike, Beside, Apart

PoppingReady(s, t, r) == t = PopReady(s, r)

LEMMA PopReadySound ==
  ASSUME NEW before \in Seq(PublicFrame), NEW past, NEW keys, NEW s,
         Sound(s, before, past, keys), s.ready # <<>>, NEW r, r = Head(s.ready),
         NEW t, PoppingReady(s, t, r)
  PROVE  /\ Sound(t, before, past, keys) /\ Alike(s, t) /\ t.out = s.out
         /\ t.owner = s.owner /\ r \in s.runs /\ r \in Runs
<1> DEFINE queue == s.ready
           rest == Tail(queue)
<1>1. s \in Schedulers /\ queue \in Seq(s.runs) /\ s.runs \subseteq Runs /\ queue \in Seq(Runs)
  BY DEF Sound, Placed, Schedulers
<1>2. r \in s.runs /\ rest \in Seq(s.runs) /\ rest \in Seq(Runs)
  <2>1. queue # <<>> /\ r = Head(queue)
    OBVIOUS
  <2> HIDE DEF queue
  <2>2. QED BY <1>1, <2>1, HeadTailProperties
<1>3. t = [s EXCEPT !.ready = rest, !.readySet = @ \ {r}]
  BY DEF PoppingReady, PopReady
<1> HIDE DEF queue, rest
<1>4. /\ t \in Schedulers /\ t.out = s.out /\ t.owner = s.owner /\ t.ownerLeft = s.ownerLeft
      /\ t.runs = s.runs /\ t.finished = s.finished /\ t.published = s.published
      /\ t.pendingFrames = s.pendingFrames /\ t.ready = rest
  BY <1>1, <1>2, <1>3 DEF Schedulers
<1>5. Shown(t, before) = Shown(s, before) /\ HeldOpen(t) = HeldOpen(s)
  BY <1>4 DEF Shown, HeldOpen
<1>6. Owning(t) /\ Placed(t)
  BY <1>2, <1>4 DEF Sound, Owning, Placed
<1>7. \A o \in Runs : Settles(s.out[o], t.out[o], keys[o], keys[o])
  BY <1>4, SettlesItself
<1>8. Sound(t, before, past, keys)
  BY <1>4, <1>5, <1>6, <1>7, ChangeSound
<1>9. QED BY <1>1, <1>2, <1>4, <1>8 DEF Alike

Owned(s, t, r) == t = [s EXCEPT !.owner = r, !.ownerLeft = IdleTimeout]

LEMMA OwnSound ==
  ASSUME NEW before \in Seq(PublicFrame), NEW past, NEW keys, NEW s,
         Sound(s, before, past, keys), NEW r \in Runs, r \in s.runs, s.owner = None,
         NEW t, Owned(s, t, r)
  PROVE  Sound(t, before, past, keys) /\ Alike(s, t) /\ t.owner = r
<1>1. s \in Schedulers /\ r # None /\ IdleTimeout \in 0 .. IdleTimeout /\ IdleTimeout # None
  BY PolicyAssumption DEF Sound
<1>2. /\ t \in Schedulers /\ t.out = s.out /\ t.owner = r /\ t.ownerLeft = IdleTimeout
      /\ t.runs = s.runs /\ t.finished = s.finished /\ t.published = s.published
      /\ t.pendingFrames = s.pendingFrames /\ t.ready = s.ready
  BY <1>1 DEF Owned, Schedulers
<1>3. \A o \in Runs : s.out[o].openBlock = None
  BY PolicyAssumption DEF Sound, Owning
<1>4. Shown(t, before) = Shown(s, before)
  BY <1>2 DEF Shown
<1>5. HeldOpen(t) = <<>> /\ HeldOpen(s) = <<>>
  BY <1>2, <1>3 DEF HeldOpen
<1>6. Owning(t)
  BY <1>2, <1>3 DEF Owning
<1>7. Placed(t)
  BY <1>1, <1>2 DEF Sound, Placed
<1>8. \A o \in Runs : Settles(s.out[o], t.out[o], keys[o], keys[o])
  BY <1>2, SettlesItself
<1>9. Sound(t, before, past, keys)
  BY <1>2, <1>4, <1>5, <1>6, <1>7, <1>8, ChangeSound
<1>10. QED BY <1>2, <1>9 DEF Alike


LEMMA AdmitSound ==
  ASSUME NEW before \in Seq(PublicFrame), NEW past, NEW keys, NEW s,
         Sound(s, before, past, keys), NEW t, t = AdmitNext(s)
  PROVE  Sound(t, before, past, keys) /\ Alike(s, t)
<1>1. CASE ~ (s.owner = None /\ s.ready # <<>>)
  <2>1. t = s
    BY <1>1 DEF AdmitNext
  <2>2. QED BY <2>1 DEF Alike
<1>2. CASE s.owner = None /\ s.ready # <<>>
  <2> DEFINE r == Head(s.ready)
             p == PopReady(s, r)
  <2>1. t = AdmitReady(s, r) /\ r = Head(s.ready) /\ PoppingReady(s, p, r)
    BY <1>2 DEF AdmitNext, PoppingReady
  <2> DEFINE u == [p EXCEPT !.owner = r, !.ownerLeft = IdleTimeout]
             v == DrainOwner(u)
             wiped == [p EXCEPT !.out[r].blocks = NoBlocks]
  <2>2. /\ Owned(p, u, r) /\ BlocksSet(p, wiped, r, NoBlocks)
        /\ IF s.out[r].terminal /\ s.out[r].pending = <<>> THEN t = wiped
           ELSE t = IF v.out[r].terminal THEN FinishOwner(v) ELSE v
    BY <2>1 DEF Owned, BlocksSet, AdmitReady, FinishIfTerminal, TakeStream
  <2>3. Drained(u, v)
    BY DEF Drained
  <2> HIDE DEF r, p, u, v, wiped
  <2>4. /\ Sound(p, before, past, keys) /\ Alike(s, p) /\ p.out = s.out
        /\ p.owner = s.owner /\ r \in s.runs /\ r \in Runs
    BY <1>2, <2>1, PopReadySound
  <2>5. CASE s.out[r].terminal /\ s.out[r].pending = <<>>
    <3>1. t = wiped /\ p \in Schedulers /\ NoBlocks \in Tables /\ Following(p, keys)
      BY <2>2, <2>4, <2>5, NoBlocksTable DEF Sound
    <3>2. /\ t \in Schedulers /\ Beside(p, t, r) /\ t.pendingFrames = p.pendingFrames
          /\ t.out[r].openBlock = p.out[r].openBlock /\ t.out[r].blocks = NoBlocks
      BY <2>2, <2>4, <3>1, SetBlocks
    <3>3. \A o \in Runs : p.out[o].openBlock = None /\ t.out[o].openBlock = None
      BY <1>2, <2>4, <3>2, PolicyAssumption DEF Sound, Owning, Beside, Apart
    <3>4. Owning(t) /\ HeldOpen(t) = <<>> /\ HeldOpen(p) = <<>>
      BY <1>2, <2>4, <3>2, <3>3 DEF Owning, HeldOpen, Beside, Apart
    <3>5. Shown(t, before) = Shown(p, before)
      BY <3>2 DEF Shown, Beside, Apart
    <3>6. Placed(t)
      <4>1. \A o \in Runs : t.out[o].pending = p.out[o].pending
        BY <2>4, <3>1, <3>2, BesideOutputs
      <4>2. QED BY <2>4, <3>2, <4>1 DEF Sound, Placed, Beside, Apart
    <3>7. ASSUME NEW o \in Runs PROVE Settles(p.out[o], t.out[o], keys[o], keys[o])
      <4>1. CASE o # r
        <5>1. t.out[o] = p.out[o]
          BY <3>2, <4>1 DEF Beside, Apart
        <5>2. QED BY <2>4, <5>1, SettlesItself
      <4>2. CASE o = r
        <5>1. t.out[r].pending = <<>> /\ p.out[r].pending = <<>> /\ keys[r] = {}
          BY <2>4, <2>5, <3>1, <3>2 DEF Beside, Following
        <5>2. Carried(<<>>) = {}
          BY DEF Carried
        <5>3. QED BY <4>2, <5>1, <5>2 DEF Settles
      <4>3. QED BY <4>1, <4>2
    <3>8. Sound(t, before, past, keys)
      BY <2>4, <3>2, <3>4, <3>5, <3>6, <3>7, ChangeSound
    <3>9. QED BY <2>4, <3>2, <3>8 DEF Alike, Beside, Apart
  <2>6. CASE ~ (s.out[r].terminal /\ s.out[r].pending = <<>>)
    <3>1. p.owner = None /\ r \in p.runs
      BY <1>2, <2>4 DEF Alike
    <3>2. Sound(u, before, past, keys) /\ Alike(p, u) /\ u.owner = r
      BY <2>2, <2>4, <3>1, OwnSound
    <3>3. Sound(v, before, past, keys) /\ Apart(u, v, r) /\ v.out[r].pending = <<>>
      BY <2>3, <2>4, <3>2, DrainSound
    <3>4. Alike(s, v)
      BY <2>4, <3>2, <3>3 DEF Alike, Apart
    <3>5. CASE v.out[r].terminal
      <4>1. keys[r] = {} /\ v.owner = r
        BY <2>4, <3>2, <3>3, <3>5 DEF Sound, Following, Apart
      <4>2. t = FinishOwner(v)
        BY <2>2, <2>6, <3>5
      <4>3. Sound(t, before, past, keys) /\ Alike(v, t)
        BY <2>4, <3>3, <4>1, <4>2, FinishOwnerSound
      <4>4. QED BY <3>4, <4>3 DEF Alike
    <3>6. CASE ~ v.out[r].terminal
      BY <2>2, <2>6, <3>3, <3>4, <3>6
    <3>7. QED BY <3>5, <3>6
  <2>7. QED BY <2>5, <2>6
<1>3. QED BY <1>1, <1>2

LEMMA AssignSound ==
  ASSUME NEW before \in Seq(PublicFrame), NEW past, NEW keys, NEW s,
         Sound(s, before, past, keys), NEW t, t = AssignOwner(s)
  PROVE  Sound(t, before, past, keys) /\ Alike(s, t)
<1> DEFINE n == Len(s.ready)
           Reached(u) == Sound(u, before, past, keys) /\ Alike(s, u)
           V == [i \in 0 .. n |-> {u \in Schedulers : Reached(u)}]
<1>1. s \in Schedulers /\ n \in Nat
  BY DEF Sound, Schedulers
<1>2. Reached(s)
  BY DEF Alike
<1>3. ASSUME NEW u \in Schedulers, Reached(u)
      PROVE  AdmitNext(u) \in Schedulers /\ Reached(AdmitNext(u))
  <2> DEFINE v == AdmitNext(u)
  <2>1. v = AdmitNext(u)
    OBVIOUS
  <2> HIDE DEF v
  <2>2. Sound(v, before, past, keys) /\ Alike(u, v)
    BY <1>3, <2>1, AdmitSound
  <2>3. v \in Schedulers /\ Reached(v)
    BY <1>3, <2>2 DEF Alike, Sound
  <2>4. QED BY <2>3 DEF v
<1> HIDE DEF Reached
<1>4. s \in V[0] /\ V[n] = {u \in Schedulers : Reached(u)}
  BY <1>1, <1>2
<1>5. \A i \in 1 .. n : \A u \in V[i - 1] : AdmitNext(u) \in V[i]
  BY <1>1, <1>3
<1> HIDE DEF V
<1>6. AssignOwner(s) \in V[n]
  <2>1. Len(s.ready) \in Nat
        /\ \A i \in 1 .. Len(s.ready) : \A u \in V[i - 1] : AdmitNext(u) \in V[i]
    BY <1>1, <1>5
  <2>2. AssignOwner(s) \in V[Len(s.ready)]
    BY <1>4, <2>1, AssignRule
  <2>3. QED BY <2>2
<1>7. QED BY <1>4, <1>6 DEF Reached

-----------------------------------------------------------------------------
(* Batches: text leaves the waiting frames in their order.                 *)

LEMMA BatchLengthFits ==
  ASSUME NEW q \in Seq(PublicFrame), q # <<>>
  PROVE  BatchLength(q) \in 1 .. Len(q)
<1> DEFINE M == {1} \cup {k \in 1 .. Len(q) : TextBytes(SubSeq(q, 1, k)) <= MaxBatchBytes}
           T == {i \in 0 .. Len(q) : Len(q) - i \in M}
<1>1. Len(q) \in Nat /\ Len(q) >= 1
  OBVIOUS
<1>2. M \subseteq 1 .. Len(q) /\ 1 \in M
  BY <1>1
<1>3. BatchLength(q) = CHOOSE x \in M : \A y \in M : x >= y
  BY DEF BatchLength, Max
<1> HIDE DEF M
<1>4. T \in SUBSET Nat /\ Len(q) - 1 \in T
  BY <1>1, <1>2
<1>5. PICK m \in T : \A k \in T : m <= k
  <2> HIDE DEF T
  <2>1. QED BY <1>4, LeastNatural
<1>6. Len(q) - m \in M /\ \A y \in M : Len(q) - m >= y
  <2>1. ASSUME NEW y \in M PROVE Len(q) - m >= y
    <3>1. y \in 1 .. Len(q) /\ Len(q) - y \in T
      BY <1>1, <1>2
    <3>2. m <= Len(q) - y /\ m \in Nat
      <4> HIDE DEF T
      <4>1. QED BY <1>4, <1>5, <3>1
    <3>3. QED BY <1>1, <3>1, <3>2
  <2>2. QED BY <1>5, <2>1
<1>7. \E x \in M : \A y \in M : x >= y
  BY <1>6
<1>8. BatchLength(q) \in M
  BY <1>3, <1>7
<1>9. QED BY <1>2, <1>8

Glue(a, b) == a \o b

LEMMA GlueAssociative ==
  ASSUME NEW S, NEW a \in Seq(S), NEW b \in Seq(S), NEW c \in Seq(S)
  PROVE  Glue(Glue(a, b), c) = Glue(a, Glue(b, c)) /\ Glue(a, b) \in Seq(S)
<1>1. (a \o b) \o c = a \o (b \o c)
  BY ConcatAssociative
<1>2. a \o b \in Seq(S)
  OBVIOUS
<1>3. QED BY <1>1, <1>2 DEF Glue

LEMMA ConcatShift ==
  ASSUME NEW S, NEW a \in Seq(S), NEW b \in Seq(S), NEW c \in Seq(S), NEW d \in Seq(S)
  PROVE  Glue(Glue(a, Glue(b, c)), d) = Glue(Glue(a, b), Glue(c, d))
<1>1. Glue(Glue(a, b), c) = Glue(a, Glue(b, c)) /\ Glue(a, b) \in Seq(S)
  BY GlueAssociative
<1>2. Glue(Glue(Glue(a, b), c), d) = Glue(Glue(a, b), Glue(c, d))
  BY <1>1, GlueAssociative
<1>3. QED BY <1>1, <1>2

LEMMA TakeDueSound ==
  ASSUME NEW before \in Seq(PublicFrame), NEW past, NEW keys, NEW s,
         Sound(s, before, past, keys), NEW force, NEW t, t = TakeDueBatch(s, force)
  PROVE  Sound(t, before, past, keys) /\ Alike(s, t)
<1>1. CASE t = s
  BY <1>1 DEF Alike
<1>2. CASE s.pendingFrames # <<>> /\ t = TakeBatch(s, BatchLength(s.pendingFrames))
  <2> DEFINE q == s.pendingFrames
             n == BatchLength(q)
             head == SubSeq(q, 1, n)
             rest == SubSeq(q, n + 1, Len(q))
             left == IF TextBytes(head) = 0 THEN s.batchLeft ELSE SendInterval
             shown == s.published \o head
  <2>1. s \in Schedulers /\ q \in Seq(PublicFrame) /\ s.published \in Seq(PublicFrame)
    BY DEF Sound, Schedulers
  <2>2. n \in 1 .. Len(q) /\ Len(q) \in Nat
    <3>1. q # <<>>
      BY <1>2
    <3> HIDE DEF q
    <3>2. QED BY <2>1, <3>1, BatchLengthFits
  <2>3. t = [s EXCEPT !.published = shown, !.pendingFrames = rest, !.batchLeft = left]
    BY <1>2, <2>1 DEF TakeBatch, PublishBatch, Schedulers
  <2>4. head \in Seq(PublicFrame) /\ rest \in Seq(PublicFrame)
    <3> HIDE DEF q, n
    <3>1. QED BY <2>1, <2>2
  <2>5. head \o rest = q
    <3> HIDE DEF q, n
    <3>1. 1 \in 1 .. Len(q) + 1 /\ n \in 1 - 1 .. Len(q) /\ Len(q) \in n .. Len(q)
      BY <2>2
    <3>2. SubSeq(q, 1, n) \o SubSeq(q, n + 1, Len(q)) = SubSeq(q, 1, Len(q))
      BY <2>1, <3>1, ConcatAdjacentSubSeq
    <3>3. QED BY <2>1, <3>2, SubSeqFull
  <2>6. left \in 0 .. SendInterval
    BY <2>1, PolicyAssumption DEF Schedulers
  <2> HIDE DEF q, n, head, rest, left
  <2>7. shown \in Seq(PublicFrame)
    BY <2>1, <2>4
  <2>8. before \o shown \o rest = before \o s.published \o q
    <3> DEFINE p == s.published
    <3>1. p \in Seq(PublicFrame)
      BY <2>1
    <3> HIDE DEF p
    <3>2. Glue(Glue(before, Glue(p, head)), rest) = Glue(Glue(before, p), Glue(head, rest))
      BY <2>4, <3>1, ConcatShift
    <3>3. Glue(head, rest) = q
      BY <2>5 DEF Glue
    <3>4. Glue(Glue(before, Glue(p, head)), rest) = Glue(Glue(before, p), q)
      BY <3>2, <3>3
    <3>5. QED BY <3>4, Zenon DEF Glue, p
  <2> HIDE DEF shown
  <2>9. /\ t \in Schedulers /\ t.out = s.out /\ t.owner = s.owner
        /\ t.ownerLeft = s.ownerLeft /\ t.runs = s.runs /\ t.finished = s.finished
        /\ t.ready = s.ready /\ t.published = shown /\ t.pendingFrames = rest
    BY <2>1, <2>3, <2>4, <2>6, <2>7 DEF Schedulers
  <2>10. Shown(t, before) = Shown(s, before) /\ HeldOpen(t) = HeldOpen(s)
    BY <2>8, <2>9 DEF Shown, HeldOpen, q
  <2>11. Owning(t) /\ Placed(t)
    BY <2>9 DEF Sound, Owning, Placed
  <2>12. \A o \in Runs : Settles(s.out[o], t.out[o], keys[o], keys[o])
    BY <2>9, SettlesItself
  <2>13. Sound(t, before, past, keys)
    BY <2>9, <2>10, <2>11, <2>12, ChangeSound
  <2>14. QED BY <2>9, <2>13 DEF Alike
<1>3. QED BY <1>1, <1>2 DEF TakeDueBatch

-----------------------------------------------------------------------------
(* Queues and flags.                                                       *)

\* Queues, deadlines and flags may change, and Runs register.
LEMMA MinorSound ==
  ASSUME NEW before \in Seq(PublicFrame), NEW past, NEW keys, NEW s,
         Sound(s, before, past, keys), NEW t \in Schedulers,
         t.out = s.out, t.owner = s.owner, (t.ownerLeft = None) = (s.ownerLeft = None),
         t.published = s.published, t.pendingFrames = s.pendingFrames,
         s.runs \subseteq t.runs, t.ready \in Seq(t.runs)
  PROVE  Sound(t, before, past, keys)
<1>1. Shown(t, before) = Shown(s, before) /\ HeldOpen(t) = HeldOpen(s)
  BY DEF Shown, HeldOpen
<1>2. Owning(t) /\ Placed(t)
  BY DEF Sound, Owning, Placed
<1>3. \A o \in Runs : Settles(s.out[o], t.out[o], keys[o], keys[o])
  BY SettlesItself
<1>4. QED BY <1>1, <1>2, <1>3, ChangeSound

LEMMA EnqueueSound ==
  ASSUME NEW before \in Seq(PublicFrame), NEW past, NEW keys, NEW s,
         Sound(s, before, past, keys), NEW r \in Runs, r \in s.runs,
         NEW t, t = EnqueueReady(s, r)
  PROVE  Sound(t, before, past, keys) /\ Alike(s, t)
<1>1. CASE t = s
  BY <1>1 DEF Alike
<1>2. CASE t = [s EXCEPT !.ready = Append(@, r), !.readySet = @ \cup {r}]
  <2> DEFINE queue == Append(s.ready, r)
             members == s.readySet \cup {r}
  <2>1. s \in Schedulers /\ queue \in Seq(s.runs) /\ queue \in Seq(Runs)
        /\ members \in SUBSET Runs
    BY DEF Sound, Placed, Schedulers
  <2>2. t = [s EXCEPT !.ready = queue, !.readySet = members]
    BY <1>2
  <2> HIDE DEF queue, members
  <2>3. /\ t \in Schedulers /\ t.out = s.out /\ t.owner = s.owner
        /\ t.ownerLeft = s.ownerLeft /\ t.published = s.published
        /\ t.pendingFrames = s.pendingFrames /\ t.runs = s.runs /\ t.ready = queue
        /\ t.finished = s.finished
    BY <2>1, <2>2 DEF Schedulers
  <2>4. Sound(t, before, past, keys)
    BY <2>1, <2>3, MinorSound
  <2>5. QED BY <2>3, <2>4 DEF Alike
<1>3. QED BY <1>1, <1>2 DEF EnqueueReady

LEMMA RemoveFirstType ==
  ASSUME NEW S, NEW q \in Seq(S), NEW e
  PROVE  RemoveFirst(q, e) \in Seq(S)
<1>1. CASE ~ \E i \in 1 .. Len(q) : q[i] = e
  BY <1>1 DEF RemoveFirst
<1>2. CASE \E i \in 1 .. Len(q) : q[i] = e
  <2> DEFINE I == {i \in 1 .. Len(q) : q[i] = e}
             k == CHOOSE x \in I : \A y \in I : x =< y
  <2>1. I # {} /\ I \in SUBSET Nat /\ I \subseteq 1 .. Len(q) /\ Len(q) \in Nat
    BY <1>2
  <2>2. RemoveFirst(q, e) = SubSeq(q, 1, k - 1) \o SubSeq(q, k + 1, Len(q))
    BY <1>2 DEF RemoveFirst, RemoveAt, SelectInSeq, Min
  <2> HIDE DEF I
  <2>3. \E x \in I : \A y \in I : x =< y
    BY <2>1, LeastNatural
  <2>4. k \in 1 .. Len(q)
    BY <2>1, <2>3
  <2> HIDE DEF k
  <2>5. SubSeq(q, 1, k - 1) \in Seq(S) /\ SubSeq(q, k + 1, Len(q)) \in Seq(S)
    BY <2>1, <2>4
  <2>6. QED BY <2>2, <2>5
<1>3. QED BY <1>1, <1>2

Removing(s, t, r) == t = RemoveReady(s, r)

LEMMA RemoveReadySound ==
  ASSUME NEW before \in Seq(PublicFrame), NEW past, NEW keys, NEW s,
         Sound(s, before, past, keys), NEW r, NEW t, Removing(s, t, r)
  PROVE  Sound(t, before, past, keys) /\ Alike(s, t) /\ t.out = s.out /\ t.owner = s.owner
<1> DEFINE queue == RemoveFirst(s.ready, r)
<1>1. s \in Schedulers /\ s.ready \in Seq(s.runs) /\ s.ready \in Seq(Runs)
  BY DEF Sound, Placed, Schedulers
<1>2. queue \in Seq(s.runs) /\ queue \in Seq(Runs)
  BY <1>1, RemoveFirstType
<1>3. t = [s EXCEPT !.ready = queue, !.readySet = @ \ {r}]
  BY DEF Removing, RemoveReady
<1> HIDE DEF queue
<1>4. /\ t \in Schedulers /\ t.out = s.out /\ t.owner = s.owner
      /\ t.ownerLeft = s.ownerLeft /\ t.published = s.published
      /\ t.pendingFrames = s.pendingFrames /\ t.runs = s.runs /\ t.ready = queue
      /\ t.finished = s.finished
  BY <1>1, <1>2, <1>3 DEF Schedulers
<1>5. Sound(t, before, past, keys)
  BY <1>2, <1>4, MinorSound
<1>6. QED BY <1>4, <1>5 DEF Alike

LEMMA WakeSound ==
  ASSUME NEW before \in Seq(PublicFrame), NEW past, NEW keys, NEW s,
         Sound(s, before, past, keys), NEW flag \in BOOLEAN,
         NEW t, t = [s EXCEPT !.wakeup = flag]
  PROVE  Sound(t, before, past, keys) /\ Alike(s, t)
<1>1. s \in Schedulers /\ s.ready \in Seq(s.runs)
  BY DEF Sound, Placed
<1>2. /\ t \in Schedulers /\ t.out = s.out /\ t.owner = s.owner
      /\ t.ownerLeft = s.ownerLeft /\ t.published = s.published
      /\ t.pendingFrames = s.pendingFrames /\ t.runs = s.runs /\ t.ready = s.ready
      /\ t.finished = s.finished
  BY <1>1 DEF Schedulers
<1>3. Sound(t, before, past, keys)
  BY <1>1, <1>2, MinorSound
<1>4. QED BY <1>2, <1>3 DEF Alike

-----------------------------------------------------------------------------
(* Frames arrive.                                                          *)

LEMMA CarriedAppend ==
  ASSUME NEW q \in Seq(Frames), NEW f \in Frames
  PROVE  /\ Carried(Append(q, f)) = Carried(q) \cup Leaving(f)
         /\ Numbers(Append(q, f)) = Numbers(q) \cup {f.src}
         /\ DOMAIN Append(q, f) = DOMAIN q \cup {Len(q) + 1}
         /\ Append(q, f)[Len(q) + 1] = f /\ \A i \in DOMAIN q : Append(q, f)[i] = q[i]
<1> DEFINE p == Append(q, f)
<1>1. /\ DOMAIN p = 1 .. Len(q) + 1 /\ DOMAIN q = 1 .. Len(q) /\ Len(q) \in Nat
      /\ p[Len(q) + 1] = f /\ \A i \in 1 .. Len(q) : p[i] = q[i]
  OBVIOUS
<1> HIDE DEF p
<1>2. DOMAIN p = DOMAIN q \cup {Len(q) + 1}
  BY <1>1
<1>3. /\ Carried(q) \subseteq Carried(p) /\ Leaving(f) \subseteq Carried(p)
      /\ Carried(p) \subseteq Carried(q) \cup Leaving(f)
  <2>1. ASSUME NEW n \in Carried(q) PROVE n \in Carried(p)
    BY <1>1 DEF Carried
  <2>2. ASSUME NEW n \in Leaving(f) PROVE n \in Carried(p)
    BY <1>1 DEF Carried, Leaving
  <2>3. ASSUME NEW n \in Carried(p) PROVE n \in Carried(q) \cup Leaving(f)
    <3>1. PICK i \in DOMAIN p : Carrying(p[i]) /\ n = p[i].src
      BY DEF Carried
    <3>2. CASE i = Len(q) + 1
      BY <1>1, <3>1, <3>2 DEF Leaving
    <3>3. CASE i \in DOMAIN q
      BY <1>1, <3>1, <3>3 DEF Carried
    <3>4. QED BY <1>2, <3>2, <3>3
  <2>4. QED BY <2>1, <2>2, <2>3
<1>4. /\ Numbers(q) \subseteq Numbers(p) /\ {f.src} \subseteq Numbers(p)
      /\ Numbers(p) \subseteq Numbers(q) \cup {f.src}
  <2>1. ASSUME NEW n \in Numbers(q) PROVE n \in Numbers(p)
    BY <1>1 DEF Numbers
  <2>2. f.src \in Numbers(p)
    BY <1>1 DEF Numbers
  <2>3. ASSUME NEW n \in Numbers(p) PROVE n \in Numbers(q) \cup {f.src}
    <3>1. PICK i \in DOMAIN p : n = p[i].src
      BY DEF Numbers
    <3>2. CASE i = Len(q) + 1
      BY <1>1, <3>1, <3>2
    <3>3. CASE i \in DOMAIN q
      BY <1>1, <3>1, <3>3 DEF Numbers
    <3>4. QED BY <1>2, <3>2, <3>3
  <2>4. QED BY <2>1, <2>2, <2>3
<1>5. QED BY <1>1, <1>2, <1>3, <1>4 DEF p

LEMMA ConservedQueues ==
  ASSUME NEW q, NEW r, NEW past \in Seq(Frames), NEW ahead \in Seq(Frames), NEW f \in Frames,
         f.src = Len(past) + 1, Conserved(q, r, past, {}, ahead)
  PROVE  Conserved(q, r, Append(past, f), {}, Append(ahead, f))
<1> DEFINE later == Append(past, f)
           queue == Append(ahead, f)
<1>1. Carried(later) = Carried(past) \cup Leaving(f) /\ Len(later) = Len(past) + 1
      /\ Len(past) \in Nat
  BY CarriedAppend
<1>2. /\ Carried(queue) = Carried(ahead) \cup Leaving(f)
      /\ Numbers(queue) = Numbers(ahead) \cup {f.src}
      /\ DOMAIN queue = DOMAIN ahead \cup {Len(ahead) + 1}
      /\ queue[Len(ahead) + 1] = f /\ \A i \in DOMAIN ahead : queue[i] = ahead[i]
  BY CarriedAppend
<1>3. \A i \in DOMAIN ahead : i < Len(ahead) + 1 /\ i \in Nat /\ Len(ahead) \in Nat
  OBVIOUS
<1> HIDE DEF later, queue
<1>4. Emits(q, r) \cup {} \cup Numbers(ahead) \subseteq 1 .. Len(past)
  BY DEF Conserved
<1>5. \A n \in Emits(q, r) \cup Numbers(ahead) : n < f.src
  BY <1>1, <1>4
<1>6. Carried(later) = Emits(q, r) \cup {} \cup Carried(queue)
  BY <1>1, <1>2 DEF Conserved
<1>7. \A i, j \in Emitted(q, r) : i < j => q[i].src < q[j].src
  BY DEF Conserved
<1>8. \A n \in Emits(q, r) : \A m \in {} \cup Numbers(queue) : n < m
  BY <1>2, <1>5 DEF Conserved
<1>9. ASSUME NEW i \in DOMAIN queue, NEW j \in DOMAIN queue, i < j
      PROVE  queue[i].src < queue[j].src
  <2>1. i \in DOMAIN ahead /\ queue[i] = ahead[i]
    BY <1>2, <1>3, <1>9
  <2>2. CASE j \in DOMAIN ahead
    BY <1>2, <1>9, <2>1, <2>2 DEF Conserved
  <2>3. CASE j = Len(ahead) + 1
    <3>1. ahead[i].src \in Numbers(ahead)
      BY <2>1 DEF Numbers
    <3>2. QED BY <1>2, <1>5, <2>1, <2>3, <3>1
  <2>4. QED BY <1>2, <2>2, <2>3
<1>10. Emits(q, r) \cup {} \cup Numbers(queue) \subseteq 1 .. Len(later)
  BY <1>1, <1>2, <1>4
<1>11. \A n \in {} : \A m \in Numbers(queue) : n < m
  OBVIOUS
<1>12. Conserved(q, r, later, {}, queue)
  BY <1>6, <1>7, <1>8, <1>9, <1>10, <1>11 DEF Conserved
<1>13. QED BY <1>12 DEF later, queue

\* A frame that its event stream may project is queued.
LEMMA AppendSound ==
  ASSUME NEW before \in Seq(PublicFrame), NEW past \in [Runs -> Seq(Frames)],
         NEW keys, NEW next, NEW s, Sound(s, before, past, keys),
         NEW r \in Runs, r \in s.runs, ~ s.out[r].terminal,
         NEW f \in Frames, f.src = Len(past[r]) + 1,
         f.phase \in {"delta", "finish"} => f.block \in keys[r],
         \A b \in next[r] : Starts(f, b) \/ (b \in keys[r] /\ ~ Ends(f, b)),
         \A o \in Runs \ {r} : next[o] = keys[o],
         NEW t, PendingSet(s, t, r, Append(s.out[r].pending, f))
  PROVE  Sound(t, before, [past EXCEPT ![r] = Append(@, f)], next) /\ Alike(s, t)
<1> DEFINE ahead == s.out[r].pending
           queue == Append(ahead, f)
           later == [past EXCEPT ![r] = Append(@, f)]
<1>1. s \in Schedulers /\ ahead \in Seq(Frames) /\ queue \in Seq(Frames)
  BY DEF Sound, Schedulers, RunOutputs
<1>2. PendingSet(s, t, r, queue)
  OBVIOUS
<1>3. Conserved(Shown(s, before), r, past[r], {}, ahead)
  BY DEF Sound, Telling
<1>4. Playable(ahead, DOMAIN s.out[r].blocks) /\ Learns(ahead, DOMAIN s.out[r].blocks, keys[r])
  BY DEF Sound, Following
<1>5. /\ later[r] = Append(past[r], f) /\ past[r] \in Seq(Frames)
      /\ \A o \in Runs \ {r} : later[o] = past[o]
  OBVIOUS
<1>6. Conserved(Shown(s, before), r, Append(past[r], f), {}, Append(ahead, f))
  <2> HIDE DEF ahead, queue, later
  <2>1. QED BY <1>1, <1>3, <1>5, ConservedQueues
<1>7. Playable(queue, DOMAIN s.out[r].blocks) /\ Learns(queue, DOMAIN s.out[r].blocks, next[r])
  <2> HIDE DEF ahead, later
  <2>1. QED BY <1>1, <1>4, PlayableAdds
<1>8. queue = Append(ahead, f)
  OBVIOUS
<1> HIDE DEF ahead, queue, later
<1>9. /\ t \in Schedulers /\ Apart(s, t, r) /\ t.pendingFrames = s.pendingFrames
      /\ t.out[r].blocks = s.out[r].blocks /\ t.out[r].openBlock = s.out[r].openBlock
      /\ t.out[r].pending = queue
  BY <1>1, <1>2, SetPending
<1>10. Shown(t, before) = Shown(s, before)
  BY <1>9 DEF Shown, Apart
<1>11. \A o \in Runs : t.out[o].openBlock = s.out[o].openBlock /\ t.out[o].blocks = s.out[o].blocks
  BY <1>9 DEF Apart
<1>12. HeldOpen(t) = HeldOpen(s)
  <2>1. t.owner = s.owner /\ s.owner \in Runs \cup {None}
    BY <1>1, <1>9 DEF Apart, Schedulers
  <2>2. QED BY <1>11, <2>1 DEF HeldOpen
<1>13. Owning(t) /\ Bracketing(t, before)
  BY <1>9, <1>10, <1>11, <1>12 DEF Sound, Owning, Bracketing, Apart
<1>14. ASSUME NEW o \in Runs
       PROVE  Conserved(Shown(t, before), o, later[o], {}, t.out[o].pending)
  <2>1. CASE o = r
    BY <1>5, <1>6, <1>8, <1>9, <1>10, <2>1
  <2>2. CASE o # r
    <3>1. t.out[o] = s.out[o] /\ later[o] = past[o]
      BY <1>5, <1>9, <2>2 DEF Apart
    <3>2. QED BY <1>10, <3>1 DEF Sound, Telling
  <2>3. QED BY <2>1, <2>2
<1>15. ASSUME NEW o \in Runs
       PROVE  /\ Playable(t.out[o].pending, DOMAIN t.out[o].blocks)
              /\ Learns(t.out[o].pending, DOMAIN t.out[o].blocks, next[o])
              /\ t.out[o].terminal => next[o] = {}
  <2>1. CASE o = r
    BY <1>7, <1>9, <2>1 DEF Apart
  <2>2. CASE o # r
    <3>1. t.out[o] = s.out[o] /\ next[o] = keys[o]
      BY <1>9, <2>2 DEF Apart
    <3>2. QED BY <3>1 DEF Sound, Following
  <2>3. QED BY <2>1, <2>2
<1>16. Placed(t)
  <2>1. /\ t.runs = s.runs /\ t.ready = s.ready /\ t.owner = s.owner
        /\ (t.ownerLeft = None) = (s.ownerLeft = None)
        /\ \A o \in Runs \ {r} : t.out[o] = s.out[o]
    BY <1>9 DEF Apart
  <2>2. Placed(s)
    BY DEF Sound
  <2>3. \A o \in Runs \ t.runs : t.out[o].pending = <<>>
    BY <2>1, <2>2 DEF Placed
  <2>4. QED BY <2>1, <2>2, <2>3 DEF Placed
<1>17. Telling(t, before, later) /\ Following(t, next)
  BY <1>14, <1>15 DEF Telling, Following
<1>18. Sound(t, before, later, next)
  BY <1>9, <1>13, <1>16, <1>17 DEF Sound
<1>19. QED BY <1>9, <1>18 DEF Alike, Apart, later

-----------------------------------------------------------------------------
(* The public methods.                                                     *)

LEMMA AdvanceSound ==
  ASSUME NEW before \in Seq(PublicFrame), NEW past, NEW keys, NEW s,
         Sound(s, before, past, keys), NEW force, NEW t, t = Advance(s, force)
  PROVE  Sound(t, before, past, keys) /\ Alike(s, t)
<1> DEFINE a == ExpireOwner(s)
           b == AssignOwner(a)
<1>1. a = ExpireOwner(s) /\ b = AssignOwner(a) /\ t = TakeDueBatch(b, force)
  BY DEF Advance
<1> HIDE DEF a, b
<1>2. Sound(a, before, past, keys) /\ Alike(s, a)
  BY <1>1, ExpireSound
<1>3. Sound(b, before, past, keys) /\ Alike(a, b)
  BY <1>1, <1>2, AssignSound
<1>4. Sound(t, before, past, keys) /\ Alike(b, t)
  BY <1>1, <1>3, TakeDueSound
<1>5. QED BY <1>2, <1>3, <1>4 DEF Alike

LEMMA UnparkSound ==
  ASSUME NEW before \in Seq(PublicFrame), NEW past, NEW keys, NEW s,
         Sound(s, before, past, keys), NEW r \in Runs,
         NEW t, t = [s EXCEPT !.out[r].parked = FALSE]
  PROVE  Sound(t, before, past, keys) /\ Alike(s, t)
<1>1. s \in Schedulers
  BY DEF Sound
<1>2. t \in Schedulers
  <2> DEFINE outputs == [s.out EXCEPT ![r].parked = FALSE]
  <2>1. s.out \in [Runs -> RunOutputs]
    BY <1>1 DEF Schedulers
  <2>2. [s.out[r] EXCEPT !.parked = FALSE] \in RunOutputs
    BY <2>1 DEF RunOutputs
  <2>3. outputs \in [Runs -> RunOutputs]
    BY <2>1, <2>2
  <2>4. t = [s EXCEPT !.out = outputs]
    OBVIOUS
  <2> HIDE DEF outputs
  <2>5. QED BY <1>1, <2>3, <2>4 DEF Schedulers
<1>3. /\ t.owner = s.owner /\ t.ownerLeft = s.ownerLeft /\ t.published = s.published
      /\ t.pendingFrames = s.pendingFrames /\ t.runs = s.runs /\ t.ready = s.ready
      /\ t.finished = s.finished
  BY <1>1 DEF Schedulers
<1>4. \A o \in Runs : /\ t.out[o].openBlock = s.out[o].openBlock
                      /\ t.out[o].pending = s.out[o].pending
                      /\ t.out[o].blocks = s.out[o].blocks
                      /\ t.out[o].terminal = s.out[o].terminal
  BY <1>1 DEF Schedulers, RunOutputs
<1>5. Shown(t, before) = Shown(s, before)
  BY <1>3 DEF Shown
<1>6. HeldOpen(t) = HeldOpen(s)
  <2>1. s.owner \in Runs \cup {None}
    BY <1>1 DEF Schedulers
  <2>2. QED BY <1>3, <1>4, <2>1 DEF HeldOpen
<1>7. Owning(t) /\ Placed(t)
  BY <1>3, <1>4 DEF Sound, Owning, Placed
<1>8. \A o \in Runs : Settles(s.out[o], t.out[o], keys[o], keys[o])
  BY <1>4 DEF Settles, Sound, Following
<1>9. Sound(t, before, past, keys)
  BY <1>2, <1>5, <1>6, <1>7, <1>8, ChangeSound
<1>10. QED BY <1>3, <1>9 DEF Alike

LEMMA PublishSound ==
  ASSUME NEW before \in Seq(PublicFrame), NEW past \in [Runs -> Seq(Frames)],
         NEW keys, NEW next, NEW s, Sound(s, before, past, keys),
         NEW r \in Runs, Accepting(s, r),
         NEW f \in Frames, f.src = Len(past[r]) + 1,
         f.phase \in {"delta", "finish"} => f.block \in keys[r],
         \A b \in next[r] : Starts(f, b) \/ (b \in keys[r] /\ ~ Ends(f, b)),
         \A o \in Runs \ {r} : next[o] = keys[o],
         NEW t, t = PublishIn(s, r, f)
  PROVE  Sound(t, before, [past EXCEPT ![r] = Append(@, f)], next) /\ Alike(s, t)
<1> DEFINE later == [past EXCEPT ![r] = Append(@, f)]
           a == [s EXCEPT !.out[r].pending = Append(@, f)]
           b == [a EXCEPT !.out[r].parked = FALSE]
           c == EnqueueReady(b, r)
           d == QueueFrame(s, r, f)
           e == AssignOwner(d)
           g == DrainIfOwner(e, r)
           h == Advance(g, FALSE)
<1>1. /\ PendingSet(s, a, r, Append(s.out[r].pending, f))
      /\ b = [a EXCEPT !.out[r].parked = FALSE] /\ c = EnqueueReady(b, r)
      /\ d = IF ~ FrameCanEmit(f) THEN a ELSE c
  BY DEF PendingSet, QueueFrame
<1>2. /\ e = AssignOwner(d) /\ g = DrainIfOwner(e, r) /\ h = Advance(g, FALSE)
      /\ t = [h EXCEPT !.wakeup = TRUE]
  BY DEF PublishIn, Wake
<1> HIDE DEF a, b, c, d, e, g, h
<1>3. r \in s.runs /\ ~ s.out[r].terminal
  BY DEF Accepting
<1>4. Sound(a, before, later, next) /\ Alike(s, a)
  BY <1>1, <1>3, AppendSound
<1> HIDE DEF later
<1>5. Sound(d, before, later, next) /\ Alike(s, d)
  <2>1. Sound(b, before, later, next) /\ Alike(a, b)
    BY <1>1, <1>4, UnparkSound
  <2>2. r \in b.runs
    BY <1>3, <1>4, <2>1 DEF Alike
  <2>3. Sound(c, before, later, next) /\ Alike(b, c)
    BY <1>1, <2>1, <2>2, EnqueueSound
  <2>4. QED BY <1>1, <1>4, <2>1, <2>3 DEF Alike
<1>6. Sound(e, before, later, next) /\ Alike(d, e)
  BY <1>2, <1>5, AssignSound
<1>7. Sound(g, before, later, next) /\ Alike(e, g)
  <2>1. CASE e.owner = r
    <3>1. Drained(e, g)
      BY <1>2, <2>1 DEF Drained, DrainIfOwner
    <3>2. Sound(g, before, later, next) /\ Apart(e, g, r)
      BY <1>6, <2>1, <3>1, DrainSound
    <3>3. QED BY <3>2 DEF Apart, Alike
  <2>2. CASE e.owner # r
    BY <1>2, <1>6, <2>2 DEF DrainIfOwner, Alike
  <2>3. QED BY <2>1, <2>2
<1>8. Sound(h, before, later, next) /\ Alike(g, h)
  BY <1>2, <1>7, AdvanceSound
<1>9. Sound(t, before, later, next) /\ Alike(h, t)
  BY <1>2, <1>8, WakeSound
<1>10. QED BY <1>5, <1>6, <1>7, <1>8, <1>9 DEF Alike, later

\* A Run that ends holds nothing open any more.
LEMMA EndRunSound ==
  ASSUME NEW before \in Seq(PublicFrame), NEW past, NEW keys, NEW less, NEW s,
         Sound(s, before, past, keys), NEW r \in Runs,
         less[r] = {}, \A o \in Runs \ {r} : less[o] = keys[o],
         NEW t, t = EndRun(s, r)
  PROVE  /\ Sound(t, before, past, less) /\ Alike(s, t) /\ t.out[r].terminal
         /\ t.owner = s.owner
<1>1. s \in Schedulers
  BY DEF Sound
<1> DEFINE a == s.out[r]
           ended == [a EXCEPT !.terminal = TRUE, !.parked = FALSE]
           outputs == [s.out EXCEPT ![r] = ended]
<1>2. t = [s EXCEPT !.out = outputs]
  BY <1>1 DEF EndRun, Schedulers, RunOutputs
<1>3. a \in RunOutputs /\ s.out \in [Runs -> RunOutputs]
  BY <1>1 DEF Schedulers
<1>a. /\ ended \in RunOutputs /\ ended.terminal = TRUE /\ ended.openBlock = a.openBlock
      /\ ended.pending = a.pending /\ ended.blocks = a.blocks
  <2> HIDE DEF a
  <2>1. QED BY <1>3 DEF RunOutputs
<1> HIDE DEF ended
<1>b. /\ outputs \in [Runs -> RunOutputs] /\ outputs[r] = ended
      /\ \A o \in Runs \ {r} : outputs[o] = s.out[o]
  BY <1>3, <1>a
<1> HIDE DEF outputs
<1>4. /\ t \in Schedulers /\ t.out = outputs
      /\ t.owner = s.owner /\ t.ownerLeft = s.ownerLeft /\ t.published = s.published
      /\ t.pendingFrames = s.pendingFrames /\ t.runs = s.runs /\ t.ready = s.ready
      /\ t.finished = s.finished
  BY <1>1, <1>2, <1>b DEF Schedulers
<1>5. /\ t.out[r].terminal
      /\ \A o \in Runs : /\ t.out[o].openBlock = s.out[o].openBlock
                         /\ t.out[o].pending = s.out[o].pending
                         /\ t.out[o].blocks = s.out[o].blocks
                         /\ o # r => t.out[o].terminal = s.out[o].terminal
  BY <1>4, <1>a, <1>b
<1>6. Shown(t, before) = Shown(s, before)
  BY <1>4 DEF Shown
<1>7. HeldOpen(t) = HeldOpen(s)
  <2>1. s.owner \in Runs \cup {None}
    BY <1>1 DEF Schedulers
  <2>2. QED BY <1>4, <1>5, <2>1 DEF HeldOpen
<1>8. Owning(t) /\ Placed(t)
  BY <1>4, <1>5 DEF Sound, Owning, Placed
<1>9. \A o \in Runs : Settles(s.out[o], t.out[o], keys[o], less[o])
  BY <1>5 DEF Settles, Sound, Following
<1>10. Sound(t, before, past, less)
  BY <1>4, <1>6, <1>7, <1>8, <1>9, ChangeSound
<1>11. QED BY <1>4, <1>5, <1>10 DEF Alike

LEMMA SettleOffSound ==
  ASSUME NEW before \in Seq(PublicFrame), NEW past, NEW keys, NEW s,
         Sound(s, before, past, keys), NEW r \in Runs, r \in s.runs, s.owner # r,
         keys[r] = {}, NEW t, t = SettleOffStream(s, r)
  PROVE  Sound(t, before, past, keys) /\ Alike(s, t)
<1>1. CASE PendingCanEmit(s, r)
  <2>1. t = EnqueueReady(s, r)
    BY <1>1 DEF SettleOffStream
  <2>2. QED BY <2>1, EnqueueSound
<1>2. CASE ~ PendingCanEmit(s, r)
  <2> DEFINE u == RemoveReady(s, r)
             a == u.out[r]
             wiped == [a EXCEPT !.pending = <<>>, !.blocks = NoBlocks]
             outputs == [u.out EXCEPT ![r] = wiped]
  <2>1. Removing(s, u, r)
    BY DEF Removing
  <2>2. t = [u EXCEPT !.out[r].pending = <<>>, !.out[r].blocks = NoBlocks]
    BY <1>2 DEF SettleOffStream
  <2> HIDE DEF u
  <2>3. Sound(u, before, past, keys) /\ Alike(s, u) /\ u.out = s.out /\ u.owner = s.owner
    BY <2>1, RemoveReadySound
  <2>4. u \in Schedulers /\ a \in RunOutputs /\ u.out \in [Runs -> RunOutputs]
        /\ NoBlocks \in Tables
    BY <2>3, NoBlocksTable DEF Sound, Schedulers
  <2>5. t = [u EXCEPT !.out = outputs]
    BY <2>2, <2>4 DEF Schedulers, RunOutputs
  <2>6. /\ wiped \in RunOutputs /\ wiped.terminal = a.terminal
        /\ wiped.openBlock = a.openBlock /\ wiped.pending = <<>>
    <3> HIDE DEF a
    <3>1. <<>> \in Seq(Frames)
      OBVIOUS
    <3>2. QED BY <2>4, <3>1 DEF RunOutputs
  <2> HIDE DEF wiped
  <2>7. /\ outputs \in [Runs -> RunOutputs] /\ outputs[r] = wiped
        /\ \A o \in Runs \ {r} : outputs[o] = u.out[o]
    BY <2>4, <2>6
  <2> HIDE DEF outputs
  <2>8. /\ t \in Schedulers /\ t.out = outputs
        /\ t.owner = u.owner /\ t.ownerLeft = u.ownerLeft /\ t.published = u.published
        /\ t.pendingFrames = u.pendingFrames /\ t.runs = u.runs /\ t.ready = u.ready
        /\ t.finished = u.finished
    BY <2>4, <2>5, <2>7 DEF Schedulers
  <2>9. u.out[r].openBlock = None
    BY <2>3 DEF Sound, Owning
  <2>10. /\ t.out[r].pending = <<>> /\ t.out[r].openBlock = None
         /\ \A o \in Runs : t.out[o].openBlock = u.out[o].openBlock
         /\ \A o \in Runs \ {r} : t.out[o] = u.out[o]
    BY <2>6, <2>7, <2>8, <2>9
  <2>11. Shown(t, before) = Shown(u, before)
    BY <2>8 DEF Shown
  <2>12. HeldOpen(t) = HeldOpen(u)
    <3>1. u.owner \in Runs \cup {None}
      BY <2>4 DEF Schedulers
    <3>2. QED BY <2>8, <2>10, <3>1 DEF HeldOpen
  <2>13. Owning(t)
    BY <2>3, <2>8, <2>10 DEF Sound, Owning
  <2>14. Placed(t)
    BY <2>3, <2>8, <2>10 DEF Sound, Placed
  <2>15. Carried(u.out[r].pending) = {}
    <3> DEFINE queue == s.out[r].pending
    <3>1. queue \in Seq(Frames)
      BY DEF Sound, Schedulers, RunOutputs
    <3>2. \A i \in DOMAIN queue : ~ (queue[i].text > 0)
      BY <1>2 DEF PendingCanEmit, FrameCanEmit
    <3>3. Carried(queue) = {}
      BY <3>2 DEF Carried, Carrying
    <3>4. QED BY <2>3, <3>3
  <2>16. ASSUME NEW o \in Runs PROVE Settles(u.out[o], t.out[o], keys[o], keys[o])
    <3>1. CASE o = r
      BY <2>10, <2>15, <3>1 DEF Settles
    <3>2. CASE o # r
      <4>1. t.out[o] = u.out[o]
        BY <2>10, <3>2
      <4>2. QED BY <2>3, <4>1, SettlesItself
    <3>3. QED BY <3>1, <3>2
  <2>17. Sound(t, before, past, keys)
    BY <2>3, <2>8, <2>11, <2>12, <2>13, <2>14, <2>16, ChangeSound
  <2>18. QED BY <2>3, <2>8, <2>17 DEF Alike
<1>3. QED BY <1>1, <1>2

LEMMA SettleRunSound ==
  ASSUME NEW before \in Seq(PublicFrame), NEW past, NEW keys, NEW s,
         Sound(s, before, past, keys), NEW r \in Runs, r \in s.runs,
         keys[r] = {}, NEW t, t = SettleRun(s, r)
  PROVE  Sound(t, before, past, keys) /\ Alike(s, t)
<1>1. CASE s.owner = r
  <2> DEFINE a == DrainOwner(s)
             b == FinishOwner(a)
  <2>1. Drained(s, a) /\ b = FinishOwner(a) /\ t = TakeDueBatch(b, TRUE)
    BY <1>1 DEF Drained, SettleRun
  <2> HIDE DEF a, b
  <2>2. Sound(a, before, past, keys) /\ Apart(s, a, r) /\ a.out[r].pending = <<>>
    BY <1>1, <2>1, DrainSound
  <2>3. a.owner = r /\ Alike(s, a)
    BY <1>1, <2>2 DEF Apart, Alike
  <2>4. Sound(b, before, past, keys) /\ Alike(a, b)
    BY <2>1, <2>2, <2>3, FinishOwnerSound
  <2>5. Sound(t, before, past, keys) /\ Alike(b, t)
    BY <2>1, <2>4, TakeDueSound
  <2>6. QED BY <2>3, <2>4, <2>5 DEF Alike
<1>2. CASE s.owner # r
  <2>1. t = SettleOffStream(s, r)
    BY <1>2 DEF SettleRun
  <2>2. QED BY <1>2, <2>1, SettleOffSound
<1>3. QED BY <1>1, <1>2

LEMMA FinishRunSound ==
  ASSUME NEW before \in Seq(PublicFrame), NEW past, NEW keys, NEW less, NEW s,
         Sound(s, before, past, keys), NEW r \in Runs, r \in s.runs,
         less[r] = {}, \A o \in Runs \ {r} : less[o] = keys[o],
         NEW t, t = FinishRunIn(s, r)
  PROVE  Sound(t, before, past, less) /\ Alike(s, t)
<1> DEFINE a == EndRun(s, r)
           b == SettleRun(a, r)
           c == AssignOwner(b)
           d == TakeDueBatch(c, FALSE)
<1>1. /\ a = EndRun(s, r) /\ b = SettleRun(a, r) /\ c = AssignOwner(b)
      /\ d = TakeDueBatch(c, FALSE) /\ t = [d EXCEPT !.wakeup = TRUE]
  BY DEF FinishRunIn, Wake
<1> HIDE DEF a, b, c, d
<1>2. Sound(a, before, past, less) /\ Alike(s, a)
  BY <1>1, EndRunSound
<1>3. r \in a.runs
  BY <1>2 DEF Alike
<1>4. Sound(b, before, past, less) /\ Alike(a, b)
  BY <1>1, <1>2, <1>3, SettleRunSound
<1>5. Sound(c, before, past, less) /\ Alike(b, c)
  BY <1>1, <1>4, AssignSound
<1>6. Sound(d, before, past, less) /\ Alike(c, d)
  BY <1>1, <1>5, TakeDueSound
<1>7. Sound(t, before, past, less) /\ Alike(d, t)
  BY <1>1, <1>6, WakeSound
<1>8. QED BY <1>2, <1>4, <1>5, <1>6, <1>7 DEF Alike

-----------------------------------------------------------------------------
(* The invariant of the specification.                                     *)

OpenTables == UNION {[D -> Nat] : D \in SUBSET Blocks}
OpenKeys == [o \in Runs |-> DOMAIN known[o]]

\* The sealed response has nothing left to show, and nothing more to come.
SealedEmpty(s) ==
  s.finished => /\ s.pendingFrames = <<>> /\ s.published = <<>>
                /\ \A o \in Runs : s.out[o].pending = <<>>
                /\ \A o \in s.runs : s.out[o].terminal

ResponseInv ==
  /\ sent \in Seq(PublicFrame) /\ history \in [Runs -> Seq(Frames)]
  /\ known \in [Runs -> OpenTables]
  /\ Sound(sch, sent, history, OpenKeys) /\ SealedEmpty(sch)

LEMMA KnownDomains ==
  ASSUME ResponseInv, NEW r \in Runs
  PROVE  DOMAIN known[r] \subseteq Blocks /\ \A b \in DOMAIN known[r] : known[r][b] \in Nat
<1>1. known[r] \in OpenTables
  BY DEF ResponseInv
<1>2. PICK D \in SUBSET Blocks : known[r] \in [D -> Nat]
  BY <1>1 DEF OpenTables
<1>3. QED BY <1>2

LEMMA FrameTyped ==
  ASSUME ResponseInv, NEW r \in Runs, NEW phase \in {"atomic", "start", "delta", "finish"},
         NEW b, b \in Blocks \/ (phase = "atomic" /\ b = None), NEW text \in Nat, NEW end \in Nat,
         NEW f, f = Frame(r, phase, b, text, end)
  PROVE  f \in Frames /\ f.src = Len(history[r]) + 1 /\ f.phase = phase /\ f.block = b
<1>1. Len(history[r]) \in Nat
  BY DEF ResponseInv
<1>2. QED BY <1>1 DEF Frame, Frames

\* A projected frame reaches the scheduler.
LEMMA PublishStep ==
  ASSUME ResponseInv, NEW r \in Runs, NEW f \in Frames, Publish(r, f),
         f.src = Len(history[r]) + 1,
         f.phase \in {"delta", "finish"} => f.block \in DOMAIN known[r],
         known' \in [Runs -> OpenTables], \A o \in Runs \ {r} : known'[o] = known[o],
         \A b \in DOMAIN known'[r] : Starts(f, b) \/ (b \in DOMAIN known[r] /\ ~ Ends(f, b))
  PROVE  ResponseInv'
<1> DEFINE keys == OpenKeys
           next == OpenKeys'
           s == sch
           t == sch'
           later == [history EXCEPT ![r] = Append(@, f)]
<1>1. /\ Sound(s, sent, history, keys) /\ sent \in Seq(PublicFrame)
      /\ history \in [Runs -> Seq(Frames)]
  BY DEF ResponseInv
<1>2. /\ Accepting(s, r) /\ t = PublishIn(s, r, f) /\ history' = later /\ sent' = sent
  BY DEF Publish
<1>3. /\ keys[r] = DOMAIN known[r] /\ next[r] = DOMAIN known'[r]
      /\ \A o \in Runs \ {r} : next[o] = keys[o]
  BY DEF OpenKeys
<1>4. /\ f.phase \in {"delta", "finish"} => f.block \in keys[r]
      /\ \A b \in next[r] : Starts(f, b) \/ (b \in keys[r] /\ ~ Ends(f, b))
  BY <1>3
<1>5. later \in [Runs -> Seq(Frames)]
  BY <1>1
<1>6. Sound(t, sent, later, next) /\ Alike(s, t)
  <2> HIDE DEF keys, next, s, t
  <2>1. QED BY <1>1, <1>2, <1>3, <1>4, PublishSound
<1>7. ~ t.finished
  BY <1>2, <1>6 DEF Accepting, Alike
<1>8. QED BY <1>1, <1>2, <1>5, <1>6, <1>7 DEF ResponseInv, SealedEmpty

LEMMA ProjectAtomicStep ==
  ASSUME ResponseInv, NEW r \in Runs, ProjectAtomic(r)
  PROVE  ResponseInv'
<1>1. PICK text \in AtomicTexts :
        Publish(r, Frame(r, "atomic", None, text, 0)) /\ UNCHANGED known
  BY DEF ProjectAtomic
<1> DEFINE f == Frame(r, "atomic", None, text, 0)
<1>2. text \in Nat
  BY AlphabetAssumption
<1>3. f \in Frames /\ f.src = Len(history[r]) + 1 /\ f.phase = "atomic" /\ f.block = None
  BY <1>2, FrameTyped
<1>4. Publish(r, f) /\ known' = known /\ known \in [Runs -> OpenTables]
  BY <1>1 DEF ResponseInv
<1> HIDE DEF f
<1>5. QED BY <1>3, <1>4, PublishStep DEF Ends

LEMMA ContentBlockStartStep ==
  ASSUME ResponseInv, NEW r \in Runs, ContentBlockStart(r)
  PROVE  ResponseInv'
<1>1. PICK b \in Blocks, shape \in StartShapes :
        /\ Publish(r, Frame(r, "start", b, shape[1], shape[2]))
        /\ known' = [known EXCEPT ![r] = Put(@, b, shape[2])]
  BY DEF ContentBlockStart
<1> DEFINE f == Frame(r, "start", b, shape[1], shape[2])
           table == Put(known[r], b, shape[2])
<1>2. shape[1] \in Nat /\ shape[2] \in Nat
  BY AlphabetAssumption
<1>3. f \in Frames /\ f.src = Len(history[r]) + 1 /\ f.phase = "start" /\ f.block = b
  BY <1>2, FrameTyped
<1>4. table \in OpenTables /\ DOMAIN table = DOMAIN known[r] \cup {b}
  <2> DEFINE old == known[r]
             end == shape[2]
  <2>1. DOMAIN old \subseteq Blocks /\ \A x \in DOMAIN old : old[x] \in Nat
    BY KnownDomains
  <2> HIDE DEF old, end
  <2>2. /\ Put(old, b, end) \in [DOMAIN old \cup {b} -> Nat]
        /\ DOMAIN Put(old, b, end) = DOMAIN old \cup {b} /\ DOMAIN old \cup {b} \in SUBSET Blocks
    BY <1>2, <2>1 DEF Put, end
  <2>3. Put(old, b, end) \in OpenTables
    BY <2>2 DEF OpenTables
  <2>4. QED BY <2>2, <2>3 DEF old, end
<1>5. /\ Publish(r, f) /\ known' = [known EXCEPT ![r] = table]
      /\ known \in [Runs -> OpenTables]
  BY <1>1 DEF ResponseInv
<1> HIDE DEF f, table
<1>6. /\ known' \in [Runs -> OpenTables] /\ known'[r] = table
      /\ \A o \in Runs \ {r} : known'[o] = known[o]
  BY <1>4, <1>5
<1>7. \A x \in DOMAIN known'[r] : Starts(f, x) \/ (x \in DOMAIN known[r] /\ ~ Ends(f, x))
  BY <1>3, <1>4, <1>6 DEF Starts, Ends
<1>8. QED BY <1>3, <1>5, <1>6, <1>7, PublishStep

LEMMA ContentBlockDeltaStep ==
  ASSUME ResponseInv, NEW r \in Runs, ContentBlockDelta(r)
  PROVE  ResponseInv'
<1>1. PICK b \in DOMAIN known[r] : Publish(r, Frame(r, "delta", b, 1, 0)) /\ UNCHANGED known
  BY DEF ContentBlockDelta
<1> DEFINE f == Frame(r, "delta", b, 1, 0)
<1>2. b \in Blocks
  BY KnownDomains
<1>3. f \in Frames /\ f.src = Len(history[r]) + 1 /\ f.phase = "delta" /\ f.block = b
  BY <1>2, FrameTyped
<1>4. Publish(r, f) /\ known' = known /\ known \in [Runs -> OpenTables]
  BY <1>1 DEF ResponseInv
<1> HIDE DEF f
<1>5. QED BY <1>3, <1>4, PublishStep DEF Ends

\* Blocks are forgotten.
LEMMA KnownShrinks ==
  ASSUME ResponseInv, NEW r \in Runs, NEW gone,
         known' = [known EXCEPT ![r] = [x \in DOMAIN @ \ gone |-> @[x]]]
  PROVE  /\ known' \in [Runs -> OpenTables] /\ DOMAIN known'[r] = DOMAIN known[r] \ gone
         /\ \A o \in Runs \ {r} : known'[o] = known[o]
<1> DEFINE old == known[r]
           table == [x \in DOMAIN old \ gone |-> old[x]]
<1>1. DOMAIN old \subseteq Blocks /\ \A x \in DOMAIN old : old[x] \in Nat
  BY KnownDomains
<1>2. known' = [known EXCEPT ![r] = table] /\ known \in [Runs -> OpenTables]
  BY DEF ResponseInv
<1> HIDE DEF old
<1>3. table \in [DOMAIN old \ gone -> Nat] /\ DOMAIN old \ gone \in SUBSET Blocks
      /\ DOMAIN table = DOMAIN old \ gone
  BY <1>1
<1> HIDE DEF table
<1>4. table \in OpenTables
  BY <1>3 DEF OpenTables
<1>5. QED BY <1>2, <1>3, <1>4 DEF old

LEMMA ContentBlockFinishStep ==
  ASSUME ResponseInv, NEW r \in Runs, ContentBlockFinish(r)
  PROVE  ResponseInv'
<1>1. PICK b \in DOMAIN known[r], text \in FinishTexts :
        /\ Publish(r, Frame(r, "finish", b, IF text > 0 THEN text ELSE known[r][b], 0))
        /\ known' = [known EXCEPT ![r] = [x \in DOMAIN @ \ {b} |-> @[x]]]
  BY DEF ContentBlockFinish
<1> DEFINE say == IF text > 0 THEN text ELSE known[r][b]
           f == Frame(r, "finish", b, say, 0)
<1>2. b \in Blocks /\ say \in Nat
  BY KnownDomains, AlphabetAssumption
<1> HIDE DEF say
<1>3. f \in Frames /\ f.src = Len(history[r]) + 1 /\ f.phase = "finish" /\ f.block = b
  BY <1>2, FrameTyped
<1>4. Publish(r, f)
  BY <1>1 DEF say
<1> HIDE DEF f
<1>5. /\ known' \in [Runs -> OpenTables] /\ DOMAIN known'[r] = DOMAIN known[r] \ {b}
      /\ \A o \in Runs \ {r} : known'[o] = known[o]
  BY <1>1, KnownShrinks
<1>6. QED BY <1>3, <1>4, <1>5, PublishStep DEF Ends

LEMMA ForgetSound ==
  ASSUME NEW before, NEW past, NEW keys, NEW less, NEW s, Sound(s, before, past, keys),
         \A o \in Runs : less[o] \subseteq keys[o]
  PROVE  Sound(s, before, past, less)
<1>1. s \in Schedulers /\ Owning(s) /\ Placed(s)
  BY DEF Sound
<1>2. \A o \in Runs : Settles(s.out[o], s.out[o], keys[o], less[o])
  BY DEF Settles, Sound, Following
<1>3. QED BY <1>1, <1>2, ChangeSound

LEMMA MessageErrorStep ==
  ASSUME ResponseInv, NEW r \in Runs, MessageError(r)
  PROVE  ResponseInv'
<1>1. PICK gone \in SUBSET DOMAIN known[r] :
        /\ known' = [known EXCEPT ![r] = [x \in DOMAIN @ \ gone |-> @[x]]]
        /\ \/ UNCHANGED <<sch, sent, history>>
           \/ \E text \in AtomicTexts : Publish(r, Frame(r, "atomic", None, text, 0))
  BY DEF MessageError
<1>2. /\ known' \in [Runs -> OpenTables] /\ DOMAIN known'[r] = DOMAIN known[r] \ gone
      /\ \A o \in Runs \ {r} : known'[o] = known[o]
  BY <1>1, KnownShrinks
<1>3. CASE UNCHANGED <<sch, sent, history>>
  <2> DEFINE less == [o \in Runs |-> DOMAIN known'[o]]
  <2>1. \A o \in Runs : less[o] \subseteq OpenKeys[o]
    BY <1>2 DEF OpenKeys
  <2>2. Sound(sch, sent, history, OpenKeys)
    BY DEF ResponseInv
  <2>3. OpenKeys' = less
    BY DEF OpenKeys
  <2> HIDE DEF less
  <2>4. Sound(sch, sent, history, less)
    BY <2>1, <2>2, ForgetSound
  <2>5. QED BY <1>2, <1>3, <2>3, <2>4 DEF ResponseInv, SealedEmpty
<1>4. CASE \E text \in AtomicTexts : Publish(r, Frame(r, "atomic", None, text, 0))
  <2>1. PICK text \in AtomicTexts : Publish(r, Frame(r, "atomic", None, text, 0))
    BY <1>4
  <2> DEFINE f == Frame(r, "atomic", None, text, 0)
  <2>2. text \in Nat
    BY AlphabetAssumption
  <2>3. f \in Frames /\ f.src = Len(history[r]) + 1 /\ f.phase = "atomic" /\ f.block = None
    BY <2>2, FrameTyped
  <2>4. Publish(r, f)
    BY <2>1
  <2> HIDE DEF f
  <2>5. \A b \in DOMAIN known'[r] : Starts(f, b) \/ (b \in DOMAIN known[r] /\ ~ Ends(f, b))
    BY <1>2, <2>3 DEF Ends
  <2>6. QED BY <1>2, <2>3, <2>4, <2>5, PublishStep
<1>5. QED BY <1>1, <1>3, <1>4

LEMMA RegisterRunStep ==
  ASSUME ResponseInv, NEW r \in Runs, RegisterRun(r)
  PROVE  ResponseInv'
<1> DEFINE s == sch
           t == sch'
<1>1. /\ ~ s.finished /\ t = [s EXCEPT !.runs = @ \cup {r}, !.wakeup = TRUE]
      /\ UNCHANGED <<known, sent, history>>
  BY DEF RegisterRun, RegisterRunIn, Wake
<1>2. Sound(s, sent, history, OpenKeys) /\ s \in Schedulers /\ sent \in Seq(PublicFrame)
      /\ s.ready \in Seq(s.runs)
  BY DEF ResponseInv, Sound, Placed
<1> DEFINE members == s.runs \cup {r}
<1>3. members \in SUBSET Runs /\ t = [s EXCEPT !.runs = members, !.wakeup = TRUE]
  BY <1>1, <1>2 DEF Schedulers
<1>4. s.runs \subseteq members /\ s.ready \in Seq(members)
  BY <1>2, SeqMonotonic
<1> HIDE DEF members
<1>5. /\ t \in Schedulers /\ t.out = s.out /\ t.owner = s.owner
      /\ t.ownerLeft = s.ownerLeft /\ t.published = s.published
      /\ t.pendingFrames = s.pendingFrames /\ t.runs = members /\ t.ready = s.ready
      /\ t.finished = s.finished
  <2> HIDE DEF s, t
  <2>1. QED BY <1>2, <1>3 DEF Schedulers
<1>6. Sound(t, sent, history, OpenKeys)
  <2> HIDE DEF s, t
  <2>1. QED BY <1>2, <1>4, <1>5, MinorSound
<1>7. OpenKeys' = OpenKeys
  BY <1>1 DEF OpenKeys
<1>8. QED BY <1>1, <1>5, <1>6, <1>7 DEF ResponseInv, SealedEmpty

LEMMA FinishRunStep ==
  ASSUME ResponseInv, NEW r \in Runs, FinishRun(r)
  PROVE  ResponseInv'
<1> DEFINE s == sch
           t == sch'
           keys == OpenKeys
           less == OpenKeys'
<1>1. /\ r \in s.runs /\ ~ s.out[r].terminal /\ t = FinishRunIn(s, r)
      /\ known' = [known EXCEPT ![r] = <<>>] /\ UNCHANGED <<sent, history>>
  BY DEF FinishRun
<1>2. Sound(s, sent, history, keys) /\ sent \in Seq(PublicFrame) /\ SealedEmpty(s)
      /\ known \in [Runs -> OpenTables]
  BY DEF ResponseInv
<1>3. <<>> \in OpenTables /\ DOMAIN <<>> = {}
  <2>1. {} \in SUBSET Blocks /\ <<>> \in [{} -> Nat]
    OBVIOUS
  <2>2. QED BY <2>1 DEF OpenTables
<1>4. known' \in [Runs -> OpenTables] /\ less[r] = {} /\ \A o \in Runs \ {r} : less[o] = keys[o]
  BY <1>1, <1>2, <1>3 DEF OpenKeys
<1>5. Sound(t, sent, history, less) /\ Alike(s, t)
  <2> HIDE DEF s, t, keys, less
  <2>1. QED BY <1>1, <1>2, <1>4, FinishRunSound
<1>6. ~ t.finished
  <2>1. ~ s.finished
    BY <1>1, <1>2 DEF SealedEmpty
  <2>2. QED BY <1>5, <2>1 DEF Alike
<1>7. QED BY <1>1, <1>4, <1>5, <1>6 DEF ResponseInv, SealedEmpty

LEMMA AdvancePublishedStep ==
  ASSUME ResponseInv, AdvancePublished
  PROVE  ResponseInv'
<1> DEFINE s == sch
           t == sch'
           a == [s EXCEPT !.wakeup = FALSE]
<1>1. /\ ~ s.finished /\ t = AdvancePublishedIn(a) /\ UNCHANGED <<known, sent, history>>
  BY DEF AdvancePublished, ConsumerAwake, ClearWakeupIn
<1>2. Sound(s, sent, history, OpenKeys) /\ sent \in Seq(PublicFrame)
  BY DEF ResponseInv
<1>3. a = [s EXCEPT !.wakeup = FALSE]
  OBVIOUS
<1> HIDE DEF a
<1>4. Sound(a, sent, history, OpenKeys) /\ Alike(s, a)
  <2> HIDE DEF s
  <2>1. QED BY <1>2, <1>3, WakeSound
<1>5. t = Advance(a, FALSE)
  BY <1>1, <1>4 DEF AdvancePublishedIn, Alike
<1>6. Sound(t, sent, history, OpenKeys) /\ Alike(a, t)
  <2> HIDE DEF s, t
  <2>1. QED BY <1>2, <1>4, <1>5, AdvanceSound
<1>7. ~ t.finished
  BY <1>1, <1>4, <1>6 DEF Alike
<1>8. OpenKeys' = OpenKeys
  BY <1>1 DEF OpenKeys
<1>9. QED BY <1>1, <1>6, <1>7, <1>8 DEF ResponseInv, SealedEmpty

\* Frames that are taken stay shown.
LEMMA TakeSound ==
  ASSUME NEW before \in Seq(PublicFrame), NEW past, NEW keys, NEW s,
         Sound(s, before, past, keys), NEW t, t = TakePublishedIn(s)
  PROVE  /\ Sound(t, before \o s.published, past, keys) /\ Alike(s, t)
         /\ t.out = s.out /\ t.published = <<>> /\ t.pendingFrames = s.pendingFrames
         /\ before \o s.published \in Seq(PublicFrame)
<1>1. s \in Schedulers
  BY DEF Sound
<1>2. <<>> \in Seq(PublicFrame) /\ s.published \in Seq(PublicFrame)
  BY <1>1 DEF Schedulers
<1>3. /\ t \in Schedulers /\ t.out = s.out /\ t.owner = s.owner
      /\ t.ownerLeft = s.ownerLeft /\ t.published = <<>>
      /\ t.pendingFrames = s.pendingFrames /\ t.runs = s.runs /\ t.ready = s.ready
      /\ t.finished = s.finished
  BY <1>1, <1>2 DEF TakePublishedIn, Schedulers
<1> DEFINE later == before \o s.published
<1>4. later \in Seq(PublicFrame)
  BY <1>2
<1>5. Shown(t, later) = Shown(s, before)
  <2>1. later \o <<>> = later
    <3> HIDE DEF later
    <3>1. QED BY <1>4, ConcatEmptySeq
  <2>2. Shown(t, later) = later \o <<>> \o s.pendingFrames
    BY <1>3 DEF Shown
  <2>3. Shown(s, before) = later \o s.pendingFrames
    BY DEF Shown
  <2> HIDE DEF later
  <2>4. QED BY <2>1, <2>2, <2>3
<1>6. HeldOpen(t) = HeldOpen(s) /\ Owning(t) /\ Placed(t)
  BY <1>3 DEF HeldOpen, Sound, Owning, Placed
<1>7. \A o \in Runs : Settles(s.out[o], t.out[o], keys[o], keys[o])
  BY <1>3, SettlesItself
<1> HIDE DEF later
<1>8. Sound(t, later, past, keys)
  BY <1>3, <1>5, <1>6, <1>7, ChangeSound
<1>9. QED BY <1>3, <1>4, <1>8 DEF Alike, later

LEMMA TakePublishedStep ==
  ASSUME ResponseInv, TakePublished
  PROVE  ResponseInv'
<1> DEFINE s == sch
           t == sch'
<1>1. /\ s.published # <<>> /\ sent' = sent \o s.published /\ t = TakePublishedIn(s)
      /\ UNCHANGED <<known, history>>
  BY DEF TakePublished
<1>2. Sound(s, sent, history, OpenKeys) /\ sent \in Seq(PublicFrame) /\ SealedEmpty(s)
  BY DEF ResponseInv
<1>3. /\ Sound(t, sent \o s.published, history, OpenKeys) /\ Alike(s, t)
      /\ sent \o s.published \in Seq(PublicFrame)
  <2> HIDE DEF s, t
  <2>1. QED BY <1>1, <1>2, TakeSound
<1>4. ~ t.finished
  BY <1>1, <1>2, <1>3 DEF SealedEmpty, Alike
<1>5. OpenKeys' = OpenKeys
  BY <1>1 DEF OpenKeys
<1>6. QED BY <1>1, <1>3, <1>4, <1>5 DEF ResponseInv, SealedEmpty

\* A scheduler in which nothing waits has nothing to advance.
LEMMA DrainedStays ==
  ASSUME NEW s \in Schedulers, s.owner = None, s.ready = <<>>, s.pendingFrames = <<>>
  PROVE  AssignOwner(ExpireOwner(s)) = s /\ Advance(s, TRUE) = s
<1>1. ExpireOwner(s) = s
  BY DEF ExpireOwner
<1>2. AssignOwner(s) = s
  <2> DEFINE V == [i \in 0 .. 0 |-> {s}]
  <2>1. Len(s.ready) = 0
    OBVIOUS
  <2>2. s \in V[0] /\ V[0] = {s}
    OBVIOUS
  <2>3. \A i \in 1 .. Len(s.ready) : \A t \in V[i - 1] : AdmitNext(t) \in V[i]
    BY <2>1
  <2> HIDE DEF V
  <2>4. AssignOwner(s) \in V[Len(s.ready)]
    <3>1. Len(s.ready) \in Nat
      BY <2>1
    <3>2. QED BY <2>2, <2>3, <3>1, AssignRule
  <2>5. QED BY <2>1, <2>2, <2>4
<1>3. TakeDueBatch(s, TRUE) = s
  BY DEF TakeDueBatch
<1>4. QED BY <1>1, <1>2, <1>3 DEF Advance

\* The response is sealed: nothing is left behind.
LEMMA FinishStep ==
  ASSUME ResponseInv, Finish
  PROVE  ResponseInv'
<1> DEFINE s == sch
           t == sch'
<1>1. /\ ResponseComplete(s) /\ sent' = sent \o FinishOutput(s) /\ t = FinishIn(s)
      /\ UNCHANGED <<known, history>>
  BY DEF Finish
<1>2. /\ Sound(s, sent, history, OpenKeys) /\ s \in Schedulers /\ sent \in Seq(PublicFrame)
      /\ s.ready \in Seq(s.runs) /\ \A o \in Runs \ s.runs : s.out[o].pending = <<>>
  BY DEF ResponseInv, Sound, Placed
<1>3. /\ s.owner = None /\ s.ready = <<>> /\ s.pendingFrames = <<>> /\ s.published = <<>>
      /\ \A o \in s.runs : s.out[o].pending = <<>> /\ s.out[o].terminal
  BY <1>1 DEF ResponseComplete, AllRunsTerminal, NothingQueued
<1>4. Advance(s, TRUE) = s
  <2> HIDE DEF s
  <2>1. QED BY <1>2, <1>3, DrainedStays
<1>5. sent' = sent
  <2>1. sent' = sent \o <<>>
    BY <1>1, <1>3, <1>4 DEF FinishOutput
  <2>2. QED BY <1>2, <2>1, ConcatEmptySeq
<1>6. t = [s EXCEPT !.published = <<>>, !.finished = TRUE, !.wakeup = TRUE]
  BY <1>1, <1>4 DEF FinishIn, Wake
<1>7. /\ t \in Schedulers /\ t.out = s.out /\ t.owner = s.owner
      /\ t.ownerLeft = s.ownerLeft /\ t.published = s.published
      /\ t.pendingFrames = s.pendingFrames /\ t.runs = s.runs /\ t.ready = s.ready
  <2>1. <<>> \in Seq(PublicFrame)
    OBVIOUS
  <2> HIDE DEF s, t
  <2>2. QED BY <1>2, <1>3, <1>6, <2>1 DEF Schedulers
<1>8. Sound(t, sent, history, OpenKeys)
  <2> HIDE DEF s, t
  <2>1. QED BY <1>2, <1>7, MinorSound
<1>9. SealedEmpty(t)
  BY <1>2, <1>3, <1>7 DEF SealedEmpty
<1>10. OpenKeys' = OpenKeys
  BY <1>1 DEF OpenKeys
<1>11. QED BY <1>1, <1>5, <1>8, <1>9, <1>10 DEF ResponseInv

LEMMA TickStep ==
  ASSUME ResponseInv, Tick
  PROVE  ResponseInv'
<1> DEFINE s == sch
           t == sch'
           left == IF s.ownerLeft = None \/ s.ownerLeft = 0 THEN s.ownerLeft
                   ELSE s.ownerLeft - 1
           batch == IF s.batchLeft = 0 THEN s.batchLeft ELSE s.batchLeft - 1
<1>1. t = TickIn(s) /\ UNCHANGED <<known, sent, history>>
  BY DEF Tick
<1>2. /\ Sound(s, sent, history, OpenKeys) /\ s \in Schedulers /\ sent \in Seq(PublicFrame)
      /\ s.ready \in Seq(s.runs) /\ SealedEmpty(s)
  BY DEF ResponseInv, Sound, Placed
<1>3. /\ s.ownerLeft \in (0 .. IdleTimeout) \cup {None} /\ s.batchLeft \in 0 .. SendInterval
      /\ t = [s EXCEPT !.ownerLeft = left, !.batchLeft = batch]
  BY <1>1, <1>2 DEF Schedulers, TickIn
<1>4. left \in (0 .. IdleTimeout) \cup {None} /\ (left = None) = (s.ownerLeft = None)
  <2>1. CASE s.ownerLeft = None
    BY <2>1
  <2>2. CASE s.ownerLeft # None
    <3>1. left \in 0 .. IdleTimeout
      BY <1>3, <2>2, PolicyAssumption
    <3>2. None \notin 0 .. IdleTimeout
      BY PolicyAssumption
    <3>3. QED BY <2>2, <3>1, <3>2
  <2>3. QED BY <2>1, <2>2
<1>5. batch \in 0 .. SendInterval
  BY <1>3, PolicyAssumption
<1> HIDE DEF left, batch
<1>6. /\ t \in Schedulers /\ t.out = s.out /\ t.owner = s.owner
      /\ (t.ownerLeft = None) = (s.ownerLeft = None) /\ t.published = s.published
      /\ t.pendingFrames = s.pendingFrames /\ t.runs = s.runs /\ t.ready = s.ready
      /\ t.finished = s.finished
  <2> HIDE DEF s, t
  <2>1. QED BY <1>2, <1>3, <1>4, <1>5 DEF Schedulers
<1>7. Sound(t, sent, history, OpenKeys)
  <2> HIDE DEF s, t
  <2>1. QED BY <1>2, <1>6, MinorSound
<1>8. SealedEmpty(t)
  BY <1>2, <1>6 DEF SealedEmpty
<1>9. OpenKeys' = OpenKeys
  BY <1>1 DEF OpenKeys
<1>10. QED BY <1>1, <1>7, <1>8, <1>9 DEF ResponseInv

LEMMA StutterStep ==
  ASSUME ResponseInv, UNCHANGED vars
  PROVE  ResponseInv'
<1>1. OpenKeys' = OpenKeys
  BY DEF vars, OpenKeys
<1>2. QED BY <1>1 DEF vars, ResponseInv

LEMMA ResponseInit == Init => ResponseInv
<1> SUFFICES ASSUME Init PROVE ResponseInv
  OBVIOUS
<1> DEFINE s == NewScheduler
           past == [o \in Runs |-> <<>>]
<1>1. sch = s /\ known = past /\ sent = <<>> /\ history = past
  BY DEF Init
<1>2. /\ <<>> \in Seq(PublicFrame) /\ <<>> \in Seq(Frames) /\ <<>> \in Seq(Runs)
      /\ <<>> \in Seq({})
  OBVIOUS
<1>3. <<>> \in OpenTables /\ DOMAIN <<>> = {}
  <2>1. {} \in SUBSET Blocks /\ <<>> \in [{} -> Nat]
    OBVIOUS
  <2>2. QED BY <2>1 DEF OpenTables
<1>4. NewRunOutput \in RunOutputs
  BY <1>2, NoBlocksTable DEF NewRunOutput, RunOutputs
<1>5. s \in Schedulers
  <2>1. 0 \in 0 .. SendInterval
    BY PolicyAssumption
  <2> DEFINE outputs == [o \in Runs |-> NewRunOutput]
  <2>2. outputs \in [Runs -> RunOutputs]
    BY <1>4
  <2>3. s = [runs |-> {}, out |-> outputs,
             ready |-> <<>>, readySet |-> {}, owner |-> None, ownerLeft |-> None,
             pendingFrames |-> <<>>, published |-> <<>>, batchLeft |-> 0,
             wakeup |-> FALSE, finished |-> FALSE]
    BY DEF NewScheduler
  <2> HIDE DEF outputs, s
  <2>4. QED BY <1>2, <2>1, <2>2, <2>3 DEF Schedulers
<1>6. /\ s.runs = {} /\ s.ready = <<>> /\ s.owner = None /\ s.ownerLeft = None
      /\ s.pendingFrames = <<>> /\ s.published = <<>> /\ ~ s.finished
      /\ \A o \in Runs : /\ s.out[o].pending = <<>> /\ s.out[o].openBlock = None
                         /\ ~ s.out[o].terminal
  BY DEF NewScheduler, NewRunOutput
<1>7. Shown(s, <<>>) = <<>>
  BY <1>6 DEF Shown
<1>8. Bracketing(s, <<>>)
  BY <1>6, <1>7 DEF Bracketing, Bracketed, OpenAtEnd, HeldOpen
<1>9. ASSUME NEW o \in Runs PROVE Conserved(<<>>, o, <<>>, {}, <<>>)
  <2>1. /\ Carried(<<>>) = {} /\ Numbers(<<>>) = {} /\ Emits(<<>>, o) = {}
        /\ Emitted(<<>>, o) = {} /\ DOMAIN <<>> = {}
    BY DEF Carried, Numbers, Emits, Emitted
  <2>2. QED BY <2>1 DEF Conserved
<1>10. Telling(s, <<>>, past)
  BY <1>6, <1>7, <1>9 DEF Telling
<1> HIDE DEF s
<1>11. Owning(s) /\ Placed(s)
  BY <1>2, <1>6 DEF Owning, Placed
<1>12. \A o \in Runs : OpenKeys[o] = {}
  BY <1>1, <1>3 DEF OpenKeys
<1>13. Following(s, OpenKeys)
  BY <1>6, <1>12 DEF Following, Playable, Learns
<1>14. Sound(s, <<>>, past, OpenKeys)
  BY <1>5, <1>8, <1>10, <1>11, <1>13 DEF Sound
<1>15. past \in [Runs -> Seq(Frames)] /\ past \in [Runs -> OpenTables]
  BY <1>2, <1>3
<1> HIDE DEF past
<1>16. QED BY <1>1, <1>2, <1>6, <1>14, <1>15 DEF ResponseInv, SealedEmpty

-----------------------------------------------------------------------------
(* The theorems.                                                           *)

\* What is proved of the stream holds in every state of the scheduler, however
\* the Runs, the consumer and the clock take their turns.
THEOREM ResponseIsSound == Spec => []ResponseInv
<1>1. ResponseInv /\ [Next]_vars => ResponseInv'
  <2> SUFFICES ASSUME ResponseInv, [Next]_vars PROVE ResponseInv'
    OBVIOUS
  <2>1. CASE UNCHANGED vars
    BY <2>1, StutterStep
  <2>2. ASSUME NEW r \in Runs, RegisterRun(r) PROVE ResponseInv'
    BY <2>2, RegisterRunStep
  <2>3. ASSUME NEW r \in Runs, FinishRun(r) PROVE ResponseInv'
    BY <2>3, FinishRunStep
  <2>4. ASSUME NEW r \in Runs, ProjectAtomic(r) PROVE ResponseInv'
    BY <2>4, ProjectAtomicStep
  <2>5. ASSUME NEW r \in Runs, ContentBlockStart(r) PROVE ResponseInv'
    BY <2>5, ContentBlockStartStep
  <2>6. ASSUME NEW r \in Runs, ContentBlockDelta(r) PROVE ResponseInv'
    BY <2>6, ContentBlockDeltaStep
  <2>7. ASSUME NEW r \in Runs, ContentBlockFinish(r) PROVE ResponseInv'
    BY <2>7, ContentBlockFinishStep
  <2>8. ASSUME NEW r \in Runs, MessageError(r) PROVE ResponseInv'
    BY <2>8, MessageErrorStep
  <2>9. CASE AdvancePublished
    BY <2>9, AdvancePublishedStep
  <2>10. CASE TakePublished
    BY <2>10, TakePublishedStep
  <2>11. CASE Finish
    BY <2>11, FinishStep
  <2>12. CASE Tick
    BY <2>12, TickStep
  <2>13. QED
    BY <2>1, <2>2, <2>3, <2>4, <2>5, <2>6, <2>7, <2>8, <2>9, <2>10, <2>11, <2>12 DEF Next
<1>2. QED BY ResponseInit, <1>1, PTL DEF Spec

\* Every field of LifecycleResponseScheduler keeps its type; no time left goes
\* negative and no Run is queued that _runs does not know.
THEOREM ResponseTypes == Spec => []TypeOK
<1>1. ResponseInv => TypeOK
  <2> SUFFICES ASSUME ResponseInv PROVE TypeOK
    OBVIOUS
  <2>1. sch \in Schedulers /\ Placed(sch)
    BY DEF ResponseInv, Sound
  <2>2. ASSUME NEW r \in Runs
        PROVE  /\ sch.out[r].openBlock \in Blocks \cup {None}
               /\ DOMAIN sch.out[r].blocks \subseteq Blocks
    <3>1. sch.out[r] \in RunOutputs
      BY <2>1 DEF Schedulers
    <3>2. sch.out[r].blocks \in Tables /\ sch.out[r].openBlock \in Blocks \cup {None}
      BY <3>1 DEF RunOutputs
    <3>3. PICK D \in SUBSET Blocks : sch.out[r].blocks \in [D -> Nat \X Nat]
      BY <3>2 DEF Tables
    <3>4. QED BY <3>2, <3>3
  <2>3. /\ sch.runs \subseteq Runs /\ sch.ownerLeft \in (0 .. IdleTimeout) \cup {None}
        /\ sch.batchLeft \in 0 .. SendInterval /\ sch.pendingFrames \in Seq(PublicFrame)
        /\ sch.published \in Seq(PublicFrame)
    BY <2>1 DEF Schedulers
  <2>4. QED BY <2>1, <2>2, <2>3 DEF TypeOK, Placed
<1>2. QED BY ResponseIsSound, <1>1, PTL

\* The text that response_scheduler.py serialises is well bracketed, for any
\* number of Runs and whatever they interleave: no segment of one Run is cut
\* by a text of another, and only the owner's segment may still be open.
THEOREM ResponseBracketed == Spec => []SegmentsNeverInterleave
<1>1. ResponseInv => SegmentsNeverInterleave
  BY DEF ResponseInv, Sound, Bracketing, Shown, SegmentsNeverInterleave, Stream
<1>2. QED BY ResponseIsSound, <1>1, PTL

\* Parking, resuming, ending and batching lose, repeat and reorder no text.
THEOREM ResponseConservesText == Spec => []TextConserved
<1>1. ResponseInv => TextConserved
  <2> SUFFICES ASSUME ResponseInv, NEW r \in Runs
               PROVE  /\ Carried(history[r]) = EmittedBy(r) \cup Carried(sch.out[r].pending)
                      /\ ShownInOrder(r)
    BY DEF TextConserved
  <2> DEFINE ahead == sch.out[r].pending
  <2>1. Conserved(Stream, r, history[r], {}, ahead)
    BY DEF ResponseInv, Sound, Telling, Shown, Stream
  <2>2. EmittedBy(r) = Emits(Stream, r)
    BY DEF EmittedBy, Emits
  <2>3. Carried(ahead) \subseteq Numbers(ahead)
    BY DEF Carried, Numbers
  <2> HIDE DEF ahead
  <2>4. Carried(history[r]) = EmittedBy(r) \cup Carried(ahead)
    BY <2>1, <2>2 DEF Conserved
  <2>5. \A i, j \in Emitted(Stream, r) : i < j => Stream[i].src < Stream[j].src
    BY <2>1 DEF Conserved
  <2>6. \A n \in EmittedBy(r), m \in Carried(ahead) : n < m
    BY <2>1, <2>2, <2>3 DEF Conserved
  <2>7. QED BY <2>4, <2>5, <2>6 DEF ShownInOrder, ahead
<1>2. QED BY ResponseIsSound, <1>1, PTL

\* What finish() seals shows every text the Runs published.
THEOREM SealedIsComplete == Spec => []SealedResponseComplete
<1>1. ResponseInv /\ TextConserved => SealedResponseComplete
  <2> SUFFICES ASSUME ResponseInv, TextConserved, sch.finished, NEW r \in Runs
               PROVE  /\ EmittedBy(r) = Carried(history[r])
                      /\ sch.pendingFrames = <<>> /\ sch.published = <<>>
    BY DEF SealedResponseComplete
  <2>1. /\ sch.pendingFrames = <<>> /\ sch.published = <<>>
        /\ sch.out[r].pending = <<>>
    BY DEF ResponseInv, SealedEmpty
  <2>2. Carried(sch.out[r].pending) = {}
    BY <2>1 DEF Carried
  <2>3. Carried(history[r]) = EmittedBy(r) \cup Carried(sch.out[r].pending)
    BY DEF TextConserved
  <2>4. QED BY <2>1, <2>2, <2>3
<1>2. QED BY ResponseIsSound, ResponseConservesText, <1>1, PTL

=============================================================================
