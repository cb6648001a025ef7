---------------------------- MODULE MCScheduler ----------------------------
(* Small instances of ResponseScheduler for TLC.                           *)
EXTENDS ResponseScheduler

CONSTANTS r1, r2, b1, b2

\* Blocks that show their boundaries and blocks that do not; only the former.
MCShapes == {<<0, 0>>, <<1, 1>>}
MCBounded == {<<1, 1>>}

\* A Run with up to three frames of two blocks against one that interrupts it.
MCInterrupted == r1 :> 3 @@ r2 :> 1
BlockSymmetry == Permutations(Blocks)

\* Two frames against one: enough for an owner that idles out while the other
\* Run waits, and for blank frames left pending when their Run ends.
MCLive == r1 :> 2 @@ r2 :> 1
=============================================================================
