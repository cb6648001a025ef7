----------------------------- MODULE MCDelivery -----------------------------
(* A small instance of ResponseDelivery for TLC: one entry Run and the Runs *)
(* it starts.                                                               *)
EXTENDS ResponseDelivery

CONSTANTS e, c1, c2

\* Streamed responses of two Runs, one of two texts each, one of a text each
\* with everything that can go wrong; and collected ones: one of three Runs
\* (so that starts nest), and one of two that may be cancelled and whose start
\* may fail.
MCRequests ==
  {[streaming |-> TRUE, runs |-> {e, c1}, texts |-> 2,
    cancels |-> FALSE, failures |-> FALSE, stops |-> FALSE],
   [streaming |-> TRUE, runs |-> {e, c1}, texts |-> 1,
    cancels |-> TRUE, failures |-> TRUE, stops |-> TRUE],
   [streaming |-> FALSE, runs |-> {e, c1, c2}, texts |-> 0,
    cancels |-> FALSE, failures |-> FALSE, stops |-> FALSE],
   [streaming |-> FALSE, runs |-> {e, c1}, texts |-> 1,
    cancels |-> TRUE, failures |-> TRUE, stops |-> TRUE]}
=============================================================================
