---------------------------- MODULE MCThreadPool ----------------------------
(* The instances of ThreadPool that TLC checks.                            *)
EXTENDS ThreadPool, TLC

CONSTANTS c1, c2

\* One client may send a message too many; the other is only a neighbour.
OneBusy == c1 :> 2 @@ c2 :> 1

One == [c \in Conns |-> 1]
=============================================================================
