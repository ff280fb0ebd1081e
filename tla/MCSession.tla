------------------------------ MODULE MCSession -----------------------------
(***************************************************************************)
(* Instances of Session for TLC.  The lengths are scaled down, so that a   *)
(* message can exceed a read by one byte and by more, and most messages    *)
(* make the stream drop what was read several times.                       *)
(***************************************************************************)
EXTENDS Session

Long(n) == [i \in 1..n |-> 1 + (i % 3)]

\* Short and with a NUL inside, empty, of the greatest length that occurs, too
\* long to be sent, and with a NUL at its start.
PlainTexts ==
  {<<<<1, 0, 2>>, <<>>>>, <<Long(18), Long(18)>>, <<Long(21), <<0, 1>>>>}

\* Both ends of a number matter: its first byte carries the sign.
SomeInts == {258, -2}
=============================================================================
