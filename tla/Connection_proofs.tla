-------------------------- MODULE Connection_proofs --------------------------
(***************************************************************************)
(* What holds of every connection, whatever is said over it.  Session and  *)
(* Client refine Connection, so it holds of theirs.                        *)
(***************************************************************************)
EXTENDS Connection, TLAPS

\* Nothing is left to read for a thread that has closed the connection.
NothingLeft == server = "closed" => up = 0

\* NobodyWaits and OneInFlight are inductive together with the types and that.
ConnectionInv == TypeOK /\ NothingLeft /\ NobodyWaits /\ OneInFlight

\* What OneInFlight says of a connection that is still used, cut or not.
InFlight ==
  /\ up + down <= (IF client = "waiting" THEN 1 ELSE 0)
  /\ client = "waiting" /\ server = "open" => up + down = 1

LEMMA ConnectionInvariance == Spec => []ConnectionInv
<1>1. Init => ConnectionInv
  <2> SUFFICES ASSUME Init PROVE ConnectionInv
    OBVIOUS
  <2>1. client = "idle" /\ server = "open" /\ up = 0 /\ down = 0
    BY DEF Init
  <2>2. cut \in BOOLEAN
    BY DEF Init
  <2>3. TypeOK
    BY <2>1, <2>2 DEF TypeOK
  <2>4. NothingLeft /\ NobodyWaits /\ OneInFlight
    BY <2>1 DEF NothingLeft, NobodyWaits, OneInFlight
  <2>5. QED
    BY <2>3, <2>4 DEF ConnectionInv
<1>2. ConnectionInv /\ [Next]_vars => ConnectionInv'
  <2> SUFFICES ASSUME ConnectionInv, [Next]_vars PROVE ConnectionInv'
    OBVIOUS
  <2>1. cut' \in BOOLEAN /\ (cut => cut')
    BY Zenon DEF ConnectionInv, TypeOK, Next, vars, Ask, Answer, Close, Receive,
                 Hangup, End, Written
  <2>2. /\ client \in {"idle", "waiting", "ended"}
        /\ server \in {"open", "closed"}
        /\ up \in Nat /\ down \in Nat
    BY DEF ConnectionInv, TypeOK
  <2>3. NothingLeft /\ NobodyWaits
    BY DEF ConnectionInv
  <2> DEFINE Grows(wire, new) == new \in Nat /\ new > wire
             Shrinks(wire, new) == wire > 0 /\ (new = wire - 1 \/ new = wire)
  <2>4. ASSUME NEW wire \in Nat, NEW new, Written(wire, new)
        PROVE  Grows(wire, new)
    <3>1. CASE new = wire + 1
      BY <3>1
    <3>2. CASE new \in Nat /\ new > wire + 1
      BY <3>2
    <3>3. QED
      BY <2>4, <3>1, <3>2 DEF Written
  <2>5. \A wire, new : Taken(wire, new) => Shrinks(wire, new)
    BY DEF Taken
  <2>6. TypeOK' /\ NothingLeft' /\ NobodyWaits'
    <3> SUFFICES /\ client' \in {"idle", "waiting", "ended"}
                 /\ server' \in {"open", "closed"}
                 /\ up' \in Nat /\ down' \in Nat
                 /\ NothingLeft' /\ NobodyWaits'
      BY <2>1 DEF TypeOK
    <3> USE <2>2, <2>3 DEF NothingLeft, NobodyWaits
    <3>1. CASE Ask
      BY <3>1, <2>4 DEF Ask
    <3>2. CASE Answer
      BY <3>2, <2>4, <2>5 DEF Answer
    <3>3. CASE Close
      BY <3>3 DEF Close
    <3>4. CASE Receive
      BY <3>4, <2>5 DEF Receive
    <3>5. CASE Hangup
      BY <3>5 DEF Hangup
    <3>6. CASE End
      BY <3>6 DEF End
    <3>7. CASE UNCHANGED vars
      BY <3>7 DEF vars
    <3>8. QED
      BY <3>1, <3>2, <3>3, <3>4, <3>5, <3>6, <3>7 DEF Next
  <2>7. OneInFlight'
    <3>1. CASE cut' \/ client' = "ended"
      BY <3>1 DEF OneInFlight
    <3>2. CASE ~cut' /\ client' # "ended"
      <4>1. ~cut
        BY <2>1, <3>2
      <4>2. client # "ended"
        BY <3>2 DEF Next, vars, Ask, Answer, Close, Receive, Hangup, End
      <4>3. InFlight
        BY <4>1, <4>2 DEF ConnectionInv, OneInFlight, InFlight
      <4>4. \A wire, new : Taken(wire, new) => wire > 0 /\ new = wire - 1
        BY <4>1 DEF Taken
      <4>5. \A wire, new : Written(wire, new) => new = wire + 1
        BY <3>2 DEF Written
      <4>6. InFlight'
        <5> USE <2>2, <2>3, <4>3 DEF NothingLeft, InFlight
        <5>1. CASE Ask
          BY <5>1, <4>5 DEF Ask
        <5>2. CASE Answer
          BY <5>2, <4>4, <4>5 DEF Answer
        <5>3. CASE Close
          BY <5>3 DEF Close
        <5>4. CASE Receive
          BY <5>4, <4>4 DEF Receive
        <5>5. CASE Hangup
          BY <5>5 DEF Hangup
        <5>6. CASE End
          BY <3>2, <5>6 DEF End
        <5>7. CASE UNCHANGED vars
          BY <5>7 DEF vars
        <5>8. QED
          BY <5>1, <5>2, <5>3, <5>4, <5>5, <5>6, <5>7 DEF Next
      <4>7. QED
        BY <4>6 DEF InFlight, OneInFlight
    <3>3. QED
      BY <3>1, <3>2
  <2>8. QED
    BY <2>6, <2>7 DEF ConnectionInv
<1>3. QED
  BY <1>1, <1>2, PTL DEF Spec

\* A client that waits for its answer has its request, an answer or the end of
\* the connection on its way, also when messages are longer than a read
\* (cli::run_boilerplate, thread_conn::callback).
THEOREM SomethingComes == Spec => []NobodyWaits
<1>1. ConnectionInv => NobodyWaits
  BY DEF ConnectionInv
<1>2. QED
  BY <1>1, ConnectionInvariance, PTL

\* As long as every message fits into a read, a client reads the answer to
\* what it asked last: there is at most one message on the connection.
THEOREM AnswersInOrder == Spec => []OneInFlight
<1>1. ConnectionInv => OneInFlight
  BY DEF ConnectionInv
<1>2. QED
  BY <1>1, ConnectionInvariance, PTL

=============================================================================
