----------------------------- MODULE Connection -----------------------------
(***************************************************************************)
(* What one connection of dotchat promises, whatever is said over it: the  *)
(* client sends one message and reads once (cli::run_boilerplate); the     *)
(* server's thread reads, answers once, and may close at any of its turns  *)
(* (thread_conn::callback).  Messages are only counted.  One that is       *)
(* longer than a read ("cut") leaves a rest that the next read takes for a *)
(* message.                                                                *)
(*                                                                         *)
(* Session refines this with the bytes of every message, Client with the   *)
(* menus and what they ask for.                                            *)
(***************************************************************************)
EXTENDS Integers

VARIABLES
  client,    \* "idle", "waiting" for an answer, or "ended"
  server,    \* the server's thread: "open" or "closed"
  up, down,  \* messages, or rests, not read yet: by the server, by the client
  cut        \* history: a message was longer than a read

vars == << client, server, up, down, cut >>

TypeOK ==
  /\ client \in {"idle", "waiting", "ended"}
  /\ server \in {"open", "closed"}
  /\ up \in Nat /\ down \in Nat
  /\ cut \in BOOLEAN

Init ==
  /\ client = "idle" /\ server = "open"
  /\ up = 0 /\ down = 0
  /\ cut = FALSE

\* A message is written; one that is too long for one read may be in parts.
Written(wire, new) ==
  \/ new = wire + 1 /\ cut' \in {cut, TRUE}
  \/ new \in Nat /\ new > wire + 1 /\ cut' = TRUE

\* A message is read, and leaves a rest if it is too long for one read.
Taken(wire, new) == wire > 0 /\ (new = wire - 1 \/ (cut /\ new = wire))

\* What is written to a connection the server closed is lost.
Ask ==
  /\ client = "idle" /\ client' = "waiting"
  /\ \/ server = "open" /\ Written(up, up')
     \/ server = "closed" /\ UNCHANGED << up, cut >>
  /\ UNCHANGED << server, down >>

Answer ==
  /\ server = "open" /\ up > 0
  /\ Written(down, down')
  /\ \/ Taken(up, up') /\ UNCHANGED server
     \/ up' = 0 /\ server' = "closed"
  /\ UNCHANGED client

Close ==
  /\ server = "open" /\ server' = "closed"
  /\ up' = 0
  /\ UNCHANGED << client, down, cut >>

Receive ==
  /\ client = "waiting" /\ client' = "idle"
  /\ Taken(down, down')
  /\ UNCHANGED << server, up, cut >>

\* The server closed the connection and nothing is left to read.
Hangup ==
  /\ client = "waiting" /\ client' = "idle"
  /\ server = "closed" /\ down = 0
  /\ UNCHANGED << server, up, down, cut >>

\* The program ends: when it is told to, instead of sending, with an answer
\* or without.
End ==
  /\ client = "idle" \/ (client = "waiting" /\ (down > 0 \/ server = "closed"))
  /\ client' = "ended"
  /\ up' = 0 /\ down' = 0
  /\ UNCHANGED << server, cut >>

Serve == Answer \/ (up > 0 /\ Close)
Read == Receive \/ Hangup \/ (client = "waiting" /\ End)

Next == Ask \/ Answer \/ Close \/ Receive \/ Hangup \/ End

Spec == Init /\ [][Next]_vars

\* The server's thread gets to every message that waits for it and the client
\* to its answer; nobody makes a client ask, nor the server close.
FairSpec == Spec /\ WF_vars(Serve) /\ WF_vars(Read)

-----------------------------------------------------------------------------
(* Properties.                                                             *)

\* A client that waits has its request, an answer or the end of the
\* connection on its way, also after a message was cut: conn.read() returns.
NobodyWaits == client = "waiting" => up > 0 \/ down > 0 \/ server = "closed"

\* While no message was cut, exactly one message is on its way on an open
\* connection when the client waits, and none when it does not: what it reads
\* next answers what it asked last.
OneInFlight ==
  ~cut /\ client # "ended" =>
     /\ up + down <= (IF client = "waiting" THEN 1 ELSE 0)
     /\ client = "waiting" /\ server = "open" => up + down = 1

\* Every request comes to an end: an answer, an error, or the end of the
\* program.
WaitEnds == client = "waiting" ~> client # "waiting"

=============================================================================
