-------------------------------- MODULE Clock --------------------------------
(***************************************************************************)
(* The two clocks of the server and what is stored of them.  A session     *)
(* keeps valid_until, nanoseconds of std::chrono::steady_clock, which      *)
(* starts when the machine does; check_session_key compares it with now(), *)
(* milliseconds of the system clock since 1970 cut to 32 bits.  A message  *)
(* keeps now() as its when, and channel_msg orders the messages by it;     *)
(* send_msg takes now() first and inserts the row by a later statement,    *)
(* other threads theirs in between.                                        *)
(* Time is real time, in milliseconds; nobody sets the system clock.       *)
(***************************************************************************)
EXTENDS Integers, Sequences, FiniteSets

CONSTANTS
  Keys,         \* session keys
  Threads,      \* the server's threads that handle a send_msg
  NsPerMs,      \* 10^6
  Day,          \* 24h, in milliseconds
  Cut,          \* 2^32: now() counts modulo this
  MaxTime,      \* bound: the latest time
  MaxMessages   \* bound: messages stored

\* 24h are more nanoseconds than the milliseconds a uint32_t can count.
Units ==
  /\ NsPerMs \in Nat /\ Day \in Nat /\ Cut \in Nat \ {0}
  /\ Cut <= Day * NsPerMs
  /\ MaxTime \in Nat

VARIABLES
  time,       \* milliseconds since 1970
  booted,     \* when the machine was started
  sessions,   \* table session_key, with the time of the login
  pending,    \* messages that have their when and are not stored yet
  messages    \* table message, with the times it was stamped and stored

vars == << time, booted, sessions, pending, messages >>

\* Mutant: the clock that also gives valid_until.
NowSteady == (time - booted) % Cut

now == time % Cut
now_uncut == (time - booted) * NsPerMs
now_plus_uncut(ms) == now_uncut + ms * NsPerMs

TypeOK ==
  /\ time \in Nat
  /\ booted \in Nat /\ booted <= time
  /\ sessions \subseteq [key : Keys, valid_until : Nat, since : Nat]
  /\ pending \subseteq [by : Threads, when : Nat, at : Nat]
  /\ messages \in Seq([when : Nat, at : Nat, stored : Nat])

Init ==
  /\ time \in 0 .. MaxTime /\ booted = time
  /\ sessions = {} /\ pending = {} /\ messages = << >>

Elapse ==
  /\ time' \in time + 1 .. MaxTime
  /\ UNCHANGED << booted, sessions, pending, messages >>

\* The machine restarts, and the server with it; the tables are in a file.
Restart ==
  /\ booted # time /\ booted' = time
  /\ pending' = {}
  /\ UNCHANGED << time, sessions, messages >>

Forget(ks) == { s \in sessions : s.key \notin ks }

\* Of two logins that race to one key the second takes it over.
LogIn(k) ==
  /\ sessions' = Forget({k}) \cup
       {[key |-> k, valid_until |-> now_plus_uncut(Day), since |-> time]}
  /\ UNCHANGED << time, booted, pending, messages >>

\* ks are the keys of one user.
LogOut(ks) ==
  /\ sessions' = Forget(ks)
  /\ UNCHANGED << time, booted, pending, messages >>

\* send_msg makes the row, with now() as its when.
Stamp(t) ==
  /\ \A p \in pending : p.by # t
  /\ Len(messages) + Cardinality(pending) < MaxMessages
  /\ pending' = pending \cup {[by |-> t, when |-> now, at |-> time]}
  /\ UNCHANGED << time, booted, sessions, messages >>

\* And inserts it.
Store(p) ==
  /\ pending' = pending \ {p}
  /\ messages' =
       Append(messages, [when |-> p.when, at |-> p.at, stored |-> time])
  /\ UNCHANGED << time, booted, sessions >>

Next ==
  \/ Elapse \/ Restart
  \/ \E t \in Threads : Stamp(t)
  \/ \E p \in pending : Store(p)
  \/ \E k \in Keys : LogIn(k)
  \/ \E ks \in SUBSET Keys : LogOut(ks)

Spec == Init /\ [][Next]_vars

\* check_session_key accepts the session.
Valid(s) == s.valid_until >= now

\* channel_msg hands out message i before message j; of two with the same when
\* the query puts neither first.
Before(i, j) == messages[i].when < messages[j].when

-----------------------------------------------------------------------------
(* Properties.                                                             *)

\* "The timestamp of the moment this session key becomes invalid": a session
\* is not accepted later than 24h after its login.
SessionsExpire == \A s \in sessions : Valid(s) => time - s.since <= Day

\* What the code does instead: every session is accepted until its user logs
\* out, whatever the clocks show.
NeverExpires == \A s \in sessions : Valid(s)

\* A message that was stored before another one got its when is handed out
\* before it, as long as now() did not wrap between them and in whatever order
\* concurrent messages are stored (channel_msg's ORDER BY when).
OrderedUntilWrap ==
  \A i, j \in DOMAIN messages :
    /\ messages[i].stored < messages[j].at
    /\ messages[i].at \div Cut = messages[j].at \div Cut
    => Before(i, j)

=============================================================================
