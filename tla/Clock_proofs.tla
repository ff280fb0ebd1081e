---------------------------- MODULE Clock_proofs ----------------------------
(***************************************************************************)
(* What the units of Clock make of valid_until and of when, for any clock, *)
(* any sessions and any messages.                                          *)
(***************************************************************************)
EXTENDS Clock, SequenceTheorems, TLAPS

\* What makes the two properties inductive: a session's timestamp is at least
\* a day of nanoseconds, and a when is what now() showed at a time not later
\* than that of its storing.
LongLived == \A s \in sessions : s.valid_until >= Day * NsPerMs

Stamped ==
  /\ \A p \in pending : p.at <= time /\ p.when = p.at % Cut
  /\ \A i \in DOMAIN messages :
       /\ messages[i].at <= messages[i].stored
       /\ messages[i].when = messages[i].at % Cut

ClockInv == TypeOK /\ LongLived /\ Stamped

\* Numbers that lie in the same stretch of Cut numbers are in the order of
\* their remainders.
LEMMA SameStretch ==
  ASSUME NEW c \in Nat \ {0}, NEW a \in Nat, NEW b \in Nat,
         a < b, a \div c = b \div c
  PROVE  a % c < b % c
<1>1. a = c * (a \div c) + (a % c) /\ b = c * (b \div c) + (b % c)
  OBVIOUS
<1>2. a \div c \in Int /\ b \div c \in Int /\ a % c \in Int /\ b % c \in Int
  OBVIOUS
<1> DEFINE q == c * (a \div c)
<1>3. q = c * (b \div c) /\ q \in Int
  BY <1>2
<1> HIDE DEF q
<1>4. a = q + (a % c) /\ b = q + (b % c)
  BY <1>1, <1>3 DEF q
<1>5. QED
  BY <1>2, <1>3, <1>4

\* A timestamp of a later day is as large: the steady clock is not negative.
LEMMA DayAhead ==
  ASSUME Units, TypeOK
  PROVE  now_plus_uncut(Day) \in Nat /\ now_plus_uncut(Day) >= Day * NsPerMs
<1> DEFINE up == time - booted
<1>1. up \in Nat
  BY DEF TypeOK
<1> HIDE DEF up
<1>2. up * NsPerMs \in Nat /\ Day * NsPerMs \in Nat
  BY <1>1 DEF Units
<1>3. now_plus_uncut(Day) = up * NsPerMs + Day * NsPerMs
  BY DEF now_plus_uncut, now_uncut, up
<1>4. QED
  BY <1>2, <1>3

LEMMA Times ==
  ASSUME TypeOK, NEW i \in DOMAIN messages
  PROVE  /\ messages[i].at \in Nat /\ messages[i].when \in Nat
         /\ messages[i].stored \in Nat
<1> DEFINE S == [when : Nat, at : Nat, stored : Nat]
<1>1. messages \in Seq(S)
  BY DEF TypeOK
<1> HIDE DEF S
<1>2. messages[i] \in S
  BY <1>1, ElementOfSeq
<1>3. QED
  BY <1>2 DEF S

\* What appending an element makes of a sequence, position by position.
LEMMA Appended ==
  ASSUME NEW S, NEW s \in Seq(S), NEW e \in S
  PROVE  /\ DOMAIN Append(s, e) = 1 .. Len(s) + 1
         /\ DOMAIN s = 1 .. Len(s) /\ Len(s) \in Nat
         /\ \A i \in DOMAIN s : Append(s, e)[i] = s[i]
         /\ Append(s, e)[Len(s) + 1] = e
PROOF
  <1>1. DOMAIN s = 1 .. Len(s) /\ Len(s) \in Nat
    OBVIOUS
  <1>2. Append(s, e) \in Seq(S) /\ Len(Append(s, e)) = Len(s) + 1
    BY AppendProperties
  <1>3. DOMAIN Append(s, e) = 1 .. Len(s) + 1
    BY <1>2
  <1> QED
    BY <1>1, <1>3, AppendProperties

\* The invariant holds in every state.
LEMMA ClockInvariance ==
  ASSUME Units
  PROVE  Spec => []ClockInv
<1>1. Init => ClockInv
  BY DEF Units, Init, ClockInv, TypeOK, LongLived, Stamped
<1>2. ClockInv /\ [Next]_vars => ClockInv'
  <2> SUFFICES ASSUME ClockInv, [Next]_vars PROVE ClockInv'
    OBVIOUS
  <2>1. CASE Elapse
    <3>1. time' \in Nat /\ time < time'
      BY <2>1 DEF Elapse, ClockInv, TypeOK
    <3>2. TypeOK'
      BY <2>1, <3>1 DEF Elapse, ClockInv, TypeOK
    <3>3. LongLived'
      BY <2>1 DEF Elapse, ClockInv, LongLived
    <3>4. Stamped'
      <4>1. \A p \in pending : p.at \in Nat
        BY DEF ClockInv, TypeOK
      <4>2. QED
        BY <2>1, <3>1, <4>1 DEF Elapse, ClockInv, TypeOK, Stamped
    <3>5. QED
      BY <3>2, <3>3, <3>4 DEF ClockInv
  <2>2. CASE Restart
    BY <2>2 DEF Restart, ClockInv, TypeOK, LongLived, Stamped
  <2>3. ASSUME NEW t \in Threads, Stamp(t) PROVE ClockInv'
    <3> DEFINE m == [by |-> t, when |-> now, at |-> time]
    <3>1. m \in [by : Threads, when : Nat, at : Nat]
      BY DEF now, Units, ClockInv, TypeOK
    <3>2. /\ m.at = time /\ m.when = time % Cut /\ time \in Nat
      BY DEF now, ClockInv, TypeOK
    <3>3. /\ pending' = pending \cup {m}
          /\ UNCHANGED << time, booted, sessions, messages >>
      BY <2>3 DEF Stamp
    <3> HIDE DEF m
    <3>4. TypeOK' /\ LongLived'
      BY <3>1, <3>3 DEF ClockInv, TypeOK, LongLived
    <3>5. Stamped'
      BY <3>2, <3>3 DEF ClockInv, Stamped
    <3>6. QED
      BY <3>4, <3>5 DEF ClockInv
  <2>4. ASSUME NEW p \in pending, Store(p) PROVE ClockInv'
    <3> DEFINE m == [when |-> p.when, at |-> p.at, stored |-> time]
    <3>1. /\ p \in [by : Threads, when : Nat, at : Nat] /\ time \in Nat
          /\ p.at <= time /\ p.when = p.at % Cut
      BY DEF ClockInv, TypeOK, Stamped
    <3>2. /\ m \in [when : Nat, at : Nat, stored : Nat]
          /\ m.at <= m.stored /\ m.when = m.at % Cut
      BY <3>1
    <3>3. /\ pending' = pending \ {p} /\ messages' = Append(messages, m)
          /\ UNCHANGED << time, booted, sessions >>
      BY <2>4 DEF Store
    <3> HIDE DEF m
    <3>4. TypeOK' /\ LongLived'
      BY <3>2, <3>3 DEF ClockInv, TypeOK, LongLived
    <3>5. /\ DOMAIN messages' = 1 .. Len(messages) + 1
          /\ DOMAIN messages = 1 .. Len(messages) /\ Len(messages) \in Nat
          /\ \A i \in DOMAIN messages : messages'[i] = messages[i]
          /\ messages'[Len(messages) + 1] = m
      <4> DEFINE Rows == [when : Nat, at : Nat, stored : Nat]
      <4>1. messages \in Seq(Rows) /\ m \in Rows
        BY <3>2 DEF ClockInv, TypeOK
      <4>2. messages' = Append(messages, m)
        BY <3>3
      <4> HIDE DEF Rows
      <4>3. /\ DOMAIN Append(messages, m) = 1 .. Len(messages) + 1
            /\ DOMAIN messages = 1 .. Len(messages) /\ Len(messages) \in Nat
            /\ \A i \in DOMAIN messages : Append(messages, m)[i] = messages[i]
            /\ Append(messages, m)[Len(messages) + 1] = m
        BY <4>1, Appended
      <4> QED
        BY <4>2, <4>3
    <3>6. \A q \in pending' : q.at <= time' /\ q.when = q.at % Cut
      BY <3>3 DEF ClockInv, Stamped
    <3>7. ASSUME NEW i \in DOMAIN messages'
          PROVE  /\ messages'[i].at <= messages'[i].stored
                 /\ messages'[i].when = messages'[i].at % Cut
      <4>1. CASE i \in DOMAIN messages
        BY <3>5, <4>1 DEF ClockInv, Stamped
      <4>2. CASE i = Len(messages) + 1
        BY <3>2, <3>5, <4>2
      <4> QED
        BY <3>5, <4>1, <4>2
    <3>8. Stamped'
      BY <3>6, <3>7 DEF Stamped
    <3>9. QED
      BY <3>4, <3>8 DEF ClockInv
  <2>5. ASSUME NEW k \in Keys, LogIn(k) PROVE ClockInv'
    <3> DEFINE s == [key |-> k, valid_until |-> now_plus_uncut(Day),
                     since |-> time]
    <3>1. now_plus_uncut(Day) \in Nat /\ now_plus_uncut(Day) >= Day * NsPerMs
      BY DayAhead DEF ClockInv
    <3>2. s \in [key : Keys, valid_until : Nat, since : Nat]
      BY <3>1 DEF ClockInv, TypeOK
    <3>3. s.valid_until >= Day * NsPerMs
      BY <3>1
    <3>4. /\ sessions' = Forget({k}) \cup {s}
          /\ UNCHANGED << time, booted, pending, messages >>
      BY <2>5 DEF LogIn
    <3> HIDE DEF s
    <3>5. TypeOK' /\ LongLived'
      BY <3>2, <3>3, <3>4 DEF Forget, ClockInv, TypeOK, LongLived
    <3>6. QED
      BY <3>4, <3>5 DEF ClockInv, Stamped
  <2>6. ASSUME NEW ks \in SUBSET Keys, LogOut(ks) PROVE ClockInv'
    BY <2>6 DEF LogOut, Forget, ClockInv, TypeOK, LongLived, Stamped
  <2>7. CASE UNCHANGED vars
    BY <2>7 DEF vars, ClockInv, TypeOK, LongLived, Stamped
  <2>8. QED
    BY <2>1, <2>2, <2>3, <2>4, <2>5, <2>6, <2>7 DEF Next
<1>3. QED
  BY <1>1, <1>2, PTL DEF Spec

\* No session ever expires: check_session_key accepts the token of every
\* session that was not logged out or replaced, at any time, because a day of
\* nanoseconds is more than now() can show (helpers.hpp, types.hpp).
THEOREM SessionsStayValid ==
  ASSUME Units
  PROVE  Spec => []NeverExpires
<1>1. ClockInv => NeverExpires
  <2> SUFFICES ASSUME ClockInv, NEW s \in sessions PROVE Valid(s)
    BY DEF NeverExpires
  <2>1. now \in Nat /\ now < Cut
    BY DEF Units, now, ClockInv, TypeOK
  <2>2. s.valid_until \in Nat /\ s.valid_until >= Day * NsPerMs
    BY DEF ClockInv, TypeOK, LongLived
  <2>3. Day * NsPerMs \in Nat /\ Cut \in Nat /\ Cut <= Day * NsPerMs
    BY DEF Units
  <2>4. QED
    BY <2>1, <2>2, <2>3 DEF Valid
<1>2. QED
  BY <1>1, ClockInvariance, PTL

\* What was stored before another message got its when is handed out before it,
\* as long as now() did not wrap between them, in whatever order threads store
\* what they stamp (send_msg; channel_msg's ORDER BY when).
THEOREM OrderKept ==
  ASSUME Units
  PROVE  Spec => []OrderedUntilWrap
<1>1. ClockInv => OrderedUntilWrap
  <2> SUFFICES ASSUME ClockInv,
                      NEW i \in DOMAIN messages, NEW j \in DOMAIN messages,
                      messages[i].stored < messages[j].at,
                      messages[i].at \div Cut = messages[j].at \div Cut
               PROVE  messages[i].when < messages[j].when
    BY DEF OrderedUntilWrap, Before
  <2>1. /\ messages[i].at \in Nat /\ messages[i].stored \in Nat
        /\ messages[j].at \in Nat
    BY Times DEF ClockInv
  <2>2. messages[i].at < messages[j].at
    BY <2>1 DEF ClockInv, Stamped
  <2>3. messages[i].at % Cut < messages[j].at % Cut
    BY <2>1, <2>2, SameStretch DEF Units
  <2>4. QED
    BY <2>3 DEF ClockInv, Stamped
<1>2. QED
  BY <1>1, ClockInvariance, PTL

=============================================================================
