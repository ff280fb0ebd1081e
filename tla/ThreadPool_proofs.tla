-------------------------- MODULE ThreadPool_proofs --------------------------
(***************************************************************************)
(* Proofs about ThreadPool for every set of connections and any number of  *)
(* messages.  What the safety properties rest on is kept connection by     *)
(* connection: a worker sets STOPPED only after it has closed its          *)
(* connection, and from then on nobody but request_stop writes the state,  *)
(* and request_stop only to a node that is still in the list.  The main    *)
(* thread's part says where its iterator may stand; it is what makes the   *)
(* two destructors join every worker.                                      *)
(***************************************************************************)
EXTENDS ThreadPool, FiniteSetTheorems, SequenceTheorems, TLAPS

Listed == ToSet(threads)

\* The client and the messages under way: none before the connection is
\* accepted, and never more unread than sent while the client stays.
ClientInv(c) ==
  /\ client[c] = "absent" => worker[c] = "none" /\ sent[c] = 0 /\ inbox[c] = 0
  /\ client[c] = "connected" => inbox[c] <= sent[c]

\* A worker that did not start has left no trace, and one that did not reach
\* its loop was not asked to stop.
FreshInv(c) ==
  /\ worker[c] = "none" => /\ c \notin Listed \cup doomed
                           /\ state[c] = "unset" /\ late[c] = -1
  /\ worker[c] = "begin" => /\ state[c] \in {"unset", "WAITING"}
                            /\ late[c] = -1

\* Who is STOPPED has closed its connection and reads no more.
StoppedInv(c) ==
  /\ state[c] # "FINISHED"
  /\ state[c] = "STOPPED" => ~open[c] /\ worker[c] \in {"loop", "ended"}

\* Who was asked to stop is stopping or has stopped; after one more message
\* its worker is on its way out.
LateInv(c) ==
  /\ late[c] >= 0 => state[c] \in {"STOPPING", "STOPPED"}
  /\ late[c] = 1 => \/ worker[c] \in {"handle", "after", "ended"}
                    \/ worker[c] = "loop" /\ ~open[c]

\* Only the cleaner at work holds doomed nodes, which the list has lost.
DoomedInv(c) ==
  c \in doomed => cleaner = "destroy" /\ state[c] = "STOPPED" /\ c \notin Listed

PerConn(c) ==
  ClientInv(c) /\ FreshInv(c) /\ StoppedInv(c) /\ LateInv(c) /\ DoomedInv(c)

\* What the main thread may assume of its connection.
MainInv ==
  /\ main = "handshake" => it \in Conns /\ client[it] = "absent"
  /\ main = "enlist" =>
       it \in Conns /\ client[it] # "absent" /\ worker[it] = "none"
  /\ main = "construct" =>
       /\ it \in Conns /\ client[it] # "absent" /\ it \notin Listed \cup doomed
       /\ worker[it] # "none" /\ state[it] \in {"unset", "RUNNING"}
       /\ late[it] = -1
  /\ main = "mark" =>
       it \in Conns /\ worker[it] \notin {"none", "begin"}

\* The nodes before the iterator of the list's destructor have been joined.
JoinedInv ==
  /\ main = "destroy" =>
       /\ it \in Listed \cup {NoConn}
       /\ \A i \in DOMAIN threads : \/ worker[threads[i]] = "ended"
                                    \/ \E j \in 1 .. i : it = threads[j]
  /\ main \in {"stop_cleaner", "exited"} =>
       \A c \in Listed : worker[c] = "ended"
  /\ main = "exited" => doomed = {}

\* TypeOK bounds the three counters; that they are functions is said here.
Counters ==
  /\ inbox \in [Conns -> Nat] /\ sent \in [Conns -> Nat]
  /\ late \in [Conns -> {-1, 0, 1}]

PoolInv ==
  /\ TypeOK /\ Counters /\ (\A c \in Conns : PerConn(c))
  /\ MainInv /\ JoinedInv /\ NoOrphan

-----------------------------------------------------------------------------
(* Lists without repetitions.                                              *)

\* Dropping nodes leaves a list of the other nodes, each once.
LEMMA WithoutFacts ==
  ASSUME NEW S, NEW s \in Seq(S), IsInjective(s), NEW D
  PROVE  /\ Without(s, D) \in Seq(S)
         /\ IsInjective(Without(s, D))
         /\ ToSet(Without(s, D)) = ToSet(s) \ D
PROOF
  <1> DEFINE kept == { i \in DOMAIN s : s[i] \notin D }
             below(i) == { j \in kept : j <= i }
             rank == [i \in kept |-> Cardinality(below(i))]
             n == Cardinality(kept)
             at(k) == CHOOSE i \in kept : Cardinality(below(i)) = k
             w == [k \in 1 .. n |-> s[at(k)]]
  <1>1. kept \subseteq 1 .. Len(s) /\ IsFiniteSet(kept) /\ n \in Nat
    <2>1. kept \in SUBSET (1 .. Len(s)) /\ IsFiniteSet(1 .. Len(s))
      BY FS_Interval
    <2>2. IsFiniteSet(kept)
      BY <2>1, FS_Subset, Zenon
    <2> QED
      BY <2>1, <2>2, FS_CardinalityType
  <1>2. ASSUME NEW i \in kept
        PROVE  /\ IsFiniteSet(below(i)) /\ rank[i] \in 1 .. n
    <2>1. below(i) \in SUBSET kept /\ below(i) # {} /\ i \in below(i)
      BY <1>1
    <2>2. IsFiniteSet(below(i)) /\ Cardinality(below(i)) <= n
      BY <2>1, <1>1, FS_Subset, Zenon
    <2>3. Cardinality(below(i)) \in Nat /\ Cardinality(below(i)) # 0
      BY <2>1, <2>2, FS_CardinalityType, FS_EmptySet, Zenon
    <2> QED
      BY <1>1, <2>2, <2>3
  <1>3. ASSUME NEW i \in kept, NEW j \in kept, i < j
        PROVE  rank[i] < rank[j]
    <2>1. below(i) \in SUBSET below(j) /\ j \in below(j) /\ j \notin below(i)
      BY <1>1, <1>3
    <2>2. /\ Cardinality(below(i)) <= Cardinality(below(j))
          /\ Cardinality(below(i)) # Cardinality(below(j))
      BY <2>1, <1>2, FS_Subset, Zenon
    <2>3. /\ rank[i] = Cardinality(below(i)) /\ rank[j] = Cardinality(below(j))
          /\ rank[i] \in 1 .. n /\ rank[j] \in 1 .. n
      BY <1>2
    <2> HIDE DEF rank, below
    <2> QED
      BY <1>1, <2>2, <2>3
  <1>4. rank \in Injection(kept, 1 .. n)
    <2>1. rank \in [kept -> 1 .. n]
      BY <1>2
    <2>2. \A i, j \in kept : rank[i] = rank[j] => i = j
      <3> SUFFICES ASSUME NEW i \in kept, NEW j \in kept, rank[i] = rank[j], i # j
                   PROVE  FALSE
        OBVIOUS
      <3>1. rank[i] \in 1 .. n /\ rank[j] \in 1 .. n
        BY <1>2
      <3>2. i \in 1 .. Len(s) /\ j \in 1 .. Len(s) /\ Len(s) \in Nat
        BY <1>1, LenProperties, Zenon
      <3> HIDE DEF kept, rank, n
      <3>3. i < j \/ j < i
        BY <3>2
      <3>4. rank[i] < rank[j] \/ rank[j] < rank[i]
        BY <3>3, <1>3, Zenon
      <3> QED
        BY <3>1, <3>4
    <2> QED
      BY <2>1, <2>2 DEF Injection, IsInjective
  <1>5. rank \in Surjection(kept, 1 .. n)
    <2>1. IsFiniteSet(1 .. n) /\ Cardinality(1 .. n) = n
      BY <1>1, FS_Interval
    <2> QED
      BY <1>4, <2>1, FS_Injection
  <1>6. ASSUME NEW k \in 1 .. n
        PROVE  at(k) \in kept /\ rank[at(k)] = k
    <2>1. \E i \in kept : rank[i] = k
      BY <1>5 DEF Surjection
    <2>2. \E i \in kept : Cardinality(below(i)) = k
      BY <2>1
    <2>3. at(k) \in kept /\ Cardinality(below(at(k))) = k
      BY <2>2, Zenon
    <2> QED
      BY <2>3
  <1>7. ASSUME NEW i \in kept
        PROVE  rank[i] \in 1 .. n /\ at(rank[i]) = i
    <2>1. at(rank[i]) \in kept /\ rank[at(rank[i])] = rank[i]
      BY <1>2, <1>6
    <2> HIDE DEF rank, at
    <2> QED
      BY <2>1, <1>2, <1>4 DEF Injection, IsInjective
  <1>8. Without(s, D) = w
    BY DEF Without
  <1> HIDE DEF rank, at, n, below
  <1>9. w \in Seq(S)
    <2>1. \A k \in 1 .. n : s[at(k)] \in S
      BY <1>6
    <2> QED
      BY <1>1, <2>1
  <1>10. IsInjective(w)
    <2>1. ASSUME NEW k \in 1 .. n, NEW l \in 1 .. n, w[k] = w[l]
          PROVE  k = l
      BY <1>6, <2>1 DEF IsInjective
    <2> QED
      BY <2>1, Zenon DEF IsInjective
  <1>11. ToSet(w) = ToSet(s) \ D
    <2>1. ASSUME NEW k \in 1 .. n
          PROVE  w[k] \in ToSet(s) \ D
      BY <1>6 DEF ToSet
    <2>2. ASSUME NEW i \in DOMAIN s, s[i] \notin D
          PROVE  \E k \in 1 .. n : w[k] = s[i]
      BY <1>7, <2>2
    <2>3. DOMAIN w = 1 .. n
      OBVIOUS
    <2> HIDE DEF w
    <2>4. ToSet(w) \subseteq ToSet(s) \ D
      BY <2>1, <2>3, Zenon DEF ToSet
    <2>5. ToSet(s) \ D \subseteq ToSet(w)
      BY <2>2, <2>3, Zenon DEF ToSet
    <2> QED
      BY <2>4, <2>5
  <1> QED
    BY <1>8, <1>9, <1>10, <1>11

\* Appending a node the list does not have.
LEMMA AppendFacts ==
  ASSUME NEW S, NEW s \in Seq(S), IsInjective(s), NEW e \in S, e \notin ToSet(s)
  PROVE  /\ Append(s, e) \in Seq(S)
         /\ IsInjective(Append(s, e))
         /\ ToSet(Append(s, e)) = ToSet(s) \cup {e}
PROOF
  <1>1. /\ Append(s, e) \in Seq(S) /\ Len(Append(s, e)) = Len(s) + 1
        /\ \A i \in 1 .. Len(s) : Append(s, e)[i] = s[i]
        /\ Append(s, e)[Len(s) + 1] = e
        /\ DOMAIN s = 1 .. Len(s) /\ Len(s) \in Nat
        /\ DOMAIN Append(s, e) = 1 .. Len(s) + 1
    BY AppendProperties, LenProperties
  <1>2. \A i \in 1 .. Len(s) + 1 : i \in 1 .. Len(s) \/ i = Len(s) + 1
    BY <1>1
  <1>3. IsInjective(Append(s, e))
    BY <1>1, <1>2 DEF IsInjective, ToSet
  <1>4. ToSet(Append(s, e)) = ToSet(s) \cup {e}
    BY <1>1, <1>2 DEF ToSet
  <1> QED
    BY <1>1, <1>3, <1>4

\* Where the walk of the list's destructor begins, and how it goes on.
LEMMA WalkFacts ==
  ASSUME TypeOK
  PROVE  /\ First \in Listed \cup {NoConn}
         /\ \A i \in DOMAIN threads : First = threads[1] /\ 1 \in 1 .. i
         /\ Listed \subseteq Conns
         /\ \A k \in DOMAIN threads :
              \/ Successor(threads[k]) = NoConn /\ k = Len(threads)
              \/ /\ k + 1 \in DOMAIN threads
                 /\ Successor(threads[k]) = threads[k + 1]
PROOF
  <1>1. /\ threads \in Seq(Conns) /\ IsInjective(threads)
        /\ DOMAIN threads = 1 .. Len(threads) /\ Len(threads) \in Nat
        /\ \A i \in DOMAIN threads : threads[i] \in Conns
    BY LenProperties, ElementOfSeq DEF TypeOK
  <1>2. Listed \subseteq Conns
    BY <1>1 DEF Listed, ToSet
  <1>3. ASSUME NEW i \in DOMAIN threads
        PROVE  First = threads[1] /\ 1 \in 1 .. i /\ 1 \in DOMAIN threads
    <2>1. threads # << >> /\ Head(threads) = threads[1]
      BY <1>1
    <2> QED
      BY <1>1, <2>1 DEF First
  <1>4. First \in Listed \cup {NoConn}
    <2>1. CASE threads = << >>
      BY <2>1 DEF First
    <2>2. CASE threads # << >>
      BY <1>1, <1>3, <2>2, EmptySeq DEF Listed, ToSet
    <2> QED
      BY <2>1, <2>2
  <1>5. ASSUME NEW k \in DOMAIN threads
        PROVE  \/ Successor(threads[k]) = NoConn /\ k = Len(threads)
               \/ /\ k + 1 \in DOMAIN threads
                  /\ Successor(threads[k]) = threads[k + 1]
    <2>1. Last(threads) = threads[Len(threads)]
      BY DEF Last
    <2>2. CASE k = Len(threads)
      BY <2>1, <2>2 DEF Successor
    <2>3. CASE k # Len(threads)
      <3>1. threads[k] # Last(threads) /\ k + 1 \in DOMAIN threads
        BY <1>1, <2>1, <2>3 DEF IsInjective
      <3>2. (CHOOSE i \in DOMAIN threads : threads[i] = threads[k]) = k
        BY <1>1 DEF IsInjective
      <3> QED
        BY <3>1, <3>2 DEF Successor
    <2> QED
      BY <2>2, <2>3
  <1> QED
    BY <1>2, <1>3, <1>4, <1>5

-----------------------------------------------------------------------------
(* What a step leaves alone.                                               *)

\* Everything about the connections.
LEMMA SameConns ==
  ASSUME PoolInv, UNCHANGED << threads, cleaners, workers, clients >>
  PROVE  /\ Counters' /\ Listed' = Listed /\ (\A c \in Conns : PerConn(c)')
         /\ \A c \in Conns : /\ inbox'[c] \in 0 .. MaxMessages[c]
                             /\ sent'[c] \in 0 .. MaxMessages[c]
                             /\ late'[c] \in {-1} \cup 0 .. MaxMessages[c]
PROOF
  BY DEF PoolInv, TypeOK, Counters, PerConn, ClientInv, FreshInv, StoppedInv, LateInv,
         DoomedInv, Listed, cleaners, workers, clients

\* The connections other than c.
Others(c) ==
  \A d \in Conns \ {c} :
    /\ state'[d] = state[d] /\ worker'[d] = worker[d] /\ open'[d] = open[d]
    /\ inbox'[d] = inbox[d] /\ late'[d] = late[d]
    /\ client'[d] = client[d] /\ sent'[d] = sent[d]

LEMMA OthersKeep ==
  ASSUME PoolInv, NEW c \in Conns, Others(c),
         UNCHANGED << threads, cleaners >>, PerConn(c)'
  PROVE  \A d \in Conns : PerConn(d)'
PROOF
  <1>1. Listed' = Listed /\ doomed' = doomed /\ cleaner' = cleaner
    BY DEF Listed, cleaners
  <1>2. ASSUME NEW d \in Conns \ {c}
        PROVE  PerConn(d)'
    BY <1>1, <1>2 DEF PoolInv, Others, PerConn, ClientInv, FreshInv, StoppedInv,
                      LateInv, DoomedInv
  <1> QED
    BY <1>2

-----------------------------------------------------------------------------
(* The invariant holds initially.                                          *)

LEMMA InitInv == Init => PoolInv
PROOF
  <1> SUFFICES ASSUME Init
               PROVE  PoolInv
    OBVIOUS
  <1>1. threads \in Seq(Conns) /\ IsInjective(threads) /\ Listed = {}
    BY DEF Init, Listed, ToSet, IsInjective
  <1>2. \A c \in Conns : MaxMessages[c] \in Nat
    BY PoolAssumption
  <1>3. TypeOK
    <2>1. \A c \in Conns : /\ inbox[c] \in 0 .. MaxMessages[c]
                           /\ sent[c] \in 0 .. MaxMessages[c]
                           /\ late[c] \in {-1} \cup 0 .. MaxMessages[c]
      BY <1>2 DEF Init
    <2> QED
      BY <1>1, <2>1 DEF Init, TypeOK, States
  <1>4. \A c \in Conns : PerConn(c)
    BY <1>1 DEF Init, PerConn, ClientInv, FreshInv, StoppedInv, LateInv, DoomedInv
  <1>5. Counters
    BY DEF Init, Counters
  <1>6. MainInv /\ JoinedInv /\ NoOrphan
    BY <1>1 DEF Init, MainInv, JoinedInv, NoOrphan
  <1> QED
    BY <1>3, <1>4, <1>5, <1>6 DEF PoolInv

-----------------------------------------------------------------------------
(* The workers.                                                            *)

\* The main thread's part and NoOrphan survive a step of a worker: it has
\* begun and does not end twice.
LEMMA WorkerKeeps ==
  ASSUME PoolInv, NEW c \in Conns, Others(c),
         UNCHANGED << mains, flag, threads, cleaners, clients >>,
         worker[c] \notin {"none", "ended"}, worker'[c] \notin {"none", "begin"},
         state'[c] \in {state[c], "RUNNING"} \/ state[c] = "STOPPING",
         late[c] = -1 => late'[c] = -1
  PROVE  MainInv' /\ JoinedInv' /\ NoOrphan'
PROOF
  <1>1. /\ main' = main /\ it' = it /\ Listed' = Listed /\ doomed' = doomed
        /\ client' = client /\ threads' = threads
    BY DEF Listed, mains, cleaners, clients
  <1>2. \A d \in Conns : /\ worker[d] = "none" => worker'[d] = "none"
                         /\ worker[d] = "ended" => worker'[d] = "ended"
                         /\ worker'[d] \in {"none", "begin"} => worker'[d] = worker[d]
    BY DEF Others
  <1>3. MainInv'
    BY <1>1, <1>2 DEF PoolInv, MainInv, Others
  <1>4. JoinedInv'
    <2>1. \A i \in DOMAIN threads : threads[i] \in Conns
      BY ElementOfSeq, LenProperties DEF PoolInv, TypeOK
    <2>2. Listed \subseteq Conns
      BY WalkFacts DEF PoolInv
    <2> QED
      BY <1>1, <1>2, <2>1, <2>2 DEF PoolInv, JoinedInv
  <1>5. NoOrphan'
    <2>1. ToSet(threads') = ToSet(threads)
      BY <1>1
    <2>2. main # "exited"
      BY DEF PoolInv, NoOrphan
    <2> QED
      BY <1>1, <1>2, <2>1, <2>2 DEF PoolInv, NoOrphan, Others
  <1> QED
    BY <1>3, <1>4, <1>5

LEMMA BeginKeeps ==
  ASSUME PoolInv, NEW c \in Conns, Begin(c)
  PROVE  PoolInv'
PROOF
  <1>1. /\ state'[c] = "RUNNING" /\ worker'[c] = "loop" /\ Others(c)
        /\ UNCHANGED << inbox, late, sent, client, threads, doomed, cleaner >>
        /\ open'[c] = open[c]
    BY DEF Begin, PoolInv, TypeOK, Others, cleaners, clients
  <1>2. TypeOK' /\ Counters'
    BY DEF Begin, PoolInv, TypeOK, Counters, States, mains, cleaners, clients
  <1>3. PerConn(c)'
    BY <1>1 DEF Begin, PoolInv, PerConn, ClientInv, FreshInv, StoppedInv, LateInv,
                DoomedInv, Listed
  <1>4. \A d \in Conns : PerConn(d)'
    BY <1>1, <1>3, OthersKeep DEF cleaners
  <1>5. MainInv' /\ JoinedInv' /\ NoOrphan'
    BY <1>1, WorkerKeeps DEF Begin
  <1> QED
    BY <1>2, <1>4, <1>5 DEF PoolInv

LEMMA LoopKeeps ==
  ASSUME PoolInv, NEW c \in Conns, Loop(c)
  PROVE  PoolInv'
PROOF
  <1>1. /\ worker'[c] = IF open[c] /\ IsRunning(c) THEN "read" ELSE "ended"
        /\ Others(c)
        /\ UNCHANGED << state, open, inbox, late, sent, client, threads, doomed,
                        cleaner >>
    BY DEF Loop, PoolInv, TypeOK, Others, cleaners, clients
  <1>2. TypeOK' /\ Counters'
    BY DEF Loop, PoolInv, TypeOK, Counters, mains, cleaners, clients
  <1>3. PerConn(c)'
    BY <1>1 DEF Loop, PoolInv, PerConn, ClientInv, FreshInv, StoppedInv, LateInv,
                DoomedInv, Listed
  <1>4. \A d \in Conns : PerConn(d)'
    BY <1>1, <1>3, OthersKeep DEF cleaners
  <1>5. MainInv' /\ JoinedInv' /\ NoOrphan'
    BY <1>1, WorkerKeeps DEF Loop
  <1> QED
    BY <1>2, <1>4, <1>5 DEF PoolInv

LEMMA ReadKeeps ==
  ASSUME PoolInv, NEW c \in Conns, Read(c)
  PROVE  PoolInv'
PROOF
  <1>1. /\ worker'[c] = "handle" /\ worker[c] = "read" /\ Others(c)
        /\ inbox'[c] = inbox[c] - 1
        /\ late'[c] = IF late[c] = -1 THEN -1 ELSE late[c] + 1
        /\ UNCHANGED << state, open, sent, client, threads, doomed, cleaner >>
    BY DEF Read, PoolInv, TypeOK, Counters, Others, cleaners, clients
  <1>2. late'[c] = -1 \/ (late'[c] = 1 /\ late[c] = 0)
    BY <1>1 DEF PoolInv, Counters, PerConn, LateInv
  <1>3. inbox[c] \in 1 .. MaxMessages[c] /\ MaxMessages[c] \in Nat
    <2>1. MaxMessages[c] \in Nat /\ inbox[c] \in 0 .. MaxMessages[c] /\ inbox[c] > 0
      BY PoolAssumption DEF Read, PoolInv, TypeOK
    <2> QED
      BY <2>1
  <1>4. Counters'
    <2>1. inbox' \in [Conns -> Nat]
      BY <1>3 DEF Read, PoolInv, Counters
    <2>2. late' \in [Conns -> {-1, 0, 1}]
      BY <1>1, <1>2 DEF Read, PoolInv, Counters
    <2> QED
      BY <1>1, <2>1, <2>2 DEF PoolInv, Counters
  <1>5. TypeOK'
    <2>1. \A d \in Conns : /\ inbox'[d] \in 0 .. MaxMessages[d]
                           /\ late'[d] \in {-1} \cup 0 .. MaxMessages[d]
      BY <1>1, <1>2, <1>3 DEF Others, PoolInv, TypeOK
    <2> QED
      BY <1>1, <2>1 DEF Read, PoolInv, TypeOK, mains, cleaners, clients
  <1>6. PerConn(c)'
    BY <1>1, <1>2, <1>3 DEF PoolInv, Counters, PerConn, ClientInv, FreshInv,
                            StoppedInv, LateInv, DoomedInv, Listed
  <1>7. \A d \in Conns : PerConn(d)'
    BY <1>1, <1>6, OthersKeep DEF cleaners
  <1>8. MainInv' /\ JoinedInv' /\ NoOrphan'
    BY <1>1, WorkerKeeps DEF Read
  <1> QED
    BY <1>4, <1>5, <1>7, <1>8 DEF PoolInv

LEMMA ReadFailsKeeps ==
  ASSUME PoolInv, NEW c \in Conns, ReadFails(c)
  PROVE  PoolInv'
PROOF
  <1>1. /\ worker'[c] = "ended" /\ worker[c] = "read" /\ Others(c)
        /\ UNCHANGED << state, open, inbox, late, sent, client, threads, doomed,
                        cleaner >>
    BY DEF ReadFails, PoolInv, TypeOK, Others, cleaners, clients
  <1>2. TypeOK' /\ Counters'
    BY DEF ReadFails, PoolInv, TypeOK, Counters, mains, cleaners, clients
  <1>3. PerConn(c)'
    BY <1>1 DEF ReadFails, PoolInv, PerConn, ClientInv, FreshInv, StoppedInv,
                LateInv, DoomedInv, Listed
  <1>4. \A d \in Conns : PerConn(d)'
    BY <1>1, <1>3, OthersKeep DEF cleaners
  <1>5. MainInv' /\ JoinedInv' /\ NoOrphan'
    BY <1>1, WorkerKeeps DEF ReadFails
  <1> QED
    BY <1>2, <1>4, <1>5 DEF PoolInv

LEMMA HandleKeeps ==
  ASSUME PoolInv, NEW c \in Conns, Handle(c)
  PROVE  PoolInv'
PROOF
  <1>1. /\ worker'[c] \in {"after", "ended"} /\ worker[c] = "handle" /\ Others(c)
        /\ open'[c] = open[c] \/ ~open'[c]
        /\ UNCHANGED << state, inbox, late, sent, client, threads, doomed,
                        cleaner >>
    BY DEF Handle, PoolInv, TypeOK, Others, cleaners, clients
  <1>2. TypeOK' /\ Counters'
    <2>a. worker' \in [Conns -> {"none", "begin", "loop", "read", "handle",
                                 "after", "ended"}]
      BY DEF Handle, PoolInv, TypeOK
    <2>b. open' \in [Conns -> BOOLEAN]
      BY DEF Handle, PoolInv, TypeOK
    <2>c. UNCHANGED << mains, flag, threads, cleaners, state, inbox, late, clients >>
      BY DEF Handle
    <2>d. TypeOK
      BY DEF PoolInv
    <2>1. TypeOK'
      BY <2>a, <2>b, <2>c, <2>d DEF TypeOK, mains, cleaners, clients
    <2>2. Counters'
      BY <1>1 DEF PoolInv, Counters
    <2> QED
      BY <2>1, <2>2
  <1>3. PerConn(c)'
    BY <1>1 DEF Handle, PoolInv, PerConn, ClientInv, FreshInv, StoppedInv, LateInv,
                DoomedInv, Listed
  <1>4. \A d \in Conns : PerConn(d)'
    BY <1>1, <1>3, OthersKeep DEF cleaners
  <1>5. MainInv' /\ JoinedInv' /\ NoOrphan'
    BY <1>1, WorkerKeeps DEF Handle
  <1> QED
    BY <1>2, <1>4, <1>5 DEF PoolInv

LEMMA AfterKeeps ==
  ASSUME PoolInv, NEW c \in Conns, After(c)
  PROVE  PoolInv'
PROOF
  <1>1. /\ worker'[c] = "loop" /\ worker[c] = "after" /\ Others(c)
        /\ IF state[c] = "STOPPING" THEN state'[c] = "STOPPED" /\ ~open'[c]
                                    ELSE state'[c] = state[c] /\ open'[c] = open[c]
        /\ UNCHANGED << inbox, late, sent, client, threads, doomed, cleaner >>
    BY DEF After, PoolInv, TypeOK, Others, cleaners, clients
  <1>2. TypeOK' /\ Counters'
    <2>a. worker' \in [Conns -> {"none", "begin", "loop", "read", "handle",
                                 "after", "ended"}]
      BY DEF After, PoolInv, TypeOK
    <2>b. /\ open' \in [Conns -> BOOLEAN]
          /\ state' \in [Conns -> States \cup {"unset"}]
      BY DEF After, PoolInv, TypeOK, States
    <2>c. UNCHANGED << mains, flag, threads, cleaners, inbox, late, clients >>
      BY DEF After
    <2>d. TypeOK
      BY DEF PoolInv
    <2>1. TypeOK'
      BY <2>a, <2>b, <2>c, <2>d DEF TypeOK, mains, cleaners, clients
    <2>2. Counters'
      BY <1>1 DEF PoolInv, Counters
    <2> QED
      BY <2>1, <2>2
  <1>3. PerConn(c)'
    BY <1>1 DEF PoolInv, PerConn, ClientInv, FreshInv, StoppedInv, LateInv,
                DoomedInv, Listed, Counters
  <1>4. \A d \in Conns : PerConn(d)'
    BY <1>1, <1>3, OthersKeep DEF cleaners
  <1>5. MainInv' /\ JoinedInv' /\ NoOrphan'
    BY <1>1, WorkerKeeps DEF After
  <1> QED
    BY <1>2, <1>4, <1>5 DEF PoolInv

-----------------------------------------------------------------------------
(* The main thread on its way, the connections untouched.                  *)

\* NoOrphan survives where no worker moves and the main thread does not leave
\* a construction.
LEMMA NoOrphanKept ==
  ASSUME PoolInv, UNCHANGED << worker, threads, doomed >>,
         main' # "dead" => \/ main \notin {"construct", "dead"}
                           \/ main' = main /\ it' = it,
         main' = "exited" => \A c \in Conns : worker[c] \in {"none", "ended"}
  PROVE  NoOrphan'
PROOF
  <1>1. ToSet(threads') = ToSet(threads)
    OBVIOUS
  <1> QED
    BY <1>1 DEF PoolInv, NoOrphan

LEMMA MainMoves ==
  ASSUME PoolInv, UNCHANGED << threads, cleaners, workers, clients >>,
         main' \in { "accept", "handshake", "enlist", "construct", "test", "mark",
                     "wait", "join", "advance", "destroy", "stop_cleaner",
                     "exited", "dead" },
         it' \in Conns \cup {NoConn}, stopping' \in {"no", "request", "sync"},
         flag' \in BOOLEAN, MainInv', JoinedInv',
         main' # "dead" => \/ main \notin {"construct", "dead"}
                           \/ main' = main /\ it' = it,
         main' = "exited" => \A c \in Conns : worker[c] \in {"none", "ended"}
  PROVE  PoolInv'
PROOF
  <1>1. Counters' /\ (\A c \in Conns : PerConn(c)')
    BY SameConns
  <1>2. TypeOK'
    BY SameConns DEF PoolInv, TypeOK, cleaners, workers, clients
  <1>3. NoOrphan'
    BY NoOrphanKept DEF cleaners, workers
  <1> QED
    BY <1>1, <1>2, <1>3 DEF PoolInv

LEMMA AcceptKeeps ==
  ASSUME PoolInv, NEW c \in Conns, Accept(c)
  PROVE  PoolInv'
PROOF
  <1>1. MainInv' /\ JoinedInv'
    BY DEF Accept, MainInv, JoinedInv, clients
  <1> QED
    BY <1>1, MainMoves DEF Accept, PoolInv, TypeOK

LEMMA BeginShutdownKeeps ==
  ASSUME PoolInv, BeginShutdown
  PROVE  PoolInv'
PROOF
  <1>1. MainInv' /\ JoinedInv'
    BY DEF BeginShutdown, MainInv, JoinedInv
  <1>2. it' \in Conns \cup {NoConn}
    BY WalkFacts DEF BeginShutdown, PoolInv
  <1> QED
    BY <1>1, <1>2, MainMoves DEF BeginShutdown, PoolInv, TypeOK

\* Who is running, or was asked to stop, has begun.
LEMMA TestKeeps ==
  ASSUME PoolInv, Test
  PROVE  PoolInv'
PROOF
  <1>1. it \in Conns /\ PerConn(it)
    BY DEF Test, ToNode, PoolInv, TypeOK
  <1>2. main' = "mark" => worker[it] \notin {"none", "begin"}
    BY <1>1 DEF Test, IsRunning, PerConn, FreshInv
  <1>3. MainInv' /\ JoinedInv'
    BY <1>1, <1>2 DEF Test, MainInv, JoinedInv, workers
  <1> QED
    BY <1>3, MainMoves DEF Test, PoolInv, TypeOK

LEMMA WaitAndJoinKeep ==
  ASSUME PoolInv, Wait \/ Join
  PROVE  PoolInv'
PROOF
  <1>1. MainInv' /\ JoinedInv'
    BY DEF Wait, Join, MainInv, JoinedInv
  <1> QED
    BY <1>1, MainMoves DEF Wait, Join, PoolInv, TypeOK

LEMMA AdvanceKeeps ==
  ASSUME PoolInv, Advance
  PROVE  PoolInv'
PROOF
  <1>1. MainInv' /\ JoinedInv'
    BY DEF Advance, MainInv, JoinedInv
  <1>2. PICK k \in DOMAIN threads : it = threads[k]
    BY DEF Advance, ToNode, ToSet
  <1>3. it' \in Listed \cup {NoConn}
    BY <1>2, WalkFacts DEF Advance, PoolInv, Listed, ToSet
  <1>4. it' \in Conns \cup {NoConn}
    BY <1>3, WalkFacts DEF PoolInv
  <1> QED
    BY <1>1, <1>4, MainMoves DEF Advance, PoolInv, TypeOK

\* The list's destructor starts at its first node.
LEMMA EndRoundKeeps ==
  ASSUME PoolInv, EndRound
  PROVE  PoolInv'
PROOF
  <1>1. it' \in Listed \cup {NoConn} /\ it' \in Conns \cup {NoConn}
    BY WalkFacts DEF EndRound, PoolInv
  <1>2. \A i \in DOMAIN threads : it' = threads[1] /\ 1 \in 1 .. i
    BY WalkFacts DEF EndRound, PoolInv
  <1>3. MainInv' /\ JoinedInv'
    BY <1>1, <1>2 DEF EndRound, MainInv, JoinedInv, Listed
  <1> QED
    BY <1>1, <1>3, MainMoves DEF EndRound, PoolInv, TypeOK

LEMMA AstrayKeeps ==
  ASSUME PoolInv, Astray
  PROVE  PoolInv'
PROOF
  <1>1. MainInv' /\ JoinedInv'
    BY DEF Astray, MainInv, JoinedInv
  <1>2. it' \in Conns \cup {NoConn}
    BY WalkFacts DEF Astray, PoolInv, TypeOK, Listed
  <1> QED
    BY <1>1, <1>2, MainMoves DEF Astray, PoolInv, TypeOK

\* Once the walk is over every worker of the list has been joined.
LEMMA StopCleanerKeeps ==
  ASSUME PoolInv, StopCleaner
  PROVE  PoolInv'
PROOF
  <1>1. \A i \in DOMAIN threads : threads[i] \in Conns
    BY ElementOfSeq, LenProperties DEF PoolInv, TypeOK
  <1>2. \A i \in DOMAIN threads : 1 .. i \subseteq DOMAIN threads
    BY LenProperties DEF PoolInv, TypeOK
  <1>3. \A i \in DOMAIN threads : worker[threads[i]] = "ended"
    BY <1>1, <1>2, PoolAssumption DEF StopCleaner, PoolInv, JoinedInv
  <1>4. \A c \in Listed : worker[c] = "ended"
    BY <1>3 DEF Listed, ToSet
  <1>5. cleaner # "destroy" => doomed = {}
    BY DEF PoolInv, TypeOK, PerConn, DoomedInv
  <1>6. main' \in {"exited", "stop_cleaner"} /\ main = "destroy"
        /\ (main' = "exited" => doomed = {})
    BY <1>5 DEF StopCleaner
  <1>7. main' = "exited" => \A c \in Conns : worker[c] \in {"none", "ended"}
    BY <1>4, <1>6 DEF PoolInv, NoOrphan, Listed
  <1>8. MainInv' /\ JoinedInv'
    BY <1>4, <1>6 DEF StopCleaner, MainInv, JoinedInv, workers, cleaners, Listed
  <1> QED
    BY <1>6, <1>7, <1>8, MainMoves DEF StopCleaner, PoolInv, TypeOK

LEMMA ExitKeeps ==
  ASSUME PoolInv, Exit
  PROVE  PoolInv'
PROOF
  <1>1. doomed = {} /\ (\A c \in Listed : worker[c] = "ended")
    BY DEF Exit, PoolInv, TypeOK, PerConn, DoomedInv, JoinedInv
  <1>2. \A c \in Conns : worker[c] \in {"none", "ended"}
    BY <1>1 DEF Exit, PoolInv, NoOrphan, Listed
  <1>3. MainInv' /\ JoinedInv'
    BY <1>1 DEF Exit, MainInv, JoinedInv, workers, cleaners, Listed
  <1> QED
    BY <1>2, <1>3, MainMoves DEF Exit, PoolInv, TypeOK

\* The process dies of SIGPIPE.
LEMMA BrokenPipeKeeps ==
  ASSUME PoolInv, NEW c \in Conns, BrokenPipe(c)
  PROVE  PoolInv'
PROOF
  <1>1. MainInv' /\ JoinedInv'
    BY DEF BrokenPipe, MainInv, JoinedInv
  <1> QED
    BY <1>1, MainMoves DEF BrokenPipe, PoolInv, TypeOK

LEMMA InterruptKeeps ==
  ASSUME PoolInv, Interrupt
  PROVE  PoolInv'
PROOF
  <1>1. main' = main /\ it' = it /\ stopping' = stopping /\ main # "exited"
    BY DEF Interrupt, Alive, mains
  <1>2. MainInv' /\ JoinedInv'
    BY <1>1 DEF Interrupt, PoolInv, MainInv, JoinedInv, workers, cleaners, clients,
                Listed
  <1> QED
    BY <1>1, <1>2, MainMoves DEF Interrupt, PoolInv, TypeOK

-----------------------------------------------------------------------------
(* The main thread's dealings with its connection.                         *)

\* A handshake, ended well or badly.
LEMMA HandshakesKeep ==
  ASSUME PoolInv, Handshake \/ HandshakeFails
  PROVE  PoolInv'
PROOF
  <1>1. PICK c \in Conns : c = it /\ client[c] = "absent" /\ main = "handshake"
    BY DEF Handshake, HandshakeFails, PoolInv, MainInv
  <1>2. worker[c] = "none" /\ sent[c] = 0 /\ inbox[c] = 0
    BY <1>1 DEF PoolInv, PerConn, ClientInv
  <1>3. /\ client' \in [Conns -> {"absent", "connected", "left"}]
        /\ client'[c] # "absent" /\ Others(c)
        /\ UNCHANGED << threads, cleaners, workers, sent, flag, stopping >>
    BY <1>1 DEF Handshake, HandshakeFails, PoolInv, TypeOK, Others, workers
  <1>4. PerConn(c)'
    BY <1>1, <1>2, <1>3 DEF PoolInv, PerConn, ClientInv, FreshInv, StoppedInv,
                            LateInv, DoomedInv, workers, cleaners, Listed
  <1>5. \A d \in Conns : PerConn(d)'
    BY <1>1, <1>3, <1>4, OthersKeep
  <1>6. /\ First \in Listed \cup {NoConn} /\ First \in Conns \cup {NoConn}
        /\ \A i \in DOMAIN threads : First = threads[1] /\ 1 \in 1 .. i
    BY WalkFacts DEF PoolInv
  <1>7. MainInv'
    BY <1>1, <1>2, <1>3 DEF Handshake, HandshakeFails, MainInv, workers
  <1>8. JoinedInv'
    BY <1>3, <1>6 DEF Handshake, HandshakeFails, JoinedInv, Listed
  <1>9. NoOrphan'
    BY <1>1, <1>3, NoOrphanKept DEF Handshake, HandshakeFails, workers, cleaners
  <1>10. TypeOK' /\ Counters'
    BY <1>1, <1>3, <1>6 DEF Handshake, HandshakeFails, PoolInv, TypeOK, Counters,
                            workers, cleaners
  <1> QED
    BY <1>5, <1>7, <1>8, <1>9, <1>10 DEF PoolInv

LEMMA EnlistKeeps ==
  ASSUME PoolInv, Enlist
  PROVE  PoolInv'
PROOF
  <1>1. /\ it \in Conns /\ client[it] # "absent" /\ worker[it] = "none"
        /\ main = "enlist"
    BY DEF Enlist, PoolInv, MainInv
  <1>2. state[it] = "unset" /\ late[it] = -1 /\ it \notin Listed \cup doomed
    BY <1>1 DEF PoolInv, PerConn, FreshInv
  <1>3. /\ worker'[it] = "begin" /\ Others(it)
        /\ UNCHANGED << threads, cleaners, state, late, client, inbox, sent, it >>
    BY <1>1 DEF Enlist, PoolInv, TypeOK, Others, clients
  <1>4. PerConn(it)'
    BY <1>1, <1>2, <1>3 DEF PoolInv, PerConn, ClientInv, FreshInv, StoppedInv,
                            LateInv, DoomedInv, cleaners, Listed
  <1>5. \A d \in Conns : PerConn(d)'
    BY <1>1, <1>3, <1>4, OthersKeep
  <1>6. MainInv' /\ JoinedInv'
    BY <1>1, <1>2, <1>3 DEF Enlist, MainInv, JoinedInv, Listed, cleaners
  <1>7. NoOrphan'
    BY <1>1, <1>3 DEF Enlist, PoolInv, NoOrphan, Others, cleaners
  <1>8. TypeOK' /\ Counters'
    BY <1>1, <1>3 DEF Enlist, PoolInv, TypeOK, Counters, clients, cleaners
  <1> QED
    BY <1>5, <1>6, <1>7, <1>8 DEF PoolInv

\* The constructor writes the state last; the node is linked after it.
LEMMA ConstructedKeeps ==
  ASSUME PoolInv, Constructed
  PROVE  PoolInv'
PROOF
  <1>1. PICK c \in Conns : /\ c = it /\ client[c] # "absent"
                           /\ c \notin Listed \cup doomed
                           /\ worker[c] # "none" /\ late[c] = -1
                           /\ main = "construct"
    BY DEF Constructed, PoolInv, MainInv
  <1>2. /\ threads' \in Seq(Conns) /\ IsInjective(threads')
        /\ Listed' = Listed \cup {c}
    BY <1>1, AppendFacts DEF Constructed, PoolInv, TypeOK, Listed
  <1>3. /\ state'[c] = "WAITING"
        /\ \A d \in Conns \ {c} : state'[d] = state[d]
        /\ UNCHANGED << cleaner, doomed, worker, open, inbox, late, client, sent >>
    BY <1>1 DEF Constructed, PoolInv, TypeOK, cleaners, clients
  <1>4. PerConn(c)'
    BY <1>1, <1>2, <1>3 DEF PoolInv, PerConn, ClientInv, FreshInv, StoppedInv,
                            LateInv, DoomedInv
  <1>5. ASSUME NEW d \in Conns \ {c}
        PROVE  PerConn(d)'
    BY <1>2, <1>3, <1>5 DEF PoolInv, PerConn, ClientInv, FreshInv, StoppedInv,
                            LateInv, DoomedInv
  <1>6. MainInv' /\ JoinedInv'
    BY DEF Constructed, MainInv, JoinedInv
  <1>7. NoOrphan'
    BY <1>1, <1>2, <1>3 DEF Constructed, PoolInv, NoOrphan, Listed
  <1>8. TypeOK' /\ Counters'
    BY <1>1, <1>2 DEF Constructed, PoolInv, TypeOK, Counters, States, clients,
                      cleaners
  <1> QED
    BY <1>4, <1>5, <1>6, <1>7, <1>8 DEF PoolInv

\* request_stop may overwrite STOPPED, but only while the node is listed.
LEMMA MarkKeeps ==
  ASSUME PoolInv, Mark
  PROVE  PoolInv'
PROOF
  <1>1. /\ it \in Conns /\ worker[it] \notin {"none", "begin"} /\ it \in Listed
        /\ main = "mark"
    BY DEF Mark, ToNode, PoolInv, MainInv, Listed
  <1>2. it \notin doomed
    BY <1>1 DEF PoolInv, PerConn, DoomedInv
  <1>3. /\ state'[it] = "STOPPING" /\ Others(it)
        /\ late'[it] = IF late[it] = -1 THEN 0 ELSE late[it]
        /\ UNCHANGED << threads, cleaners, worker, open, client, inbox, sent, it >>
    BY <1>1 DEF Mark, PoolInv, TypeOK, Counters, Others, clients
  <1>4. PerConn(it)'
    BY <1>1, <1>2, <1>3 DEF PoolInv, PerConn, ClientInv, FreshInv, StoppedInv,
                            LateInv, DoomedInv, cleaners, Listed
  <1>5. \A d \in Conns : PerConn(d)'
    BY <1>1, <1>3, <1>4, OthersKeep
  <1>6. MainInv' /\ JoinedInv'
    BY DEF Mark, MainInv, JoinedInv
  <1>7. NoOrphan'
    BY <1>1, <1>3, NoOrphanKept DEF Mark, cleaners
  <1>8. Counters'
    BY <1>1, <1>3 DEF Mark, PoolInv, Counters, clients
  <1>9. TypeOK'
    <2>1. \A d \in Conns : late'[d] \in {-1} \cup 0 .. MaxMessages[d]
      <3>1. MaxMessages[it] \in Nat /\ late[it] \in {-1} \cup 0 .. MaxMessages[it]
        BY <1>1, PoolAssumption DEF PoolInv, TypeOK
      <3>2. late'[it] \in {-1} \cup 0 .. MaxMessages[it]
        BY <1>3, <3>1
      <3> QED
        BY <1>3, <3>2 DEF Others, PoolInv, TypeOK
    <2> QED
      BY <1>1, <1>3, <2>1 DEF Mark, PoolInv, TypeOK, States, clients, cleaners
  <1> QED
    BY <1>5, <1>6, <1>7, <1>8, <1>9 DEF PoolInv

\* One more node has been joined, and the iterator goes on to the next.
LEMMA DestroyNodeKeeps ==
  ASSUME PoolInv, DestroyNode
  PROVE  PoolInv'
PROOF
  <1>1. PICK c \in Conns : /\ c = it /\ c \in Listed /\ worker[c] = "ended"
                           /\ main = "destroy"
    BY DEF DestroyNode, PoolInv, TypeOK, JoinedInv
  <1>2. PICK k \in DOMAIN threads : it = threads[k]
    BY <1>1 DEF Listed, ToSet
  <1>3. /\ DOMAIN threads = 1 .. Len(threads) /\ Len(threads) \in Nat
        /\ \A j \in DOMAIN threads : threads[j] = it => j = k
    BY <1>2, LenProperties DEF PoolInv, TypeOK, IsInjective
  <1>4. it' \in Listed \cup {NoConn} /\ it' \in Conns \cup {NoConn}
    BY <1>2, WalkFacts DEF DestroyNode, PoolInv, Listed, ToSet
  <1>5. \A i \in DOMAIN threads : \/ worker[threads[i]] = "ended"
                                  \/ \E j \in 1 .. i : it' = threads[j]
    <2> SUFFICES ASSUME NEW i \in DOMAIN threads, worker[threads[i]] # "ended"
                 PROVE  \E j \in 1 .. i : it' = threads[j]
      OBVIOUS
    <2>1. PICK j \in 1 .. i : it = threads[j]
      BY <1>1 DEF PoolInv, JoinedInv
    <2>2. k <= i /\ i # k
      BY <1>1, <1>2, <1>3, <2>1
    <2>3. it' = threads[k + 1]
      BY <1>2, <1>3, <2>2, WalkFacts DEF DestroyNode, PoolInv
    <2>4. k + 1 \in 1 .. i
      BY <1>3, <2>2
    <2> QED
      BY <2>3, <2>4
  <1>6. /\ ~open'[c] /\ Others(c)
        /\ UNCHANGED << threads, cleaners, state, worker, late, client, inbox, sent,
                        main >>
    BY <1>1 DEF DestroyNode, PoolInv, TypeOK, Others, clients
  <1>7. PerConn(c)'
    BY <1>1, <1>6 DEF PoolInv, PerConn, ClientInv, FreshInv, StoppedInv, LateInv,
                      DoomedInv, cleaners, Listed
  <1>8. \A d \in Conns : PerConn(d)'
    BY <1>1, <1>6, <1>7, OthersKeep
  <1>9. MainInv' /\ JoinedInv'
    BY <1>1, <1>4, <1>5, <1>6 DEF MainInv, JoinedInv, Listed
  <1>10. NoOrphan'
    BY <1>1, <1>6, NoOrphanKept DEF cleaners
  <1>11. TypeOK' /\ Counters'
    BY <1>1, <1>4, <1>6 DEF DestroyNode, PoolInv, TypeOK, Counters, clients, cleaners
  <1> QED
    BY <1>8, <1>9, <1>10, <1>11 DEF PoolInv

-----------------------------------------------------------------------------
(* The clients.                                                            *)

LEMMA SayKeeps ==
  ASSUME PoolInv, NEW c \in Conns, Say(c)
  PROVE  PoolInv'
PROOF
  <1>1. /\ client[c] = "connected" /\ inbox[c] <= sent[c]
        /\ inbox[c] \in Nat /\ sent[c] \in Nat /\ MaxMessages[c] \in Nat
        /\ sent[c] < MaxMessages[c]
    BY PoolAssumption DEF Say, PoolInv, Counters, PerConn, ClientInv
  <1>2. /\ inbox'[c] = inbox[c] + 1 /\ sent'[c] = sent[c] + 1 /\ Others(c)
        /\ UNCHANGED << threads, cleaners, state, worker, open, late, client, main,
                        it, stopping, flag >>
    BY DEF Say, PoolInv, TypeOK, Counters, Others, mains
  <1>3. PerConn(c)'
    BY <1>1, <1>2 DEF PoolInv, PerConn, ClientInv, FreshInv, StoppedInv, LateInv,
                      DoomedInv, cleaners, Listed
  <1>4. \A d \in Conns : PerConn(d)'
    BY <1>2, <1>3, OthersKeep
  <1>5. MainInv' /\ JoinedInv'
    BY <1>2 DEF PoolInv, MainInv, JoinedInv, Listed, cleaners
  <1>6. NoOrphan'
    BY <1>2, NoOrphanKept DEF Say, Alive, cleaners
  <1>7. Counters'
    BY <1>1, <1>2 DEF Say, PoolInv, Counters
  <1>8. TypeOK'
    <2>1. \A d \in Conns : /\ inbox'[d] \in 0 .. MaxMessages[d]
                           /\ sent'[d] \in 0 .. MaxMessages[d]
      BY <1>1, <1>2 DEF Others, PoolInv, TypeOK
    <2>2. TypeOK
      BY DEF PoolInv
    <2> QED
      BY <1>2, <2>1, <2>2 DEF TypeOK, cleaners
  <1> QED
    BY <1>4, <1>5, <1>6, <1>7, <1>8 DEF PoolInv

LEMMA LeaveKeeps ==
  ASSUME PoolInv, NEW c \in Conns, Leave(c)
  PROVE  PoolInv'
PROOF
  <1>1. client[c] = "connected" /\ MaxMessages[c] \in Nat
    BY PoolAssumption DEF Leave
  <1>2. /\ client'[c] = "left" /\ sent'[c] = 0 /\ Others(c)
        /\ UNCHANGED << threads, cleaners, state, worker, open, late, inbox, main,
                        it, stopping, flag >>
    BY DEF Leave, PoolInv, TypeOK, Counters, Others, mains, workers
  <1>3. PerConn(c)'
    BY <1>1, <1>2 DEF PoolInv, PerConn, ClientInv, FreshInv, StoppedInv, LateInv,
                      DoomedInv, cleaners, Listed
  <1>4. \A d \in Conns : PerConn(d)'
    BY <1>2, <1>3, OthersKeep
  <1>5. MainInv' /\ JoinedInv'
    BY <1>1, <1>2 DEF Leave, PoolInv, MainInv, JoinedInv, Listed, cleaners
  <1>6. NoOrphan'
    BY <1>2, NoOrphanKept DEF Leave, Alive, cleaners
  <1>7. Counters'
    BY <1>1, <1>2 DEF Leave, PoolInv, Counters
  <1>8. TypeOK'
    <2>1. \A d \in Conns : sent'[d] \in 0 .. MaxMessages[d]
      BY <1>1, <1>2 DEF Others, PoolInv, TypeOK
    <2> QED
      BY <1>2, <2>1 DEF Leave, PoolInv, TypeOK, cleaners
  <1> QED
    BY <1>4, <1>5, <1>6, <1>7, <1>8 DEF PoolInv

-----------------------------------------------------------------------------
(* The cleaner.                                                            *)

LEMMA NoneDoomed == PoolInv /\ cleaner # "destroy" => doomed = {}
PROOF
  BY DEF PoolInv, TypeOK, PerConn, DoomedInv

\* The steps of the cleaner that leave the list and the connections alone.
LEMMA CleanerMoves ==
  ASSUME PoolInv, UNCHANGED << it, stopping, flag, threads, doomed, workers, clients >>,
         cleaner # "destroy", cleaner' \in {"none", "early", "sleep", "ended"},
         main' = main \/ main' = "dead", main # "exited"
  PROVE  PoolInv'
PROOF
  <1>1. doomed = {} /\ doomed' = {} /\ Listed' = Listed
    BY NoneDoomed DEF Listed
  <1>2. \A c \in Conns : PerConn(c)'
    BY <1>1 DEF PoolInv, PerConn, ClientInv, FreshInv, StoppedInv, LateInv, DoomedInv,
                workers, clients
  <1>3. MainInv' /\ JoinedInv'
    BY <1>1 DEF PoolInv, MainInv, JoinedInv, workers, clients
  <1>4. NoOrphan'
    BY NoOrphanKept DEF PoolInv, NoOrphan, workers
  <1>5. TypeOK' /\ Counters'
    BY DEF PoolInv, TypeOK, Counters, workers, clients
  <1> QED
    BY <1>2, <1>3, <1>4, <1>5 DEF PoolInv

LEMMA CleanerStepsKeep ==
  ASSUME PoolInv, StartCleaner \/ ConstructList \/ ScanInvalid
  PROVE  PoolInv'
PROOF
  <1>1. CASE StartCleaner
    BY <1>1, CleanerMoves DEF StartCleaner, mains
  <1>2. CASE ConstructList
    BY <1>2, CleanerMoves DEF ConstructList, Alive, mains
  <1>3. CASE ScanInvalid
    BY <1>3, CleanerMoves DEF ScanInvalid, CleanedUp, Alive
  <1> QED
    BY <1>1, <1>2, <1>3

\* What leaves the list is doomed, and the destructor's walk is not under way
\* unless the list is empty.
LEMMA ScanKeeps ==
  ASSUME PoolInv, Scan
  PROVE  PoolInv'
PROOF
  <1>1. /\ UNCHANGED << main, it, stopping, flag, workers, clients >>
        /\ doomed = {} /\ main \notin {"construct", "exited", "dead"}
    BY NoneDoomed DEF Scan, Alive, mains
  <1>2. /\ threads' \in Seq(Conns) /\ IsInjective(threads')
        /\ Listed' = Listed \ doomed'
    <2>1. threads \in Seq(Conns) /\ IsInjective(threads)
      BY DEF PoolInv, TypeOK
    <2>2. threads' = Without(threads, doomed')
      BY DEF Scan
    <2> QED
      BY <2>1, <2>2, WithoutFacts, Zenon DEF Listed
  <1>3. Listed \subseteq Conns
    BY WalkFacts DEF PoolInv
  <1>4. doomed' = { c \in Listed : state[c] = "STOPPED" }
    BY <1>3 DEF Scan, IsStopped, PoolInv, PerConn, StoppedInv, Listed
  <1>5. /\ cleaner' \in {"sleep", "destroy", "ended"}
        /\ doomed' # {} => cleaner' = "destroy"
    BY DEF Scan, CleanedUp
  <1>6. \A c \in Conns : PerConn(c)'
    BY <1>1, <1>2, <1>4, <1>5 DEF PoolInv, PerConn, ClientInv, FreshInv, StoppedInv,
                                  LateInv, DoomedInv, workers, clients
  <1>7. MainInv'
    BY <1>1, <1>2, <1>4 DEF PoolInv, MainInv, workers, clients
  <1>8. JoinedInv'
    <2>1. main = "destroy" => Listed = {} /\ it = NoConn
      BY DEF Scan, ListInvalid, Listed, ToSet, PoolInv, JoinedInv
    <2>2. main = "destroy" => DOMAIN threads' = {}
      BY <1>2, <2>1 DEF Listed, ToSet
    <2> QED
      BY <1>1, <1>2, <2>1, <2>2 DEF PoolInv, JoinedInv, workers
  <1>9. NoOrphan'
    BY <1>1, <1>2 DEF PoolInv, NoOrphan, Listed, workers
  <1>10. TypeOK' /\ Counters'
    BY <1>1, <1>2, <1>3, <1>4, <1>5 DEF PoolInv, TypeOK, Counters, workers, clients
  <1> QED
    BY <1>6, <1>7, <1>8, <1>9, <1>10 DEF PoolInv

\* The nodes are freed once their workers have ended.
LEMMA DestroyDoomedKeeps ==
  ASSUME PoolInv, DestroyDoomed
  PROVE  PoolInv'
PROOF
  <1>1. /\ UNCHANGED << main, it, stopping, flag, threads, state, worker, inbox, late,
                        client, sent >>
        /\ doomed' = {} /\ cleaner' \in {"sleep", "ended"} /\ Listed' = Listed
        /\ main \notin {"exited", "dead"}
        /\ \A c \in doomed : worker[c] = "ended"
    BY DEF DestroyDoomed, CleanedUp, Alive, mains, clients, Listed
  <1>2. \A c \in Conns : open'[c] => open[c]
    BY DEF DestroyDoomed
  <1>3. open' \in [Conns -> BOOLEAN]
    BY DEF DestroyDoomed, PoolInv, TypeOK
  <1>4. \A c \in Conns : PerConn(c)'
    BY <1>1, <1>2 DEF PoolInv, PerConn, ClientInv, FreshInv, StoppedInv, LateInv,
                      DoomedInv
  <1>5. MainInv' /\ JoinedInv'
    BY <1>1 DEF PoolInv, MainInv, JoinedInv
  <1>6. NoOrphan'
    BY <1>1 DEF PoolInv, NoOrphan
  <1>7. TypeOK' /\ Counters'
    BY <1>1, <1>3 DEF PoolInv, TypeOK, Counters
  <1> QED
    BY <1>4, <1>5, <1>6, <1>7 DEF PoolInv

-----------------------------------------------------------------------------
(* The invariant, and what it is for.                                      *)

LEMMA NextKeeps == PoolInv /\ [Next]_vars => PoolInv'
PROOF
  <1> SUFFICES ASSUME PoolInv, [Next]_vars
               PROVE  PoolInv'
    OBVIOUS
  <1>1. CASE MainThread
    BY <1>1, HandshakesKeep, CleanerStepsKeep, EnlistKeeps, ConstructedKeeps,
       BeginShutdownKeeps, TestKeeps, MarkKeeps, WaitAndJoinKeep, AdvanceKeeps,
       EndRoundKeeps, AstrayKeeps, DestroyNodeKeeps, StopCleanerKeeps, ExitKeeps
       DEF MainThread
  <1>2. CASE Cleaner
    BY <1>2, ScanKeeps, DestroyDoomedKeeps, CleanerStepsKeep DEF Cleaner
  <1>3. CASE Interrupt
    BY <1>3, InterruptKeeps
  <1>4. ASSUME NEW c \in Conns, Accept(c) \/ Worker(c) \/ BrokenPipe(c) \/ Client(c)
        PROVE  PoolInv'
    BY <1>4, AcceptKeeps, BeginKeeps, LoopKeeps, ReadKeeps, ReadFailsKeeps,
       HandleKeeps, AfterKeeps, BrokenPipeKeeps, SayKeeps, LeaveKeeps
       DEF Worker, Client
  <1>5. CASE UNCHANGED vars
    <2>1. Listed' = Listed /\ UNCHANGED << threads, cleaners, workers, clients >>
      BY <1>5 DEF vars, Listed, cleaners, workers, clients
    <2>2. MainInv' /\ JoinedInv' /\ NoOrphan' /\ TypeOK'
      BY <1>5, <2>1 DEF vars, PoolInv, MainInv, JoinedInv, NoOrphan, TypeOK
    <2> QED
      BY <2>1, <2>2, SameConns DEF PoolInv
  <1> QED
    BY <1>1, <1>2, <1>3, <1>4, <1>5 DEF Next, Terminated

\* In every reachable state the worker, its connection, the list, the cleaner
\* and the main thread's iterator are where the constructors, destructors and
\* loops of main.cpp and thread_mgr.cpp put them.
THEOREM Invariance == Spec => []PoolInv
PROOF
  BY InitInv, NextKeeps, PTL DEF Spec

\* The variables keep their types, the list never holds a connection twice,
\* and the counters stay within the messages the clients send.
THEOREM TypeCorrect == Spec => []TypeOK
PROOF
  <1>1. PoolInv => TypeOK
    BY DEF PoolInv
  <1> QED
    BY <1>1, Invariance, PTL

\* No thread outlives what it works on: the destructors of thread_mgr and of
\* its nodes join every worker that was ever started.
THEOREM JoinedByItsOwner == Spec => []NoOrphan
PROOF
  <1>1. PoolInv => NoOrphan
    BY DEF PoolInv
  <1> QED
    BY <1>1, Invariance, PTL

\* request_stop lets a connection answer one more message and no other.
THEOREM StopsAfterOneMore == Spec => []AtMostOneMore
PROOF
  <1>1. PoolInv => AtMostOneMore
    BY DEF PoolInv, Counters, AtMostOneMore
  <1> QED
    BY <1>1, Invariance, PTL

\* actual_cleanup frees only connections their own workers have closed.
THEOREM FreesOnlyClosed == Spec => []CollectsOnlyClosed
PROOF
  <1>1. PoolInv => CollectsOnlyClosed
    BY DEF PoolInv, TypeOK, PerConn, DoomedInv, StoppedInv, CollectsOnlyClosed
  <1> QED
    BY <1>1, Invariance, PTL

=============================================================================
