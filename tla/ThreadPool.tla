----------------------------- MODULE ThreadPool -----------------------------
(***************************************************************************)
(* The threads of the dotchat server: the main thread accepts connections, *)
(* enlists them in thread_mgr and shuts the server down after SIGINT; one  *)
(* worker per connection (thread_conn) reads and answers; the cleaner of   *)
(* thread_mgr removes the connections that stopped or finished.            *)
(*                                                                         *)
(* thread_conn::state is a plain variable that the constructor, the worker *)
(* and the main thread all write; the mutex of thread_mgr is taken by      *)
(* enlist and by the cleaner, not by the main thread's iterations nor by   *)
(* the destructor.  Where the main thread follows an iterator to a node    *)
(* the cleaner has freed, or the cleaner scans freed nodes, the behaviour  *)
(* is undefined: the model then chooses freely between going on as if the  *)
(* list were intact and the death of the process ("dead").                 *)
(***************************************************************************)
EXTENDS Integers, Sequences, FiniteSets, SequencesExt

CONSTANTS
  Conns,         \* the connections the clients of a run open
  NoConn,        \* the end of an iteration
  MaxMessages    \* bound: how many messages each client sends

ASSUME PoolAssumption == NoConn \notin Conns /\ MaxMessages \in [Conns -> Nat]

VARIABLES
  main,      \* what the main thread does
  it,        \* its connection, in the handshake and in the shutdown loops
  stopping,  \* which shutdown loop it is in: request_stop or stop_sync
  flag,      \* SIGINT has arrived
  threads,   \* thread_mgr::threads
  cleaner,   \* the cleaner: not started, in a constructor, asleep, ...
  doomed,    \* the nodes its remove_if is destroying, under the mutex
  state,     \* thread_conn::state
  worker,    \* where the worker thread is
  open,      \* the connection has not been closed by the server
  client,    \* what the client does
  inbox,     \* messages sent and not read yet
  sent,      \* messages sent, while that matters
  late       \* history: messages read since request_stop marked the thread

vars == << main, it, stopping, flag, threads, cleaner, doomed,
           state, worker, open, client, inbox, sent, late >>
mains    == << main, it, stopping >>
cleaners == << cleaner, doomed >>
workers  == << state, worker, open, inbox, late >>
clients  == << client, sent >>

States == {"WAITING", "RUNNING", "STOPPING", "FINISHED", "STOPPED"}

TypeOK ==
  /\ main \in { "accept", "handshake", "enlist", "construct", "test", "mark",
                "wait", "join", "advance", "destroy", "stop_cleaner", "exited",
                "dead" }
  /\ it \in Conns \cup {NoConn}
  /\ stopping \in {"no", "request", "sync"}
  /\ flag \in BOOLEAN
  /\ threads \in Seq(Conns) /\ IsInjective(threads)
  /\ cleaner \in {"none", "early", "sleep", "destroy", "ended"}
  /\ doomed \subseteq Conns
  /\ state \in [Conns -> States \cup {"unset"}]
  /\ worker \in [Conns -> {"none", "begin", "loop", "read", "handle", "after",
                           "ended"}]
  /\ open \in [Conns -> BOOLEAN]
  /\ client \in [Conns -> {"absent", "connected", "left"}]
  /\ \A c \in Conns : /\ inbox[c] \in 0 .. MaxMessages[c]
                      /\ sent[c] \in 0 .. MaxMessages[c]
                      /\ late[c] \in {-1} \cup 0 .. MaxMessages[c]

Init ==
  /\ main = "accept" /\ it = NoConn /\ stopping = "no" /\ flag = FALSE
  /\ threads = << >> /\ cleaner = "none" /\ doomed = {}
  /\ state = [c \in Conns |-> "unset"]
  /\ worker = [c \in Conns |-> "none"]
  /\ open = [c \in Conns |-> FALSE]
  /\ client = [c \in Conns |-> "absent"]
  /\ inbox = [c \in Conns |-> 0]
  /\ sent = [c \in Conns |-> 0]
  /\ late = [c \in Conns |-> -1]

Alive == main \notin {"exited", "dead"}

IsRunning(c) == state[c] \in {"RUNNING", "STOPPING"}
\* Mutant: a connection asked to stop taken for a stopped one.
NotServing(c) == ~(state[c] \in {"WAITING", "RUNNING"})
IsStopped(c) == state[c] \in {"STOPPED", "FINISHED"}

\* The head of the list and the successor of a node; NoConn is end().
First == IF threads = << >> THEN NoConn ELSE Head(threads)
Successor(c) == IF c = Last(threads) THEN NoConn
                ELSE threads[(CHOOSE i \in DOMAIN threads : threads[i] = c) + 1]

\* The list s without the nodes in D: the k-th of the others is its k-th node.
Without(s, D) ==
  LET kept == { i \in DOMAIN s : s[i] \notin D }
      Rank(i) == Cardinality({ j \in kept : j <= i })
  IN  [k \in 1 .. Cardinality(kept) |-> s[CHOOSE i \in kept : Rank(i) = k]]

-----------------------------------------------------------------------------
(* The clients.                                                            *)

Say(c) ==
  /\ Alive /\ client[c] = "connected" /\ sent[c] < MaxMessages[c]
  /\ sent' = [sent EXCEPT ![c] = @ + 1]
  /\ inbox' = [inbox EXCEPT ![c] = @ + 1]
  /\ UNCHANGED << mains, flag, threads, cleaners, state, worker, open, late,
                  client >>

Leave(c) ==
  /\ Alive /\ client[c] = "connected"
  /\ client' = [client EXCEPT ![c] = "left"]
  /\ sent' = [sent EXCEPT ![c] = 0]
  /\ UNCHANGED << mains, flag, threads, cleaners, workers >>

Interrupt ==
  /\ Alive /\ ~flag
  /\ flag' = TRUE
  /\ UNCHANGED << mains, threads, cleaners, workers, clients >>

-----------------------------------------------------------------------------
(* The main thread: the accept loop.                                       *)

\* A client connects and accept_nonblock finds it: accept(), then SSL_accept
\* blocks the loop until the peer has answered.
Accept(c) ==
  /\ main = "accept" /\ ~flag /\ client[c] = "absent"
  /\ main' = "handshake" /\ it' = c
  /\ UNCHANGED << stopping, flag, threads, cleaners, workers, clients >>

\* SSL_accept returns 1, or 0 for a peer that shut down: both are enlisted.
Handshake ==
  /\ main = "handshake"
  /\ \E end \in {"connected", "left"} : client' = [client EXCEPT ![it] = end]
  /\ main' = "enlist"
  /\ UNCHANGED << it, stopping, flag, threads, cleaners, workers, sent >>

\* The handshake fails: the exception leaves the loop, and main returns
\* without having asked any thread to stop.
HandshakeFails ==
  /\ main = "handshake"
  /\ client' = [client EXCEPT ![it] = "left"]
  /\ main' = "destroy" /\ it' = First
  /\ UNCHANGED << stopping, flag, threads, cleaners, workers, sent >>

\* The first call of manager() constructs the thread_mgr, its cleaner thread
\* before its list.
StartCleaner ==
  /\ main = "enlist" \/ (main = "accept" /\ flag)
  /\ cleaner = "none" /\ cleaner' = "early"
  /\ UNCHANGED << mains, flag, threads, doomed, workers, clients >>

ConstructList ==
  /\ Alive /\ cleaner = "early" /\ cleaner' = "sleep"
  /\ UNCHANGED << mains, flag, threads, doomed, workers, clients >>

\* enlist takes the mutex and constructs the thread_conn: conn, the jthread,
\* and only then the state.
Enlist ==
  /\ main = "enlist" /\ cleaner = "sleep"
  /\ main' = "construct"
  /\ open' = [open EXCEPT ![it] = TRUE]
  /\ worker' = [worker EXCEPT ![it] = "begin"]
  /\ UNCHANGED << it, stopping, flag, threads, cleaners, state, inbox, late,
                  clients >>

\* The default member initializer of state runs, whatever the worker wrote.
Constructed ==
  /\ main = "construct"
  /\ state' = [state EXCEPT ![it] = "WAITING"]
  /\ threads' = Append(threads, it)
  /\ main' = "accept" /\ it' = NoConn
  /\ UNCHANGED << stopping, flag, cleaners, worker, open, inbox, late, clients >>

-----------------------------------------------------------------------------
(* The main thread: the two shutdown loops over the list, without the      *)
(* mutex, and the destruction of the manager.                              *)

ToNode == it # NoConn /\ it \in ToSet(threads)

BeginShutdown ==
  /\ main = "accept" /\ flag /\ cleaner \in {"sleep", "destroy"}
  /\ main' = "test" /\ stopping' = "request" /\ it' = First
  /\ UNCHANGED << flag, threads, cleaners, workers, clients >>

\* request_stop: the condition, and on its own the assignment.
Test ==
  /\ main = "test" /\ ToNode
  /\ main' = IF IsRunning(it) THEN "mark"
             ELSE IF stopping = "sync" THEN "wait" ELSE "advance"
  /\ UNCHANGED << it, stopping, flag, threads, cleaners, workers, clients >>

Mark ==
  /\ main = "mark" /\ ToNode
  /\ state' = [state EXCEPT ![it] = "STOPPING"]
  /\ late' = [late EXCEPT ![it] = IF @ = -1 THEN 0 ELSE @]
  /\ main' = IF stopping = "sync" THEN "wait" ELSE "advance"
  /\ UNCHANGED << it, stopping, flag, threads, cleaners, worker, open, inbox,
                  clients >>

\* wait_for.
Wait ==
  /\ main = "wait" /\ ToNode
  /\ main' = IF IsRunning(it) THEN "join" ELSE "advance"
  /\ UNCHANGED << it, stopping, flag, threads, cleaners, workers, clients >>

Join ==
  /\ main = "join" /\ ToNode /\ worker[it] = "ended"
  /\ main' = "advance"
  /\ UNCHANGED << it, stopping, flag, threads, cleaners, workers, clients >>

Advance ==
  /\ main = "advance" /\ ToNode
  /\ main' = "test" /\ it' = Successor(it)
  /\ UNCHANGED << stopping, flag, threads, cleaners, workers, clients >>

EndRound ==
  /\ main = "test" /\ it = NoConn
  /\ it' = First
  /\ \/ stopping = "request" /\ stopping' = "sync" /\ UNCHANGED main
     \/ stopping = "sync" /\ main' = "destroy" /\ UNCHANGED stopping
  /\ UNCHANGED << flag, threads, cleaners, workers, clients >>

\* The cleaner took the node the iterator stands on: undefined behaviour.
Astray ==
  /\ main \in {"test", "mark", "wait", "join", "advance"}
  /\ it # NoConn /\ ~ToNode
  /\ \/ main' = "dead" /\ UNCHANGED it
     \/ main' = "test" /\ it' \in ToSet(threads) \cup {NoConn}
  /\ UNCHANGED << stopping, flag, threads, cleaners, workers, clients >>

\* ~thread_mgr destroys its members in reverse: the list, then the cleaner.
\* Destroying a node joins its jthread; the memory the cleaner may still scan
\* keeps the nodes, so threads stays as it is.
DestroyNode ==
  /\ main = "destroy" /\ it # NoConn /\ worker[it] = "ended"
  /\ it' = Successor(it)
  /\ open' = [open EXCEPT ![it] = FALSE]
  /\ UNCHANGED << main, stopping, flag, threads, cleaners, state, worker, inbox,
                  late, clients >>

StopCleaner ==
  /\ main = "destroy" /\ it = NoConn
  /\ main' = IF cleaner = "none" THEN "exited" ELSE "stop_cleaner"
  /\ UNCHANGED << it, stopping, flag, threads, cleaners, workers, clients >>

Exit ==
  /\ main = "stop_cleaner" /\ cleaner = "ended"
  /\ main' = "exited"
  /\ UNCHANGED << it, stopping, flag, threads, cleaners, workers, clients >>

-----------------------------------------------------------------------------
(* The cleaner: sleep, actual_cleanup under the mutex, look at the token.  *)

\* Mutant: the stop token is never looked at.
NeverAsked == "sleep"
CleanedUp == IF main = "stop_cleaner" THEN "ended" ELSE "sleep"

\* The list is not constructed yet, or its nodes are being destroyed.
ListInvalid == \/ cleaner = "early"
               \/ main \in {"destroy", "stop_cleaner"} /\ threads # << >>

\* remove_if unlinks the stopped nodes, then destroys them.
Scan ==
  /\ Alive /\ cleaner = "sleep" /\ main # "construct" /\ ~ListInvalid
  /\ doomed' = {c \in ToSet(threads) : IsStopped(c)}
  /\ threads' = Without(threads, doomed')
  /\ cleaner' = IF doomed' = {} THEN CleanedUp ELSE "destroy"
  /\ UNCHANGED << mains, flag, workers, clients >>

\* Mutant: destruction without the join (a std::thread detached).
DestroyUnjoined ==
  /\ Alive /\ cleaner = "destroy"
  /\ open' = [c \in Conns |-> open[c] /\ c \notin doomed]
  /\ doomed' = {}
  /\ cleaner' = CleanedUp
  /\ UNCHANGED << mains, flag, threads, state, worker, inbox, late, clients >>

\* Each node's destructor joins its jthread.
DestroyDoomed ==
  /\ Alive /\ cleaner = "destroy"
  /\ \A c \in doomed : worker[c] = "ended"
  /\ open' = [c \in Conns |-> open[c] /\ c \notin doomed]
  /\ doomed' = {}
  /\ cleaner' = CleanedUp
  /\ UNCHANGED << mains, flag, threads, state, worker, inbox, late, clients >>

\* A scan of an invalid list: undefined behaviour.
ScanInvalid ==
  /\ Alive /\ cleaner \in {"early", "sleep"} /\ ListInvalid
  /\ \/ main' = "dead" /\ UNCHANGED cleaner
     \/ cleaner = "sleep" /\ cleaner' = CleanedUp /\ UNCHANGED main
  /\ UNCHANGED << it, stopping, flag, threads, doomed, workers, clients >>

-----------------------------------------------------------------------------
(* The workers: thread_conn::callback.                                     *)

Begin(c) ==
  /\ Alive /\ worker[c] = "begin"
  /\ state' = [state EXCEPT ![c] = "RUNNING"]
  /\ worker' = [worker EXCEPT ![c] = "loop"]
  /\ UNCHANGED << mains, flag, threads, cleaners, open, inbox, late, clients >>

Loop(c) ==
  /\ Alive /\ worker[c] = "loop"
  /\ worker' = [worker EXCEPT ![c] = IF open[c] /\ IsRunning(c) THEN "read"
                                     ELSE "ended"]
  /\ UNCHANGED << mains, flag, threads, cleaners, state, open, inbox, late,
                  clients >>

\* Mutant: a read that does not wait for a message.
ReadAnyway(c) ==
  /\ Alive /\ worker[c] = "read"
  /\ inbox' = [inbox EXCEPT ![c] = @ - 1]
  /\ worker' = [worker EXCEPT ![c] = "handle"]
  /\ UNCHANGED << mains, flag, threads, cleaners, state, open, late, clients >>

Read(c) ==
  /\ Alive /\ worker[c] = "read" /\ inbox[c] > 0
  /\ inbox' = [inbox EXCEPT ![c] = @ - 1]
  /\ worker' = [worker EXCEPT ![c] = "handle"]
  /\ late' = [late EXCEPT ![c] = IF @ = -1 THEN -1 ELSE @ + 1]
  /\ UNCHANGED << mains, flag, threads, cleaners, state, open, clients >>

\* The peer is gone: tls_error is logged; neither conn nor state is touched.
ReadFails(c) ==
  /\ Alive /\ worker[c] = "read" /\ client[c] = "left"
  /\ worker' = [worker EXCEPT ![c] = "ended"]
  /\ UNCHANGED << mains, flag, threads, cleaners, state, open, inbox, late,
                  clients >>

\* handle answers and the answer is sent; or it throws, and conn is closed;
\* or the send fails with a tls_error.  The state is touched by none of them.
Handle(c) ==
  /\ Alive /\ worker[c] = "handle"
  /\ \/ /\ worker' = [worker EXCEPT ![c] = "after"]
        /\ UNCHANGED open
     \/ /\ worker' = [worker EXCEPT ![c] = "ended"]
        /\ open' = [open EXCEPT ![c] = FALSE]
     \/ /\ client[c] = "left"
        /\ worker' = [worker EXCEPT ![c] = "ended"]
        /\ UNCHANGED open
  /\ UNCHANGED << mains, flag, threads, cleaners, state, inbox, late, clients >>

\* Mutant: the request to stop is not noticed after an answer.
AfterUnnoticed(c) ==
  /\ Alive /\ worker[c] = "after"
  /\ worker' = [worker EXCEPT ![c] = "loop"]
  /\ UNCHANGED << mains, flag, threads, cleaners, state, open, inbox, late,
                  clients >>

After(c) ==
  /\ Alive /\ worker[c] = "after"
  /\ worker' = [worker EXCEPT ![c] = "loop"]
  /\ IF state[c] = "STOPPING"
     THEN /\ open' = [open EXCEPT ![c] = FALSE]
          /\ state' = [state EXCEPT ![c] = "STOPPED"]
     ELSE UNCHANGED << open, state >>
  /\ UNCHANGED << mains, flag, threads, cleaners, inbox, late, clients >>

\* Whoever writes an answer, or the end of the connection, to a client that
\* left may get SIGPIPE, which nothing in the server handles.
BrokenPipe(c) ==
  /\ Alive /\ client[c] = "left"
  /\ \/ worker[c] \in {"handle", "after"}
     \/ open[c] /\ (c \in doomed \/ (main = "destroy" /\ it = c))
  /\ main' = "dead"
  /\ UNCHANGED << it, stopping, flag, threads, cleaners, workers, clients >>

-----------------------------------------------------------------------------
MainThread ==
  \/ Handshake \/ HandshakeFails \/ StartCleaner \/ ConstructList \/ Enlist \/ Constructed
  \/ BeginShutdown \/ Test \/ Mark \/ Wait \/ Join \/ Advance \/ EndRound
  \/ Astray \/ DestroyNode \/ StopCleaner \/ Exit

Cleaner == Scan \/ DestroyDoomed \/ ScanInvalid

Worker(c) ==
  Begin(c) \/ Loop(c) \/ Read(c) \/ ReadFails(c) \/ Handle(c) \/ After(c)

Client(c) == Say(c) \/ Leave(c)

\* The process has ended; nothing else stops the system.
Terminated == ~Alive /\ UNCHANGED vars

Next == \/ MainThread \/ Cleaner \/ Interrupt \/ Terminated
        \/ \E c \in Conns : Accept(c) \/ Worker(c) \/ BrokenPipe(c) \/ Client(c)

Spec == Init /\ [][Next]_vars

\* The scheduler runs every thread; nobody makes a client connect, say
\* anything or leave, nor sends SIGINT.  A handshake that began ends, one way
\* or the other.
FairSpec == /\ Spec
            /\ WF_vars(MainThread) /\ WF_vars(Cleaner)
            /\ \A c \in Conns : WF_vars(Worker(c))

(* The properties.                                                         *)

\* No thread outlives what it works on: while a worker has not ended, its
\* thread_conn is in the list, being destroyed by a thread that joins it, or
\* being constructed; so none is left when the process ends, whatever the
\* iterators of the shutdown loops do and also when a handshake fails.
NoOrphan ==
  /\ \A c \in Conns : (main # "dead" /\ worker[c] \notin {"none", "ended"}) =>
       \/ c \in ToSet(threads) \cup doomed
       \/ main = "construct" /\ it = c
  /\ main = "exited" => \A c \in Conns : worker[c] \in {"none", "ended"}

\* After request_stop has marked it, a connection answers at most one more
\* message, the one its worker was waiting for.
AtMostOneMore == \A c \in Conns : late[c] \in {-1, 0, 1}

\* The cleaner frees only connections that were closed after the answer to
\* their last message: no client that waits for an answer loses it to the
\* cleaner.
CollectsOnlyClosed ==
  \A c \in doomed : /\ ~open[c]
                    /\ worker[c] \in {"loop", "ended"}
                    /\ state[c] \in {"STOPPED", "STOPPING"}

\* A connection that answered a message after request_stop stops by itself,
\* whether its client leaves or not.
BusyWorkerStops ==
  \A c \in Conns : late[c] = 1 ~> (worker[c] = "ended" \/ ~Alive)

\* Shutdown ends after SIGINT if no client stays connected for ever.
PatientShutdown ==
  (\A c \in Conns : []<>(client[c] # "connected")) => [](flag => <>~Alive)

\* "Request the thread to stop running (synchronously)": once the second
\* loop is over, no worker runs.
StoppedSynchronously ==
  main = "destroy" /\ stopping = "sync" =>
    \A c \in ToSet(threads) : worker[c] = "ended"

=============================================================================
