------------------------- MODULE ChatServer_proofs --------------------------
(***************************************************************************)
(* Proofs about ChatServer for every number of workers, every set of names,*)
(* keys and commands, and any number of crashes: the invariant IInv of     *)
(* ChatInvariant is inductive, and the server implements ChatLedger.       *)
(*                                                                         *)
(* A step of a worker changes the locals of that worker alone and at most  *)
(* one table, and no table forgets (Grows).  So the other workers keep     *)
(* their part of the invariant (OthersKeep), and what is left per action   *)
(* is the acting worker's own part and the table it writes.                *)
(***************************************************************************)
EXTENDS ChatInvariant, FiniteSetTheorems, SequenceTheorems, TLAPS

-----------------------------------------------------------------------------
(* Facts about requests and statements.                                    *)

\* The fields a request has, by its command.
LEMMA RequestFields ==
  ASSUME NEW r \in Requests
  PROVE  /\ r.cmd \in AllCommands
         /\ r.cmd \in {"login", "new_user"} => r.name \in Names /\ r.pass \in Passwords
         /\ r.cmd = "change_pass" => r.pass \in Passwords
         /\ r.cmd = "new_channel" => r.name \in ChanNames
         /\ r.cmd \in {"send_msg", "channel_msg", "channel_details"} => r.chan \in Nat
         /\ r.cmd = "invite_user" => r.chan \in Nat /\ r.uid \in Nat
PROOF
  <1>1. r \in AllRequests /\ r.cmd \in Commands
    BY DEF Requests
  <1>2. ChanIds \subseteq Nat /\ UserIds \subseteq Nat
    BY ConstantsAssumption, FS_CardinalityType DEF ChanIds, UserIds
  <1>3. r.cmd \in AllCommands
    BY <1>1, ConstantsAssumption
  <1>4. CASE r \in [cmd : {"login", "new_user"}, name : Names, pass : Passwords]
    BY <1>3, <1>4
  <1>5. CASE r \in [cmd : {"logout", "channel_list"}, token : Keys]
    BY <1>3, <1>5
  <1>6. CASE r \in [cmd : {"change_pass"}, token : Keys, pass : Passwords]
    BY <1>3, <1>6
  <1>7. CASE r \in [cmd : {"new_channel"}, token : Keys, name : ChanNames]
    BY <1>3, <1>7
  <1>8. CASE r \in [cmd : {"channel_msg", "send_msg", "channel_details"},
                    token : Keys, chan : ChanIds]
    BY <1>2, <1>3, <1>8
  <1>9. CASE r \in [cmd : {"user_details"}, token : Keys, uid : UserIds]
    BY <1>3, <1>9
  <1>10. CASE r \in [cmd : {"invite_user"}, token : Keys, chan : ChanIds,
                     uid : UserIds]
    BY <1>2, <1>3, <1>10
  <1>11. CASE r \in [cmd : {"unknown"}, name : Names] \cup [cmd : {"malformed"}]
    BY <1>3, <1>11
  <1> QED
    BY <1>1, <1>4, <1>5, <1>6, <1>7, <1>8, <1>9, <1>10, <1>11 DEF AllRequests

-----------------------------------------------------------------------------
(* What a step of worker w does to the locals.                             *)

\* Only worker w moves.
Others(w) ==
  \A v \in Workers \ {w} :
    /\ pc'[v] = pc[v] /\ req'[v] = req[v] /\ me'[v] = me[v]
    /\ uname'[v] = uname[v] /\ row'[v] = row[v] /\ got'[v] = got[v]

Replies == [status : {"none", "ok", "err"}, data : SUBSET (Nat \cup Keys)]

\* No table forgets what a handler can have read, sessions excepted.
Grows ==
  /\ \A u \in DOMAIN users :
       u \in DOMAIN users' /\ users'[u].name = users[u].name
  /\ \A c \in DOMAIN channels :
       c \in DOMAIN channels' /\ channels'[c] = channels[c]
  /\ members \subseteq members'
  /\ issued \subseteq issued'

LEMMA UserRow ==
  ASSUME IInv, NEW u \in DOMAIN users
  PROVE  users[u] \in [name : Names, pass : Passwords]
PROOF
  <1> DEFINE Row == [name : Names, pass : Passwords]
  <1>1. users \in Seq(Row)
    BY DEF IInv, TypeOK, TablesOK
  <1> HIDE DEF Row
  <1>2. users[u] \in Row
    BY <1>1, LenProperties, ElementOfSeq
  <1> QED
    BY <1>2 DEF Row

\* A worker that does not move keeps its part of the invariant.
LEMMA WorkerKeeps ==
  ASSUME NEW w \in Workers, WorkerInv(w), Grows,
         pc'[w] = pc[w], req'[w] = req[w], me'[w] = me[w],
         uname'[w] = uname[w], row'[w] = row[w], got'[w] = got[w]
  PROVE  WorkerInv(w)'
PROOF
  <1>1. Dispatched(w)'
    BY DEF WorkerInv, Dispatched, Cmd
  <1>2. Token(w)' = Token(w)
    BY DEF Token, Cmd
  <1>3. Identified(w)'
    BY <1>2 DEF WorkerInv, Identified, Grows, Cmd
  <1>4. \A u, c : Owns(u, c) => Owns(u, c)'
    BY DEF Owns, Grows
  <1>5. Permitted(w)'
    BY <1>4 DEF WorkerInv, Permitted, Grows, Cmd
  <1> QED
    BY <1>1, <1>3, <1>5 DEF WorkerInv

\* A worker that is not at a statement has no part in the invariant.
LEMMA AtRest ==
  ASSUME NEW w \in Workers, pc'[w] \in Resting \cup {"reply"}
  PROVE  WorkerInv(w)'
PROOF
  BY DEF WorkerInv, Dispatched, Identified, Permitted, Resting, Statements,
         Authenticated

LEMMA ReplyEffect ==
  ASSUME LocalsOK, NEW w \in Workers, NEW r \in Replies, Reply(w, r)
  PROVE  LocalsOK' /\ Others(w) /\ WorkerInv(w)'
PROOF
  <1>1. LocalsOK' /\ Others(w)
    BY DEF LocalsOK, Reply, Goto, Others, Replies
  <1>2. pc'[w] = "reply"
    BY DEF LocalsOK, Reply, Goto
  <1> QED
    BY <1>1, <1>2, AtRest

LEMMA RefuseEffect ==
  ASSUME LocalsOK, NEW w \in Workers, Refuse(w)
  PROVE  LocalsOK' /\ Others(w) /\ WorkerInv(w)'
PROOF
  <1>1. Error \in Replies
    BY DEF Error, Replies
  <1> QED
    BY <1>1, ReplyEffect DEF Refuse

LEMMA RestEffect ==
  ASSUME LocalsOK, NEW w \in Workers, NEW where \in Resting, Rest(w, where)
  PROVE  LocalsOK' /\ Others(w) /\ WorkerInv(w)'
PROOF
  <1>1. NoReply \in Replies
    BY DEF NoReply, Replies
  <1>2. LocalsOK' /\ Others(w)
    BY <1>1 DEF LocalsOK, Rest, Goto, Others, Replies
  <1>3. pc'[w] \in Resting
    BY DEF LocalsOK, Rest, Goto
  <1> QED
    BY <1>2, <1>3, AtRest

LEMMA DropEffect ==
  ASSUME LocalsOK, NEW w \in Workers, Drop(w)
  PROVE  LocalsOK' /\ Others(w) /\ WorkerInv(w)'
PROOF
  BY RestEffect DEF Drop, Resting

LEMMA GotoEffect ==
  ASSUME LocalsOK, NEW w \in Workers, NEW s \in Statements \cup Resting,
         Goto(w, s), UNCHANGED locals
  PROVE  /\ LocalsOK' /\ Others(w)
         /\ pc'[w] = s
         /\ \A v \in Workers : /\ Cmd(v)' = Cmd(v) /\ Token(v)' = Token(v)
                               /\ req'[v] = req[v] /\ me'[v] = me[v]
                               /\ uname'[v] = uname[v]
                               /\ row'[v] = row[v] /\ got'[v] = got[v]
PROOF
  BY DEF LocalsOK, Goto, Others, locals, Cmd, Token

-----------------------------------------------------------------------------
(* What is left to show of a step of worker w.                             *)

\* A worker is busy only while the server serves.
LEMMA Serving ==
  ASSUME BootInv, NEW w \in Workers, pc[w] # "closed",
         main \in {"down", "schema", "user", "channel", "member", "serving"}
  PROVE  main = "serving"
PROOF
  BY DEF BootInv

\* A step that writes a table.
LEMMA WriteKeeps ==
  ASSUME IInv, NEW w \in Workers, main = "serving", UNCHANGED process,
         TablesOK', LocalsOK', issued' \subseteq Keys \X Nat,
         Others(w), WorkerInv(w)', Grows, TablesInv'
  PROVE  IInv'
PROOF
  <1>1. TypeOK'
    BY DEF IInv, TypeOK, process
  <1>2. BootInv'
    BY DEF IInv, BootInv, process
  <1>3. ASSUME NEW v \in Workers PROVE WorkerInv(v)'
    <2>1. CASE v = w
      BY <2>1
    <2>2. CASE v # w
      BY <2>2, WorkerKeeps DEF IInv, Others
    <2> QED
      BY <2>1, <2>2
  <1> QED
    BY <1>1, <1>2, <1>3 DEF IInv

\* A step that reads: the tables' part of the invariant is as it was.
LEMMA ReadKeeps ==
  ASSUME IInv, NEW w \in Workers, main = "serving", Reads,
         LocalsOK', Others(w), WorkerInv(w)'
  PROVE  IInv'
PROOF
  <1>1. UNCHANGED process /\ Grows
    BY DEF Reads, Grows, tables
  <1>2. TablesOK' /\ issued' \subseteq Keys \X Nat
    BY DEF IInv, TypeOK, TablesOK, Reads, tables
  <1>3. TablesInv'
    BY DEF IInv, TablesInv, SenderIsMember, Reads, tables
  <1> QED
    BY <1>1, <1>2, <1>3, WriteKeeps

\* A query that lets the handler go on or refuses: what remains is that the
\* handler's next statement has its part of the invariant.
LEMMA GateKeeps ==
  ASSUME IInv, NEW w \in Workers, NEW s \in Statements, NEW next \in Statements,
         NEW passes \in BOOLEAN, Gate(w, s, passes, next),
         passes /\ pc[w] = s /\ Reads /\ UNCHANGED locals /\ pc'[w] = next
           => WorkerInv(w)'
  PROVE  IInv'
PROOF
  <1>1. main = "serving" /\ LocalsOK /\ Reads /\ pc[w] = s
    BY Serving DEF IInv, TypeOK, Gate, At, Statements
  <1>2. CASE passes /\ Goto(w, next) /\ UNCHANGED locals
    <2>1. LocalsOK' /\ Others(w) /\ pc'[w] = next
      BY <1>1, <1>2, GotoEffect
    <2> QED
      BY <1>1, <1>2, <2>1, ReadKeeps
  <1>3. CASE Refuse(w)
    BY <1>1, <1>3, RefuseEffect, ReadKeeps
  <1> QED
    BY <1>2, <1>3 DEF Gate

-----------------------------------------------------------------------------
(* The connection and check_session_key.                                   *)

LEMMA ClientKeeps ==
  ASSUME IInv, NEW w \in Workers, Client(w)
  PROVE  IInv'
PROOF
  <1> USE DEF IInv, TypeOK
  <1>1. CASE Accept(w)
    <2>1. main = "serving" /\ Reads
      BY <1>1 DEF Accept, Reads
    <2>2. LocalsOK' /\ Others(w) /\ pc'[w] = "idle"
      BY <1>1, GotoEffect DEF Accept, Resting
    <2> QED
      BY <2>1, <2>2, AtRest, ReadKeeps DEF Resting
  <1>2. CASE Receive(w)
    <2>1. main = "serving" /\ Reads
      BY <1>2, Serving DEF Receive
    <2>2. PICK r \in Requests :
            CASE r.cmd = "malformed" -> Drop(w)
              [] r.cmd = "unknown" ->
                   /\ Goto(w, "reply")
                   /\ req' = [req EXCEPT ![w] = r]
                   /\ out' = [out EXCEPT ![w] = Error]
                   /\ UNCHANGED << me, uname, row, got >>
              [] OTHER ->
                   /\ Goto(w, Entry(r))
                   /\ req' = [req EXCEPT ![w] = r]
                   /\ UNCHANGED << me, uname, row, got, out >>
      BY <1>2 DEF Receive
    <2>3. CASE r.cmd = "malformed"
      BY <2>1, <2>2, <2>3, DropEffect, ReadKeeps
    <2>4. CASE r.cmd = "unknown"
      <3>1. Error \in Replies
        BY DEF Error, Replies
      <3>2. /\ Goto(w, "reply")
            /\ req' = [req EXCEPT ![w] = r] /\ out' = [out EXCEPT ![w] = Error]
            /\ UNCHANGED << me, uname, row, got >>
        BY <2>2, <2>4
      <3>3. LocalsOK
        OBVIOUS
      <3>4. LocalsOK' /\ Others(w) /\ pc'[w] = "reply"
        <4> HIDE DEF IInv, TypeOK
        <4> QED
          BY <3>1, <3>2, <3>3 DEF LocalsOK, Goto, Others, Replies
      <3> QED
        BY <2>1, <3>4, AtRest, ReadKeeps
    <2>5. CASE r.cmd \notin {"malformed", "unknown"}
      <3>1. Entry(r) \in {"find_user", "add_user", "session"}
        BY DEF Entry
      <3>2. LocalsOK' /\ Others(w) /\ pc'[w] = Entry(r) /\ req'[w] = r
        <4>1. Goto(w, Entry(r)) /\ req' = [req EXCEPT ![w] = r]
          BY <2>2, <2>5
        <4>2. UNCHANGED << me, uname, row, got, out >>
          BY <2>2, <2>5
        <4>3. LocalsOK
          OBVIOUS
        <4> HIDE DEF IInv, TypeOK
        <4> QED
          BY <3>1, <4>1, <4>2, <4>3 DEF LocalsOK, Goto, Others, Statements
      <3>3. r.cmd \in AllCommands
        BY RequestFields
      <3>4. Entry(r) = "session" => r.cmd \notin {"login", "new_user"}
        BY DEF Entry
      <3>5. Dispatched(w)'
        BY <2>5, <3>2, <3>3 DEF Dispatched, CommandsAt, Entry, Cmd
      <3>6. Identified(w)'
        BY <3>1, <3>2, <3>4 DEF Identified, Authenticated, Cmd
      <3>7. Permitted(w)'
        BY <3>1, <3>2 DEF Permitted
      <3> QED
        BY <2>1, <3>2, <3>5, <3>6, <3>7, ReadKeeps DEF WorkerInv
    <2> QED
      BY <2>3, <2>4, <2>5
  <1>3. CASE Disconnect(w)
    BY <1>3, Serving, DropEffect, ReadKeeps DEF Disconnect
  <1> QED
    BY <1>1, <1>2, <1>3 DEF Client

\* The session row names a user the token was issued to.
LEMMA CheckSessionKeeps ==
  ASSUME IInv, NEW w \in Workers, CheckSession(w)
  PROVE  IInv'
PROOF
  <1>1. /\ LocalsOK /\ WorkerInv(w) /\ Reads /\ pc[w] = "session"
        /\ main = "serving"
    BY Serving DEF IInv, TypeOK, CheckSession, At
  <1>2. Cmd(w) \in AllCommands \ {"new_user", "unknown", "malformed"}
    BY <1>1 DEF WorkerInv, Dispatched, CommandsAt, Statements
  <1>3. ASSUME NEW now \in NowValues, NEW s \in ValidRows(w, now),
               row' = [row EXCEPT ![w] = s.user], Goto(w, "user"),
               UNCHANGED << req, me, uname, got, out >>
        PROVE  IInv'
    <2>1. /\ s \in Sessions /\ s.key = Token(w)
          /\ s.user \in DOMAIN users /\ << s.key, s.user >> \in issued
      BY DEF ValidRows, IInv, TypeOK, TablesOK, TablesInv
    <2>2. LocalsOK' /\ Others(w) /\ pc'[w] = "user" /\ row'[w] = s.user
      BY <1>1, <1>3, <2>1 DEF LocalsOK, Goto, Others, Sessions, Statements
    <2>3. Token(w)' = Token(w) /\ Cmd(w)' = Cmd(w)
      BY <1>3 DEF Token, Cmd
    <2>4. Dispatched(w)'
      BY <1>2, <2>2, <2>3 DEF Dispatched, CommandsAt
    <2>5. Identified(w)'
      BY <1>1, <1>3, <2>1, <2>2, <2>3
         DEF Identified, WorkerInv, Authenticated, Reads, tables
    <2>6. Permitted(w)'
      BY <2>2 DEF Permitted
    <2> QED
      BY <1>1, <2>2, <2>4, <2>5, <2>6, ReadKeeps DEF WorkerInv
  <1>4. CASE Cmd(w) = "login" /\ Goto(w, "mint") /\ UNCHANGED locals
    <2>1. /\ LocalsOK' /\ Others(w) /\ pc'[w] = "mint"
          /\ Cmd(w)' = Cmd(w) /\ me'[w] = me[w] /\ got'[w] = got[w]
      BY <1>1, <1>4, GotoEffect DEF Statements
    <2>2. Dispatched(w)' /\ Permitted(w)'
      BY <1>4, <2>1 DEF Dispatched, CommandsAt, Permitted
    <2>3. Identified(w)'
      BY <1>1, <1>4, <2>1
         DEF WorkerInv, Identified, Authenticated, Reads, tables
    <2> QED
      BY <1>1, <2>1, <2>2, <2>3, ReadKeeps DEF WorkerInv
  <1>5. CASE Refuse(w)
    BY <1>1, <1>5, RefuseEffect, ReadKeeps
  <1> QED
    BY <1>3, <1>4, <1>5 DEF CheckSession

\* The user row exists, and the handler goes on as the token's user.
LEMMA CheckUserKeeps ==
  ASSUME IInv, NEW w \in Workers, CheckUser(w)
  PROVE  IInv'
PROOF
  <1>1. /\ LocalsOK /\ WorkerInv(w) /\ Reads /\ pc[w] = "user"
        /\ main = "serving"
    BY Serving DEF IInv, TypeOK, CheckUser, At
  <1>2. /\ Cmd(w) \in AllCommands \ {"new_user", "unknown", "malformed"}
        /\ row[w] \in DOMAIN users /\ << Token(w), row[w] >> \in issued
    BY <1>1 DEF WorkerInv, Dispatched, Identified, CommandsAt, Statements
  <1>3. CASE Drop(w)
    BY <1>1, <1>3, DropEffect, ReadKeeps
  <1>4. CASE Cmd(w) = "login" /\ Goto(w, "session") /\ UNCHANGED locals
    <2>1. /\ LocalsOK' /\ Others(w) /\ pc'[w] = "session"
          /\ Cmd(w)' = Cmd(w) /\ me'[w] = me[w] /\ got'[w] = got[w]
      BY <1>1, <1>4, GotoEffect DEF Statements
    <2>2. Dispatched(w)' /\ Permitted(w)'
      BY <1>2, <2>1 DEF Dispatched, CommandsAt, Permitted
    <2>3. Identified(w)'
      BY <1>1, <1>4, <2>1
         DEF WorkerInv, Identified, Authenticated, Reads, tables
    <2> QED
      BY <1>1, <2>1, <2>2, <2>3, ReadKeeps DEF WorkerInv
  <1>5. CASE /\ Cmd(w) # "login"
             /\ me' = [me EXCEPT ![w] = row[w]]
             /\ uname' = [uname EXCEPT ![w] = {users[row[w]].name}]
             /\ Goto(w, Body(Cmd(w)))
             /\ UNCHANGED << req, row, got, out >>
    <2>1. Body(Cmd(w)) \in { "revoke", "set_pass", "add_channel", "owned",
                             "access", "channels", "members", "target" }
      BY DEF Body
    <2>0. users[row[w]].name \in Names
      BY <1>2, UserRow
    <2>2. /\ LocalsOK' /\ Others(w) /\ pc'[w] = Body(Cmd(w)) /\ me'[w] = row[w]
          /\ uname'[w] = {users[row[w]].name}
      BY <1>1, <1>5, <2>0, <2>1 DEF LocalsOK, Goto, Others, Statements
    <2>3. Token(w)' = Token(w) /\ Cmd(w)' = Cmd(w)
      BY <1>5 DEF Token, Cmd
    <2>4. Cmd(w) \in CommandsAt(Body(Cmd(w)))
      BY <1>2, <1>5 DEF Body, CommandsAt, AllCommands
    <2>5. Dispatched(w)'
      BY <2>2, <2>3, <2>4 DEF Dispatched, CommandsAt
    <2>6. Identified(w)'
      BY <1>1, <1>2, <2>1, <2>2, <2>3
         DEF Identified, Authenticated, Reads, tables
    <2>7. Permitted(w)'
      BY <2>1, <2>2 DEF Permitted
    <2> QED
      BY <1>1, <2>2, <2>5, <2>6, <2>7, ReadKeeps DEF WorkerInv
  <1> QED
    BY <1>3, <1>4, <1>5 DEF CheckUser

\* The steps that only end a request.
LEMMA EndKeeps ==
  ASSUME IInv, NEW w \in Workers, NoTables(w) \/ Send(w) \/ SendFails(w)
  PROVE  IInv'
PROOF
  <1>1. LocalsOK /\ Reads /\ main = "serving"
    BY Serving DEF IInv, TypeOK, NoTables, Send, SendFails, Statements
  <1>2. Drop(w) \/ Rest(w, "idle")
    BY DEF NoTables, Send, SendFails
  <1> QED
    BY <1>1, <1>2, DropEffect, RestEffect, ReadKeeps DEF Resting

-----------------------------------------------------------------------------
(* The queries of the handlers.                                            *)

\* The unchanged part of a worker's invariant behind a passed check.
LEMMA PassedGate ==
  ASSUME IInv, NEW w \in Workers, Reads, UNCHANGED locals,
         pc[w] \in Authenticated, pc'[w] \in Authenticated,
         Cmd(w) \in CommandsAt(pc'[w]), Permitted(w)'
  PROVE  WorkerInv(w)'
PROOF
  <1>1. /\ Token(w)' = Token(w) /\ Cmd(w)' = Cmd(w) /\ me'[w] = me[w]
        /\ uname'[w] = uname[w]
    BY DEF Token, Cmd, locals
  <1>2. Dispatched(w)'
    BY <1>1 DEF Dispatched, CommandsAt
  <1>3. Identified(w)'
    BY <1>1 DEF IInv, WorkerInv, Identified, Authenticated, Reads, tables
  <1> QED
    BY <1>2, <1>3 DEF WorkerInv

LEMMA OwnedKeeps ==
  ASSUME IInv, NEW w \in Workers, Owned(w)
  PROVE  IInv'
PROOF
  <1> DEFINE mine == req[w].chan \in { c \in DOMAIN channels :
                                        channels[c].owner = me[w] }
  <1>1. ASSUME mine, pc[w] = "owned", Reads, UNCHANGED locals, pc'[w] = "invitee"
        PROVE  WorkerInv(w)'
    <2>1. Cmd(w) = "invite_user"
      BY <1>1 DEF IInv, WorkerInv, Dispatched, CommandsAt, Statements
    <2>2. Permitted(w)'
      BY <1>1 DEF Permitted, Owns, Reads, tables, locals
    <2> QED
      BY <1>1, <2>1, <2>2, PassedGate DEF CommandsAt, Authenticated, Statements
  <1>2. Gate(w, "owned", mine, "invitee")
    BY DEF Owned
  <1>3. mine \in BOOLEAN
    OBVIOUS
  <1> HIDE DEF mine
  <1> QED
    BY <1>1, <1>2, <1>3, GateKeeps DEF Statements

LEMMA InviteeKeeps ==
  ASSUME IInv, NEW w \in Workers, Invitee(w)
  PROVE  IInv'
PROOF
  <1> DEFINE known == req[w].uid \in DOMAIN users
  <1>1. ASSUME known, pc[w] = "invitee", Reads, UNCHANGED locals, pc'[w] = "joined"
        PROVE  WorkerInv(w)'
    <2>1. Cmd(w) = "invite_user" /\ Owns(me[w], req[w].chan)
      BY <1>1 DEF IInv, WorkerInv, Dispatched, Permitted, CommandsAt, Statements
    <2>2. Permitted(w)'
      BY <1>1, <2>1 DEF Permitted, Owns, Reads, tables, locals
    <2> QED
      BY <1>1, <2>1, <2>2, PassedGate DEF CommandsAt, Authenticated, Statements
  <1>2. Gate(w, "invitee", known, "joined")
    BY DEF Invitee
  <1>3. known \in BOOLEAN
    OBVIOUS
  <1> HIDE DEF known
  <1> QED
    BY <1>1, <1>2, <1>3, GateKeeps DEF Statements

LEMMA JoinedKeeps ==
  ASSUME IInv, NEW w \in Workers, Joined(w)
  PROVE  IInv'
PROOF
  <1> DEFINE new == << req[w].uid, req[w].chan >> \notin members
  <1>1. ASSUME new, pc[w] = "joined", Reads, UNCHANGED locals, pc'[w] = "join"
        PROVE  WorkerInv(w)'
    <2>1. /\ Cmd(w) = "invite_user" /\ Owns(me[w], req[w].chan)
          /\ req[w].uid \in DOMAIN users
      BY <1>1 DEF IInv, WorkerInv, Dispatched, Permitted, CommandsAt, Statements
    <2>2. Permitted(w)'
      BY <1>1, <2>1 DEF Permitted, Owns, Reads, tables, locals, Cmd
    <2> QED
      BY <1>1, <2>1, <2>2, PassedGate DEF CommandsAt, Authenticated, Statements
  <1>2. Gate(w, "joined", new, "join")
    BY DEF Joined
  <1>3. new \in BOOLEAN
    OBVIOUS
  <1> HIDE DEF new
  <1> QED
    BY <1>1, <1>2, <1>3, GateKeeps DEF Statements

LEMMA AccessKeeps ==
  ASSUME IInv, NEW w \in Workers, Access(w)
  PROVE  IInv'
PROOF
  <1> DEFINE mem == << me[w], req[w].chan >> \in members
             next == IF Cmd(w) = "send_msg" THEN "post" ELSE "list"
  <1>1. ASSUME mem, pc[w] = "access", Reads, UNCHANGED locals, pc'[w] = next
        PROVE  WorkerInv(w)'
    <2>1. Cmd(w) \in {"send_msg", "channel_msg"}
      BY <1>1 DEF IInv, WorkerInv, Dispatched, CommandsAt, Statements
    <2>2. Permitted(w)'
      BY <1>1 DEF Permitted, Reads, tables, locals
    <2> QED
      BY <1>1, <2>1, <2>2, PassedGate DEF CommandsAt, Authenticated, Statements
  <1>2. Gate(w, "access", mem, next)
    BY DEF Access
  <1>3. mem \in BOOLEAN
    OBVIOUS
  <1> HIDE DEF mem
  <1> QED
    BY <1>1, <1>2, <1>3, GateKeeps DEF Statements

LEMMA TargetKeeps ==
  ASSUME IInv, NEW w \in Workers, Target(w)
  PROVE  IInv'
PROOF
  <1> DEFINE known == req[w].uid \in DOMAIN users
  <1>1. ASSUME known, pc[w] = "target", Reads, UNCHANGED locals, pc'[w] = "mutual"
        PROVE  WorkerInv(w)'
    <2>1. Cmd(w) = "user_details"
      BY <1>1 DEF IInv, WorkerInv, Dispatched, CommandsAt, Statements
    <2>2. Permitted(w)'
      BY <1>1 DEF Permitted
    <2> QED
      BY <1>1, <2>1, <2>2, PassedGate DEF CommandsAt, Authenticated, Statements
  <1>2. Gate(w, "target", known, "mutual")
    BY DEF Target
  <1>3. known \in BOOLEAN
    OBVIOUS
  <1> HIDE DEF known
  <1> QED
    BY <1>1, <1>2, <1>3, GateKeeps DEF Statements

\* The queries whose result is (or becomes part of) the reply.
LEMMA AnswerKeeps ==
  ASSUME IInv, NEW w \in Workers,
         ListMessages(w) \/ ListChannels(w) \/ ReadMembers(w) \/ ReadChannel(w)
           \/ Mutual(w)
  PROVE  IInv'
PROOF
  <1>1. LocalsOK /\ Reads /\ main = "serving" /\ WorkerInv(w)
    BY Serving DEF IInv, TypeOK, ListMessages, ListChannels, ReadMembers,
                   ReadChannel, Mutual, At
  <1>2. /\ \A u : ChannelsOf(u) \subseteq Nat \cup Keys
        /\ \A c : MembersOf(c) \subseteq Nat \cup Keys
    BY DEF IInv, TypeOK, TablesOK, ChannelsOf, MembersOf
  <1>3. ASSUME NEW r \in Replies, Reply(w, r)
        PROVE  IInv'
    BY <1>1, <1>3, ReplyEffect, ReadKeeps
  <1>4. CASE Refuse(w)
    BY <1>1, <1>4, RefuseEffect, ReadKeeps
  <1>5. CASE ListMessages(w)
    <2>1. DOMAIN messages \subseteq Nat \cup Keys
      BY DEF IInv, TypeOK, TablesOK
    <2> QED
      BY <1>3, <1>5, <2>1 DEF ListMessages, Okay, Replies
  <1>6. CASE ListChannels(w)
    BY <1>2, <1>3, <1>6 DEF ListChannels, Okay, Replies
  <1>7. CASE ReadMembers(w)
    <2>1. CASE /\ out' = [out EXCEPT ![w].data = MembersOf(req[w].chan)]
               /\ Goto(w, "channel")
               /\ UNCHANGED << req, me, uname, row, got >>
      <3>1. LocalsOK' /\ Others(w) /\ pc'[w] = "channel"
        BY <1>1, <1>2, <2>1 DEF LocalsOK, Goto, Others, Statements
      <3>2. Cmd(w) = "channel_details" /\ pc[w] = "members"
        BY <1>1, <1>7
           DEF WorkerInv, Dispatched, CommandsAt, Statements, ReadMembers, At
      <3>3. /\ Token(w)' = Token(w) /\ Cmd(w)' = Cmd(w) /\ me'[w] = me[w]
            /\ uname'[w] = uname[w]
        BY <2>1 DEF Token, Cmd
      <3>4. Dispatched(w)' /\ Permitted(w)'
        BY <3>1, <3>2, <3>3 DEF Dispatched, CommandsAt, Permitted
      <3>5. Identified(w)'
        BY <1>1, <3>1, <3>2, <3>3
           DEF WorkerInv, Identified, Authenticated, Statements, Reads, tables
      <3> QED
        BY <1>1, <3>1, <3>4, <3>5, ReadKeeps DEF WorkerInv
    <2> QED
      BY <1>4, <1>7, <2>1 DEF ReadMembers
  <1>8. CASE ReadChannel(w)
    <2>1. out[w].data \in SUBSET (Nat \cup Keys)
      BY <1>1 DEF LocalsOK
    <2> QED
      BY <1>3, <1>4, <1>8, <2>1 DEF ReadChannel, Okay, Replies
  <1>9. CASE Mutual(w)
    BY <1>2, <1>3, <1>9 DEF Mutual, Okay, Replies
  <1> QED
    BY <1>5, <1>6, <1>7, <1>8, <1>9

-----------------------------------------------------------------------------
(* The accounts.                                                           *)

LEMMA FindUserKeeps ==
  ASSUME IInv, NEW w \in Workers, FindUser(w)
  PROVE  IInv'
PROOF
  <1>1. /\ LocalsOK /\ Reads /\ main = "serving" /\ pc[w] = "find_user"
        /\ Cmd(w) = "login"
    BY Serving DEF IInv, TypeOK, FindUser, At, WorkerInv, Dispatched, CommandsAt,
                   Statements
  <1>2. CASE Refuse(w)
    BY <1>1, <1>2, RefuseEffect, ReadKeeps
  <1>3. ASSUME NEW u \in DOMAIN users, NEW key \in Generated,
               me' = [me EXCEPT ![w] = u], got' = [got EXCEPT ![w] = key],
               Goto(w, "session"), UNCHANGED << req, uname, row, out >>
        PROVE  IInv'
    <2>1. u \in Nat /\ key \in Keys /\ key \in Nat \cup Keys
      BY ConstantsAssumption DEF IInv, TypeOK, TablesOK, Generated
    <2>2. /\ LocalsOK' /\ Others(w)
          /\ pc'[w] = "session" /\ me'[w] = u /\ got'[w] = key
      BY <1>1, <1>3, <2>1 DEF LocalsOK, Goto, Others, Statements
    <2>3. Cmd(w)' = "login"
      BY <1>1, <1>3 DEF Cmd
    <2>4. Dispatched(w)' /\ Permitted(w)'
      BY <2>2, <2>3 DEF Dispatched, CommandsAt, Permitted, AllCommands
    <2>5. Identified(w)'
      BY <1>1, <2>1, <2>2 DEF Identified, Authenticated, Reads, tables
    <2> QED
      BY <1>1, <2>2, <2>4, <2>5, ReadKeeps DEF WorkerInv
  <1> QED
    BY <1>2, <1>3 DEF FindUser

LEMMA MintKeeps ==
  ASSUME IInv, NEW w \in Workers, Mint(w)
  PROVE  IInv'
PROOF
  <1>1. /\ LocalsOK /\ main = "serving" /\ pc[w] = "mint" /\ Cmd(w) = "login"
        /\ TablesOK /\ TablesInv /\ me[w] \in DOMAIN users /\ got[w] \in Keys
    BY Serving DEF IInv, TypeOK, Mint, At, WorkerInv, Dispatched, Identified,
                   CommandsAt, Statements
  <1>2. PICK until \in Expiries :
          sessions' = { s \in sessions : s.key # got[w] }
                        \cup {[key |-> got[w], user |-> me[w], until |-> until]}
    BY DEF Mint
  <1>3. /\ UNCHANGED << process, users, channels, members, messages >>
        /\ issued' = issued \cup { << got[w], me[w] >> }
    BY DEF Mint
  <1>4. LocalsOK' /\ Others(w) /\ WorkerInv(w)'
    <2>1. Okay({got[w]}) \in Replies
      BY <1>1 DEF LocalsOK, Okay, Replies
    <2> QED
      BY <1>1, <2>1, ReplyEffect DEF Mint
  <1>5. me[w] \in Nat /\ until \in Nat
    BY <1>1, ConstantsAssumption DEF LocalsOK
  <1>6. TablesOK' /\ issued' \subseteq Keys \X Nat
    BY <1>1, <1>2, <1>3, <1>5 DEF TablesOK, Sessions, IInv, TypeOK
  <1>7. TablesInv'
    BY <1>1, <1>2, <1>3 DEF TablesInv, SenderIsMember
  <1>8. Grows
    BY <1>3 DEF Grows
  <1> QED
    BY <1>1, <1>3, <1>4, <1>6, <1>7, <1>8, WriteKeeps

LEMMA RevokeKeeps ==
  ASSUME IInv, NEW w \in Workers, Revoke(w)
  PROVE  IInv'
PROOF
  <1>1. LocalsOK /\ main = "serving" /\ TablesOK /\ TablesInv
    BY Serving DEF IInv, TypeOK, Revoke, At
  <1>2. /\ sessions' \subseteq sessions
        /\ UNCHANGED << process, users, channels, members, messages, issued >>
    BY DEF Revoke
  <1>3. LocalsOK' /\ Others(w) /\ WorkerInv(w)'
    <2>1. Okay({}) \in Replies
      BY DEF Okay, Replies
    <2> QED
      BY <1>1, <2>1, ReplyEffect DEF Revoke
  <1>4. TablesOK' /\ issued' \subseteq Keys \X Nat
    BY <1>1, <1>2 DEF TablesOK, IInv, TypeOK
  <1>5. TablesInv' /\ Grows
    BY <1>1, <1>2 DEF TablesInv, SenderIsMember, Grows
  <1> QED
    BY <1>1, <1>2, <1>3, <1>4, <1>5, WriteKeeps

LEMMA AddUserKeeps ==
  ASSUME IInv, NEW w \in Workers, AddUser(w)
  PROVE  IInv'
PROOF
  <1>1. /\ LocalsOK /\ main = "serving" /\ TablesOK /\ TablesInv
        /\ Cmd(w) = "new_user"
    BY Serving DEF IInv, TypeOK, AddUser, At, WorkerInv, Dispatched, CommandsAt,
                   Statements
  <1>2. UNCHANGED << process, sessions, channels, members, messages, issued >>
    BY DEF AddUser
  <1>3. CASE Drop(w) /\ UNCHANGED users
    BY <1>1, <1>2, <1>3, DropEffect, ReadKeeps DEF Reads, tables
  <1>4. CASE /\ users' = Append(users, [name |-> req[w].name, pass |-> req[w].pass])
             /\ Reply(w, Okay({}))
    <2>1. LocalsOK' /\ Others(w) /\ WorkerInv(w)'
      <3>1. Okay({}) \in Replies
        BY DEF Okay, Replies
      <3> QED
        BY <1>1, <1>4, <3>1, ReplyEffect
    <2>2. req[w].name \in Names /\ req[w].pass \in Passwords
      <3>1. req[w] \in Requests
        BY <1>1 DEF LocalsOK, NoRequest, Cmd
      <3> QED
        BY <1>1, <3>1, RequestFields DEF Cmd
    <2>3. TablesOK' /\ issued' \subseteq Keys \X Nat
      BY <1>1, <1>2, <1>4, <2>2 DEF TablesOK, IInv, TypeOK
    <2>4. \A u \in DOMAIN users : u \in DOMAIN users' /\ users'[u] = users[u]
      BY <1>1, <1>4, <2>2 DEF TablesOK
    <2>5. TablesInv' /\ Grows
      BY <1>1, <1>2, <2>4 DEF TablesInv, SenderIsMember, Grows
    <2> QED
      BY <1>1, <1>2, <2>1, <2>3, <2>5, WriteKeeps
  <1> QED
    BY <1>3, <1>4 DEF AddUser

\* The row change_pass writes has the user's present name: nothing has changed
\* it since check_session_key read it.
NewRow(w) == [name |-> users[me[w]].name, pass |-> req[w].pass]

LEMMA WritesOwnName ==
  ASSUME IInv, NEW w \in Workers, SetPass(w)
  PROVE  /\ me[w] \in DOMAIN users
         /\ users' = [users EXCEPT ![me[w]] = NewRow(w)]
         /\ users' = [users EXCEPT ![me[w]].pass = req[w].pass]
PROOF
  <1>1. me[w] \in DOMAIN users /\ uname[w] = {users[me[w]].name}
    BY DEF SetPass, At, IInv, WorkerInv, Identified, Authenticated, Statements
  <1>2. users' = [users EXCEPT ![me[w]] = NewRow(w)]
    BY <1>1 DEF SetPass, NewRow
  <1>3. users[me[w]] \in [name : Names, pass : Passwords]
    BY <1>1, UserRow
  <1>4. NewRow(w) = [users[me[w]] EXCEPT !.pass = req[w].pass]
    BY <1>3 DEF NewRow
  <1> QED
    BY <1>1, <1>2, <1>4

LEMMA SetPassKeeps ==
  ASSUME IInv, NEW w \in Workers, SetPass(w)
  PROVE  IInv'
PROOF
  <1>1. /\ LocalsOK /\ main = "serving" /\ TablesOK /\ TablesInv
        /\ Cmd(w) = "change_pass"
    BY Serving DEF IInv, TypeOK, SetPass, At, WorkerInv, Dispatched, CommandsAt,
                   Statements
  <1>2. /\ UNCHANGED << process, sessions, channels, members, messages, issued >>
        /\ users' = [users EXCEPT ![me[w]] = NewRow(w)]
    BY WritesOwnName DEF SetPass
  <1>3. LocalsOK' /\ Others(w) /\ WorkerInv(w)'
    <2>1. Okay({}) \in Replies
      BY DEF Okay, Replies
    <2> QED
      BY <1>1, <2>1, ReplyEffect DEF SetPass
  <1>4. req[w].pass \in Passwords
    <2>1. req[w] \in Requests
      BY <1>1 DEF LocalsOK, NoRequest, Cmd
    <2> QED
      BY <1>1, <2>1, RequestFields DEF Cmd
  <1>5. TablesOK' /\ issued' \subseteq Keys \X Nat
    <2>1. users' \in Seq([name : Names, pass : Passwords])
      <3> DEFINE Row == [name : Names, pass : Passwords]
      <3>1. users \in Seq(Row)
        BY <1>1 DEF TablesOK
      <3>2. NewRow(w) \in Row
        BY <1>4, WritesOwnName, UserRow DEF NewRow
      <3> HIDE DEF Row
      <3>3. users \in [1 .. Len(users) -> Row] /\ Len(users) \in Nat
        BY <3>1, LenProperties
      <3>4. users' \in [1 .. Len(users) -> Row]
        BY <1>2, <3>2, <3>3
      <3>5. users' \in Seq(Row)
        BY <3>3, <3>4
      <3> QED
        BY <3>5 DEF Row
    <2> QED
      BY <1>1, <1>2, <2>1 DEF TablesOK, IInv, TypeOK
  <1>6. /\ DOMAIN users' = DOMAIN users
        /\ \A u \in DOMAIN users : users'[u].name = users[u].name
    BY <1>2 DEF NewRow
  <1>7. TablesInv' /\ Grows
    BY <1>1, <1>2, <1>6 DEF TablesInv, SenderIsMember, Grows
  <1> QED
    BY <1>1, <1>2, <1>3, <1>5, <1>7, WriteKeeps

-----------------------------------------------------------------------------
(* The channels and the messages.                                          *)

LEMMA AddChannelKeeps ==
  ASSUME IInv, NEW w \in Workers, AddChannel(w)
  PROVE  IInv'
PROOF
  <1>1. /\ LocalsOK /\ main = "serving" /\ TablesOK /\ TablesInv
        /\ pc[w] = "add_channel" /\ Cmd(w) = "new_channel"
        /\ me[w] \in DOMAIN users /\ << Token(w), me[w] >> \in issued
        /\ uname[w] = {users[me[w]].name}
    BY Serving DEF IInv, TypeOK, AddChannel, At, WorkerInv, Dispatched, CommandsAt,
                   Identified, Authenticated, Statements
  <1>2. UNCHANGED << process, users, sessions, members, messages, issued >>
    BY DEF AddChannel
  <1>3. CASE Drop(w) /\ UNCHANGED channels
    BY <1>1, <1>2, <1>3, DropEffect, ReadKeeps DEF Reads, tables
  <1>4. CASE /\ channels' = Append(channels, [name |-> req[w].name, owner |-> me[w]])
             /\ got' = [got EXCEPT ![w] = Len(channels) + 1]
             /\ Goto(w, "join")
             /\ UNCHANGED << req, me, uname, row, out >>
    <2>1. /\ LocalsOK' /\ Others(w)
          /\ pc'[w] = "join" /\ got'[w] = Len(channels) + 1
      <3>1. Len(channels) + 1 \in Nat
        BY <1>1 DEF TablesOK
      <3> QED
        BY <1>1, <1>4, <3>1 DEF LocalsOK, Goto, Others, Statements
    <2>2. /\ Token(w)' = Token(w) /\ Cmd(w)' = Cmd(w) /\ me'[w] = me[w]
          /\ uname'[w] = uname[w]
      BY <1>1, <1>4 DEF Token, Cmd
    <2>3. /\ DOMAIN channels' = (DOMAIN channels) \cup {Len(channels) + 1}
          /\ channels'[Len(channels) + 1] = [name |-> req[w].name, owner |-> me[w]]
          /\ \A c \in DOMAIN channels : channels'[c] = channels[c]
      BY <1>1, <1>4 DEF TablesOK
    <2>4. TablesOK' /\ issued' \subseteq Keys \X Nat
      <3>1. req[w] \in Requests
        BY <1>1 DEF LocalsOK, NoRequest, Cmd
      <3>2. req[w].name \in ChanNames
        BY <1>1, <3>1, RequestFields DEF Cmd
      <3>3. me[w] \in Nat
        BY <1>1 DEF LocalsOK
      <3> QED
        BY <1>1, <1>2, <1>4, <3>2, <3>3 DEF TablesOK, IInv, TypeOK
    <2>5. Dispatched(w)'
      BY <1>1, <2>1, <2>2 DEF Dispatched, CommandsAt
    <2>6. Identified(w)'
      BY <1>1, <1>2, <2>1, <2>2 DEF Identified, Authenticated
    <2>7. Permitted(w)'
      BY <1>1, <2>1, <2>2, <2>3 DEF Permitted, Owns
    <2>8. TablesInv'
      BY <1>1, <1>2, <2>3 DEF TablesInv, SenderIsMember
    <2>9. Grows
      BY <1>2, <2>3 DEF Grows
    <2> QED
      BY <1>1, <1>2, <2>1, <2>4, <2>5, <2>6, <2>7, <2>8, <2>9, WriteKeeps
         DEF WorkerInv
  <1> QED
    BY <1>3, <1>4 DEF AddChannel

\* The member a handler adds is a user, in a channel of the handler's user.
LEMMA NewMemberFacts ==
  ASSUME IInv, NEW w \in Workers, pc[w] = "join"
  PROVE  \E v \in DOMAIN users, c \in DOMAIN channels :
           /\ NewMember(w) = << v, c >>
           /\ channels[c].owner = me[w]
PROOF
  <1>1. /\ Cmd(w) \in {"new_channel", "invite_user"} /\ me[w] \in DOMAIN users
        /\ Permitted(w)
    BY DEF IInv, WorkerInv, Dispatched, CommandsAt, Identified, Authenticated,
           Statements
  <1>2. CASE Cmd(w) = "new_channel"
    BY <1>1, <1>2 DEF NewMember, Permitted, Owns
  <1>3. CASE Cmd(w) = "invite_user"
    BY <1>1, <1>3 DEF NewMember, Permitted, Owns
  <1> QED
    BY <1>1, <1>2, <1>3

LEMMA JoinKeeps ==
  ASSUME IInv, NEW w \in Workers, Join(w)
  PROVE  IInv'
PROOF
  <1>1. /\ LocalsOK /\ main = "serving" /\ TablesOK /\ TablesInv
        /\ pc[w] = "join"
    BY Serving DEF IInv, TypeOK, Join, At
  <1>2. /\ UNCHANGED << process, users, sessions, channels, messages, issued >>
        /\ members' = members \cup { NewMember(w) }
    BY DEF Join
  <1>3. LocalsOK' /\ Others(w) /\ WorkerInv(w)'
    <2>1. Okay(IF Cmd(w) = "new_channel" THEN {got[w]} ELSE {}) \in Replies
      BY <1>1 DEF LocalsOK, Okay, Replies
    <2> QED
      BY <1>1, <2>1, ReplyEffect DEF Join
  <1>4. NewMember(w) \in (DOMAIN users) \X (DOMAIN channels)
    BY <1>1, NewMemberFacts
  <1>5. TablesOK' /\ issued' \subseteq Keys \X Nat
    <2>1. DOMAIN users \subseteq Nat /\ DOMAIN channels \subseteq Nat
      BY <1>1 DEF TablesOK
    <2> QED
      BY <1>1, <1>2, <1>4, <2>1 DEF TablesOK, IInv, TypeOK
  <1>6. TablesInv' /\ Grows
    BY <1>1, <1>2, <1>4 DEF TablesInv, SenderIsMember, Grows
  <1> QED
    BY <1>1, <1>2, <1>3, <1>5, <1>6, WriteKeeps

LEMMA PostKeeps ==
  ASSUME IInv, NEW w \in Workers, Post(w)
  PROVE  IInv'
PROOF
  <1>1. /\ LocalsOK /\ main = "serving" /\ TablesOK /\ TablesInv
        /\ pc[w] = "post" /\ << me[w], req[w].chan >> \in members
    BY Serving DEF IInv, TypeOK, Post, At, WorkerInv, Permitted
  <1>2. /\ UNCHANGED << process, users, sessions, channels, members, issued >>
        /\ messages' =
             Append(messages, [sender |-> me[w], channel |-> req[w].chan])
    BY DEF Post
  <1>3. LocalsOK' /\ Others(w) /\ WorkerInv(w)'
    <2>1. Okay({}) \in Replies
      BY DEF Okay, Replies
    <2> QED
      BY <1>1, <2>1, ReplyEffect DEF Post
  <1>4. me[w] \in Nat /\ req[w].chan \in Nat
    BY <1>1 DEF TablesOK
  <1>5. TablesOK' /\ issued' \subseteq Keys \X Nat
    BY <1>1, <1>2, <1>4 DEF TablesOK, IInv, TypeOK
  <1>6. SenderIsMember'
    <2> DEFINE Row == [sender : Nat, channel : Nat]
               new == [sender |-> me[w], channel |-> req[w].chan]
    <2>1. messages \in Seq(Row) /\ new \in Row
      BY <1>1, <1>4 DEF TablesOK
    <2>2. new.sender = me[w] /\ new.channel = req[w].chan
      OBVIOUS
    <2>3. messages' = Append(messages, new)
      BY <1>2
    <2> HIDE DEF Row, new
    <2>4. /\ DOMAIN messages' = 1 .. Len(messages) + 1
          /\ DOMAIN messages = 1 .. Len(messages) /\ Len(messages) \in Nat
          /\ messages'[Len(messages) + 1] = new
          /\ \A i \in 1 .. Len(messages) : messages'[i] = messages[i]
      BY <2>1, <2>3, AppendProperties, LenProperties
    <2> QED
      BY <1>1, <1>2, <2>2, <2>4 DEF TablesInv, SenderIsMember
  <1>7. TablesInv' /\ Grows
    BY <1>1, <1>2, <1>6 DEF TablesInv, Grows
  <1> QED
    BY <1>1, <1>2, <1>3, <1>5, <1>7, WriteKeeps

-----------------------------------------------------------------------------
(* The main thread and the crash.                                          *)

LEMMA TablesOrdered == Len(SchemaOrder) \in Nat \ {0}
PROOF
  <1>1. SchemaOrder \in Seq(TableNames)
    BY ConstantsAssumption
  <1>2. "user" \in TableNames
    BY DEF TableNames
  <1>3. PICK i \in DOMAIN SchemaOrder : SchemaOrder[i] = "user"
    BY <1>2, ConstantsAssumption
  <1> QED
    BY <1>1, <1>3, LenProperties

LEMMA InitHolds == Init => IInv
PROOF
  <1> SUFFICES ASSUME Init PROVE IInv
    OBVIOUS
  <1>1. TypeOK
    <2>1. NoReply \in Replies
      BY DEF NoReply, Replies
    <2>2. TablesOK
      BY DEF Init, TablesOK
    <2>3. LocalsOK
      BY <2>1 DEF Init, LocalsOK, Replies, Resting
    <2> QED
      BY <2>2, <2>3, ConstantsAssumption, TablesOrdered DEF Init, TypeOK
  <1>2. TablesInv
    BY DEF Init, TablesInv, SenderIsMember
  <1>3. BootInv
    BY DEF Init, BootInv
  <1>4. \A w \in Workers : WorkerInv(w)
    BY DEF Init, WorkerInv, Dispatched, Identified, Permitted, Statements,
           Authenticated
  <1> QED
    BY <1>1, <1>2, <1>3, <1>4 DEF IInv

\* While no worker runs, its part of the invariant says nothing.
LEMMA BootKeeps ==
  ASSUME IInv, MainThread
  PROVE  IInv'
PROOF
  <1> USE DEF IInv, TypeOK
  <1>1. main # "serving" /\ \A w \in Workers : pc[w] = "closed"
    BY DEF MainThread, Boot, BootSchema, BootUser, BootChannel, BootMember, BootInv
  <1>2. UNCHANGED << pc, locals, crashes, issued, sessions, messages >>
    BY DEF MainThread, Boot, BootSchema, BootUser, BootChannel, BootMember, tables
  <1>3. LocalsOK' /\ \A w \in Workers : pc'[w] = "closed"
    BY <1>1, <1>2 DEF LocalsOK, locals
  <1>4. \A w \in Workers : WorkerInv(w)'
    BY <1>3, AtRest DEF Resting
  <1>5. ASSUME file' \in {"absent", "there"},
               main' \in {"down", "schema", "user", "channel", "member", "serving"},
               created' \in 0 .. Len(SchemaOrder), TablesOK', TablesInv', BootInv'
        PROVE  IInv'
    BY <1>2, <1>3, <1>4, <1>5
  <1>6. CASE Boot \/ BootSchema
    <2>1. UNCHANGED << users, channels, members >>
      BY <1>6 DEF Boot, BootSchema, tables
    <2>2. TablesOK' /\ TablesInv'
      BY <1>2, <2>1 DEF TablesOK, TablesInv, SenderIsMember
    <2>3. Len(SchemaOrder) \in Nat \ {0}
      BY TablesOrdered
    <2>4. BootInv' /\ created' \in 0 .. Len(SchemaOrder)
      BY <1>1, <1>2, <1>3, <1>6, <2>1, <2>3 DEF BootInv, Boot, BootSchema
    <2> QED
      BY <1>5, <1>6, <2>2, <2>4 DEF Boot, BootSchema
  <1>7. CASE BootUser
    <2> DEFINE Row == [name : Names, pass : Passwords]
               new == [name |-> Master, pass |-> MasterPass]
    <2>1. users = << >> /\ channels = << >> /\ issued = {} /\ main' = "channel"
      BY <1>7 DEF BootUser, BootInv
    <2>2. new \in Row /\ users \in Seq(Row) /\ users' = Append(users, new)
      BY <1>7, ConstantsAssumption DEF BootUser, TablesOK
    <2>3. users' \in Seq(Row) /\ Len(users') = 1
      BY <2>1, <2>2
    <2>4. \A u \in DOMAIN users : u \in DOMAIN users'
      BY <2>1
    <2>5. UNCHANGED << file, created, channels, members >>
      BY <1>7 DEF BootUser
    <2>6. TablesOK' /\ TablesInv'
      BY <1>2, <2>3, <2>4, <2>5 DEF TablesOK, TablesInv, SenderIsMember
    <2>7. BootInv'
      BY <1>2, <1>3, <1>7, <2>1, <2>3, <2>5 DEF BootInv, BootUser
    <2> QED
      BY <1>5, <2>1, <2>5, <2>6, <2>7
  <1>8. CASE BootChannel
    <2> DEFINE Row == [name : ChanNames, owner : Nat]
               new == [name |-> General, owner |-> Len(users)]
    <2>1. Len(users) = 1 /\ channels = << >> /\ issued = {} /\ main' = "member"
      BY <1>8 DEF BootChannel, BootInv
    <2>2. new \in Row /\ channels \in Seq(Row) /\ channels' = Append(channels, new)
      BY <1>8, <2>1, ConstantsAssumption DEF BootChannel, TablesOK
    <2>3. /\ channels' \in Seq(Row) /\ Len(channels') = 1
          /\ DOMAIN channels' = {1} /\ channels'[1].owner = 1
      BY <2>1, <2>2
    <2>4. UNCHANGED << file, created, users, members >> /\ 1 \in DOMAIN users
      BY <1>8, <2>1 DEF BootChannel, TablesOK
    <2>5. members' \subseteq (DOMAIN users') \X (DOMAIN channels')
      BY <2>1, <2>4 DEF TablesInv
    <2>6. TablesOK' /\ TablesInv'
      BY <1>2, <2>3, <2>4, <2>5 DEF TablesOK, TablesInv, SenderIsMember
    <2>7. BootInv'
      BY <1>2, <1>3, <1>8, <2>1, <2>3, <2>4 DEF BootInv, BootChannel
    <2> QED
      BY <1>5, <2>1, <2>4, <2>6, <2>7
  <1>9. CASE BootMember
    <2>1. /\ Len(users) = 1 /\ Len(channels) = 1 /\ main' = "serving"
          /\ UNCHANGED << file, created, users, channels >>
          /\ members' = members \cup { << 1, 1 >> }
      BY <1>9 DEF BootMember, BootInv
    <2>2. 1 \in DOMAIN users /\ 1 \in DOMAIN channels
      BY <2>1 DEF TablesOK
    <2>3. TablesOK' /\ TablesInv'
      BY <1>2, <2>1, <2>2 DEF TablesOK, TablesInv, SenderIsMember
    <2>4. BootInv'
      BY <1>1, <1>3, <1>9, <2>1 DEF BootInv, BootMember
    <2> QED
      BY <1>5, <2>1, <2>3, <2>4
  <1> QED
    BY <1>6, <1>7, <1>8, <1>9 DEF MainThread

\* A crash forgets what the workers knew and keeps every table.
LEMMA CrashKeeps ==
  ASSUME IInv, Crash
  PROVE  IInv'
PROOF
  <1> USE DEF IInv, TypeOK
  <1>1. UNCHANGED << file, created, tables, issued >> /\ main' = "down"
    BY DEF Crash
  <1>2. crashes' \in 0 .. MaxCrashes
    BY ConstantsAssumption DEF Crash
  <1>3. TablesOK' /\ TablesInv'
    BY <1>1 DEF TablesOK, TablesInv, SenderIsMember, tables
  <1>4. LocalsOK' /\ \A w \in Workers : pc'[w] = "closed"
    <2>1. NoReply \in Replies
      BY DEF NoReply, Replies
    <2> QED
      BY <2>1 DEF Crash, Rested, LocalsOK, Resting, Replies
  <1>5. \A w \in Workers : WorkerInv(w)'
    BY <1>4, AtRest DEF Resting
  <1>6. BootInv'
    BY <1>1, <1>4 DEF BootInv, Crash, tables
  <1> QED
    BY <1>1, <1>2, <1>3, <1>4, <1>5, <1>6

LEMMA StepKeeps ==
  ASSUME IInv, NEW w \in Workers, Step(w)
  PROVE  IInv'
PROOF
  <1>1. CASE Account(w)
    BY <1>1, FindUserKeeps, MintKeeps, RevokeKeeps, AddUserKeeps, SetPassKeeps
       DEF Account
  <1>2. CASE Membership(w)
    BY <1>2, AddChannelKeeps, OwnedKeeps, InviteeKeeps, JoinedKeeps, JoinKeeps
       DEF Membership
  <1>3. CASE Message(w)
    BY <1>3, AccessKeeps, PostKeeps, AnswerKeeps DEF Message
  <1>4. CASE Query(w)
    BY <1>4, AnswerKeeps, TargetKeeps DEF Query
  <1> QED
    BY <1>1, <1>2, <1>3, <1>4, CheckSessionKeeps, CheckUserKeeps, EndKeeps DEF Step

LEMMA NextKeeps ==
  ASSUME IInv, [Next]_vars
  PROVE  IInv'
PROOF
  <1>1. CASE MainThread \/ Crash
    BY <1>1, BootKeeps, CrashKeeps
  <1>2. ASSUME NEW w \in Workers, Step(w) \/ Client(w)
        PROVE  IInv'
    BY <1>2, StepKeeps, ClientKeeps
  <1>3. CASE UNCHANGED vars
    BY <1>3 DEF vars, IInv, TypeOK, TablesOK, LocalsOK, TablesInv, SenderIsMember,
                BootInv, WorkerInv, Dispatched, Identified, Permitted, Owns, Cmd,
                Token
  <1> QED
    BY <1>1, <1>2, <1>3 DEF Next

-----------------------------------------------------------------------------
(* The theorems.                                                           *)

\* Whatever the threads, the clients and the crashes do, the inductive
\* invariant holds: no statement of one handler takes back what an earlier
\* statement of another has read.
THEOREM Invariance == Spec => []IInv
PROOF
  <1>1. Init => IInv
    BY InitHolds
  <1>2. IInv /\ [Next]_vars => IInv'
    BY NextKeeps
  <1> QED
    BY <1>1, <1>2, PTL DEF Spec

\* Every variable of the server stays within its type.
THEOREM TypeCorrect == Spec => []TypeOK
PROOF
  <1>1. IInv => TypeOK
    BY DEF IInv
  <1> QED
    BY <1>1, Invariance, PTL

\* A request is served only as a user the token it carries was issued to,
\* at every statement of every handler.
THEOREM NoOtherUser == Spec => []ServedAsTokenHolder
PROOF
  <1>1. IInv => ServedAsTokenHolder
    BY DEF IInv, WorkerInv, Identified, ServedAsTokenHolder
  <1> QED
    BY <1>1, Invariance, PTL

\* No reference dangles: the .value() of check_session_key never throws, and
\* every owner, member and session names a user that exists.
THEOREM NoDanglingReference == Spec => []References
PROOF
  <1>1. IInv => References
    BY DEF IInv, TablesInv, WorkerInv, Identified, References
  <1> QED
    BY <1>1, Invariance, PTL

\* Only members write: every stored message was sent by a member of its
\* channel, although send_msg checks and inserts in two statements.
THEOREM OnlyMembersWrite == Spec => []SenderIsMember
PROOF
  <1>1. IInv => SenderIsMember
    BY DEF IInv, TablesInv
  <1> QED
    BY <1>1, Invariance, PTL

-----------------------------------------------------------------------------
(* The refinement of ChatLedger.                                           *)

\* A user whose token a handler has checked can act in the ledger.
LEMMA ServedCanAct ==
  ASSUME IInv, NEW w \in Workers, pc[w] \in Authenticated
  PROVE  me[w] \in DOMAIN users /\ Ledger!Acting(me[w])
PROOF
  <1>1. me[w] \in DOMAIN users /\ << Token(w), me[w] >> \in issued
    BY DEF IInv, WorkerInv, Identified
  <1>2. Token(w) \in Keys
    BY <1>1 DEF IInv, TypeOK
  <1> QED
    BY <1>1, <1>2 DEF Ledger!Acting

LEMMA BootRefines ==
  ASSUME IInv, MainThread
  PROVE  [Ledger!Next]_(Ledger!ledger)
PROOF
  <1>1. CASE Boot \/ BootSchema
    BY <1>1 DEF Boot, BootSchema, tables, Ledger!ledger
  <1>2. CASE BootUser
    <2>1. users = << >>
      BY <1>2 DEF BootUser, IInv, BootInv
    <2>2. Ledger!SignUp(Master, MasterPass)
      BY <1>2, <2>1 DEF BootUser, Ledger!SignUp
    <2> QED
      BY <2>2, ConstantsAssumption DEF Ledger!Next
  <1>3. CASE BootChannel
    <2>1. Len(users) = 1 /\ channels = << >> /\ issued = {}
      BY <1>3 DEF BootChannel, IInv, BootInv
    <2>2. 1 \in DOMAIN users
      BY <2>1 DEF IInv, TypeOK, TablesOK
    <2>3. Ledger!Open(1, General)
      BY <1>3, <2>1, <2>2 DEF BootChannel, Ledger!Open, Ledger!Acting
    <2> QED
      BY <2>2, <2>3, ConstantsAssumption DEF Ledger!Next
  <1>4. CASE BootMember
    <2>1. /\ Len(users) = 1 /\ Len(channels) = 1 /\ channels[1].owner = 1
          /\ issued = {}
      BY <1>4 DEF BootMember, IInv, BootInv
    <2>2. 1 \in DOMAIN users /\ 1 \in DOMAIN channels
      BY <2>1 DEF IInv, TypeOK, TablesOK
    <2>3. Ledger!Admit(1, 1, 1)
      BY <1>4, <2>1, <2>2 DEF BootMember, Ledger!Admit, Ledger!Acting
    <2> QED
      BY <2>2, <2>3 DEF Ledger!Next
  <1> QED
    BY <1>1, <1>2, <1>3, <1>4 DEF MainThread

LEMMA StepRefines ==
  ASSUME IInv, NEW w \in Workers, Step(w) \/ Client(w)
  PROVE  [Ledger!Next]_(Ledger!ledger)
PROOF
  <1>1. ASSUME Reads PROVE UNCHANGED Ledger!ledger
    BY <1>1 DEF Reads, tables, Ledger!ledger
  <1>2. CASE Client(w)
    BY <1>1, <1>2 DEF Client, Accept, Receive, Disconnect, Reads
  <1>3. CASE CheckSession(w) \/ CheckUser(w) \/ NoTables(w) \/ Send(w) \/ SendFails(w)
    BY <1>1, <1>3 DEF CheckSession, CheckUser, NoTables, Send, SendFails
  <1>4. CASE Query(w)
    BY <1>1, <1>4 DEF Query, ListChannels, ReadMembers, ReadChannel, Target, Mutual,
                      Gate
  <1>5. CASE FindUser(w) \/ Owned(w) \/ Invitee(w) \/ Joined(w) \/ Access(w)
               \/ ListMessages(w)
    BY <1>1, <1>5 DEF FindUser, Owned, Invitee, Joined, Access, ListMessages, Gate
  <1>6. CASE Mint(w)
    <2>1. me[w] \in DOMAIN users /\ got[w] \in Keys
      BY <1>6 DEF Mint, At, IInv, WorkerInv, Dispatched, Identified, CommandsAt,
                  Statements
    <2>2. Ledger!LogIn(me[w], got[w])
      BY <1>6, <2>1 DEF Mint, Ledger!LogIn
    <2> QED
      BY <2>1, <2>2 DEF Ledger!Next
  <1>7. CASE Revoke(w)
    BY <1>7 DEF Revoke, Ledger!ledger
  <1>8. CASE AddUser(w)
    <2>1. CASE UNCHANGED users
      BY <1>8, <2>1 DEF AddUser, Ledger!ledger
    <2>2. CASE /\ ~Taken(users, req[w].name)
               /\ users' = Append(users, [name |-> req[w].name, pass |-> req[w].pass])
      <3>1. req[w].name \in Names /\ req[w].pass \in Passwords
        <4>1. Cmd(w) = "new_user"
          BY <1>8 DEF AddUser, At, IInv, WorkerInv, Dispatched, CommandsAt, Statements
        <4>2. req[w] \in Requests
          BY <4>1 DEF IInv, TypeOK, LocalsOK, NoRequest, Cmd
        <4> QED
          BY <4>1, <4>2, RequestFields DEF Cmd
      <3>2. Ledger!SignUp(req[w].name, req[w].pass)
        BY <1>8, <2>2 DEF AddUser, Taken, Ledger!SignUp
      <3> QED
        BY <3>1, <3>2 DEF Ledger!Next
    <2> QED
      BY <1>8, <2>1, <2>2 DEF AddUser
  <1>9. CASE SetPass(w)
    <2>1. me[w] \in DOMAIN users /\ Ledger!Acting(me[w])
      BY <1>9, ServedCanAct DEF SetPass, At, Authenticated, Statements
    <2>2. req[w].pass \in Passwords
      <3>1. Cmd(w) = "change_pass"
        BY <1>9 DEF SetPass, At, IInv, WorkerInv, Dispatched, CommandsAt, Statements
      <3>2. req[w] \in Requests
        BY <3>1 DEF IInv, TypeOK, LocalsOK, NoRequest, Cmd
      <3> QED
        BY <3>1, <3>2, RequestFields DEF Cmd
    <2>3. Ledger!SetPassword(me[w], req[w].pass)
      BY <1>9, <2>1, WritesOwnName DEF SetPass, Ledger!SetPassword
    <2> QED
      BY <2>1, <2>2, <2>3 DEF Ledger!Next
  <1>10. CASE AddChannel(w)
    <2>1. CASE UNCHANGED channels
      BY <1>10, <2>1 DEF AddChannel, Ledger!ledger
    <2>2. CASE /\ ~Taken(channels, req[w].name)
               /\ channels' =
                    Append(channels, [name |-> req[w].name, owner |-> me[w]])
      <3>1. me[w] \in DOMAIN users /\ Ledger!Acting(me[w])
        BY <1>10, ServedCanAct DEF AddChannel, At, Authenticated, Statements
      <3>2. req[w].name \in ChanNames
        <4>1. Cmd(w) = "new_channel"
          BY <1>10
             DEF AddChannel, At, IInv, WorkerInv, Dispatched, CommandsAt, Statements
        <4>2. req[w] \in Requests
          BY <4>1 DEF IInv, TypeOK, LocalsOK, NoRequest, Cmd
        <4> QED
          BY <4>1, <4>2, RequestFields DEF Cmd
      <3>3. Ledger!Open(me[w], req[w].name)
        BY <1>10, <2>2, <3>1 DEF AddChannel, Taken, Ledger!Open
      <3> QED
        BY <3>1, <3>2, <3>3 DEF Ledger!Next
    <2> QED
      BY <1>10, <2>1, <2>2 DEF AddChannel
  <1>11. CASE Join(w)
    <2>1. me[w] \in DOMAIN users /\ Ledger!Acting(me[w])
      BY <1>11, ServedCanAct DEF Join, At, Authenticated, Statements
    <2>2. PICK v \in DOMAIN users, c \in DOMAIN channels :
            NewMember(w) = << v, c >> /\ channels[c].owner = me[w]
      BY <1>11, NewMemberFacts DEF Join, At
    <2>3. Ledger!Admit(me[w], v, c)
      BY <1>11, <2>1, <2>2 DEF Join, Ledger!Admit
    <2> QED
      BY <2>1, <2>3 DEF Ledger!Next
  <1>12. CASE Post(w)
    <2>1. me[w] \in DOMAIN users /\ Ledger!Acting(me[w])
      BY <1>12, ServedCanAct DEF Post, At, Authenticated, Statements
    <2>2. /\ << me[w], req[w].chan >> \in members
          /\ req[w].chan \in DOMAIN channels
      BY <1>12 DEF Post, At, IInv, WorkerInv, Permitted, TablesInv
    <2>3. Ledger!Write(me[w], req[w].chan)
      BY <1>12, <2>1, <2>2 DEF Post, Ledger!Write
    <2> QED
      BY <2>1, <2>2, <2>3 DEF Ledger!Next
  <1> QED
    BY <1>2, <1>3, <1>4, <1>5, <1>6, <1>7, <1>8, <1>9, <1>10, <1>11, <1>12
       DEF Step, Account, Membership, Message

\* The server implements the ledger: every step of every thread is one act
\* the ledger permits the acting user, or leaves the ledger alone.
THEOREM Refinement == Spec => ImplementsLedger
PROOF
  <1>1. Init => Ledger!Init
    BY DEF Init, Ledger!Init
  <1>2. IInv /\ [Next]_vars => [Ledger!Next]_(Ledger!ledger)
    <2> SUFFICES ASSUME IInv, [Next]_vars
                 PROVE  [Ledger!Next]_(Ledger!ledger)
      OBVIOUS
    <2>1. CASE MainThread
      BY <2>1, BootRefines
    <2>2. CASE Crash
      BY <2>2 DEF Crash, tables, Ledger!ledger
    <2>3. ASSUME NEW w \in Workers, Step(w) \/ Client(w)
          PROVE  [Ledger!Next]_(Ledger!ledger)
      BY <2>3, StepRefines
    <2>4. CASE UNCHANGED vars
      BY <2>4 DEF vars, Ledger!ledger
    <2> QED
      BY <2>1, <2>2, <2>3, <2>4 DEF Next
  <1> QED
    BY <1>1, <1>2, Invariance, PTL DEF Spec, ImplementsLedger, Ledger!Spec

=============================================================================
