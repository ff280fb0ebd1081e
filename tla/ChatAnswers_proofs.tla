------------------------- MODULE ChatAnswers_proofs -------------------------
(***************************************************************************)
(* What the server answers is so, for every number of workers, every set   *)
(* of names, keys and commands, and any number of crashes.                 *)
(*                                                                         *)
(* A handler answers from what it has read or written some statements ago. *)
(* AnswersInv of ChatInvariant says what each position knows; no table     *)
(* takes back what an answer rests on (Keeps), so the workers that do not  *)
(* move keep their part (StillKnows) and what is left of a step is the     *)
(* acting worker's own new position (ActorKnows).                          *)
(***************************************************************************)
EXTENDS ChatServer_proofs

-----------------------------------------------------------------------------
(* What the tables keep.                                                   *)

\* No table takes back what a handler has read or written, sessions and
\* passwords excepted.
Keeps ==
  /\ \A u \in DOMAIN users :
       u \in DOMAIN users' /\ users'[u].name = users[u].name
  /\ \A c \in DOMAIN channels :
       c \in DOMAIN channels' /\ channels'[c] = channels[c]
  /\ \A i \in DOMAIN messages :
       i \in DOMAIN messages' /\ messages'[i] = messages[i]
  /\ members \subseteq members'
  /\ issued \subseteq issued'

LEMMA AppendKeeps ==
  ASSUME NEW S, NEW s \in Seq(S), NEW e \in S
  PROVE  /\ \A i \in DOMAIN s : i \in DOMAIN Append(s, e) /\ Append(s, e)[i] = s[i]
         /\ Len(s) + 1 \in DOMAIN Append(s, e) /\ Append(s, e)[Len(s) + 1] = e
PROOF
  BY AppendProperties, LenProperties

\* The row a statement of worker w appends has the table's type.
LEMMA NewRows ==
  ASSUME IInv, NEW w \in Workers
  PROVE  /\ pc[w] = "add_user" =>
              [name |-> req[w].name, pass |-> req[w].pass]
                \in [name : Names, pass : Passwords]
         /\ pc[w] = "add_channel" =>
              [name |-> req[w].name, owner |-> me[w]]
                \in [name : ChanNames, owner : Nat]
         /\ pc[w] = "post" =>
              [sender |-> me[w], channel |-> req[w].chan]
                \in [sender : Nat, channel : Nat]
PROOF
  <1>1. me[w] \in Nat /\ req[w] \in Requests \cup {NoRequest}
    BY DEF IInv, TypeOK, LocalsOK
  <1>2. ASSUME pc[w] \in {"add_user", "add_channel", "post"}
        PROVE  /\ Cmd(w) \in CommandsAt(pc[w]) /\ req[w] \in Requests
    <2>1. Cmd(w) \in CommandsAt(pc[w])
      BY <1>2 DEF IInv, WorkerInv, Dispatched, Statements
    <2>2. Cmd(w) \in {"new_user", "new_channel", "send_msg"}
      BY <1>2, <2>1 DEF CommandsAt
    <2> QED
      BY <1>1, <2>1, <2>2 DEF Cmd, NoRequest
  <1>3. CASE pc[w] = "add_user"
    BY <1>2, <1>3, RequestFields DEF Cmd, CommandsAt
  <1>4. CASE pc[w] = "add_channel"
    BY <1>1, <1>2, <1>4, RequestFields DEF Cmd, CommandsAt
  <1>5. CASE pc[w] = "post"
    BY <1>1, <1>2, <1>5, RequestFields DEF Cmd, CommandsAt
  <1> QED
    BY <1>3, <1>4, <1>5

LEMMA TablesKeep ==
  ASSUME IInv, Next
  PROVE  Keeps
PROOF
  <1> DEFINE User == [name : Names, pass : Passwords]
             Channel == [name : ChanNames, owner : Nat]
             Stored == [sender : Nat, channel : Nat]
  <1>1. users \in Seq(User) /\ channels \in Seq(Channel) /\ messages \in Seq(Stored)
    BY DEF IInv, TypeOK, TablesOK
  <1>2. ASSUME UNCHANGED tables, UNCHANGED issued PROVE Keeps
    BY <1>2 DEF tables, Keeps
  <1>3. ASSUME NEW e \in User, users' = Append(users, e),
               UNCHANGED << channels, members, messages, issued >>
        PROVE  Keeps
    BY <1>1, <1>3, AppendKeeps DEF Keeps
  <1>4. ASSUME NEW e \in Channel, channels' = Append(channels, e),
               UNCHANGED << users, members, messages, issued >>
        PROVE  Keeps
    BY <1>1, <1>4, AppendKeeps DEF Keeps
  <1>5. CASE Boot \/ BootSchema \/ Crash
    BY <1>2, <1>5 DEF Boot, BootSchema, Crash
  <1>6. CASE BootUser
    BY <1>3, <1>6, ConstantsAssumption DEF BootUser
  <1>7. CASE BootChannel
    <2>1. Len(users) \in Nat
      BY <1>1, LenProperties
    <2> QED
      BY <1>4, <1>7, <2>1, ConstantsAssumption DEF BootChannel
  <1>8. CASE BootMember
    BY <1>8 DEF BootMember, Keeps
  <1>9. ASSUME NEW w \in Workers, Step(w) \/ Client(w)
        PROVE  Keeps
    <2>1. CASE Reads
      BY <1>2, <2>1 DEF Reads
    <2>2. CASE Client(w)
      BY <1>2, <2>1, <2>2 DEF Client, Accept, Receive, Disconnect
    <2>3. CASE Query(w) \/ CheckSession(w) \/ CheckUser(w) \/ NoTables(w)
                 \/ Send(w) \/ SendFails(w)
      BY <2>1, <2>3 DEF Query, ListChannels, ReadMembers, ReadChannel, Target,
           Mutual, Gate, CheckSession, CheckUser, NoTables, Send, SendFails
    <2>4. CASE FindUser(w) \/ Owned(w) \/ Invitee(w) \/ Joined(w) \/ Access(w)
                 \/ ListMessages(w)
      BY <2>1, <2>4 DEF FindUser, Owned, Invitee, Joined, Access, ListMessages, Gate
    <2>5. CASE Mint(w) \/ Revoke(w) \/ Join(w)
      BY <2>5 DEF Mint, Revoke, Join, Keeps
    <2>6. CASE AddUser(w)
      <3>1. CASE UNCHANGED users
        BY <2>6, <3>1 DEF AddUser, Keeps
      <3>2. CASE ~UNCHANGED users
        BY <1>3, <2>6, <3>2, NewRows DEF AddUser, At
      <3> QED
        BY <3>1, <3>2
    <2>7. CASE SetPass(w)
      <3>1. UNCHANGED << channels, members, messages, issued >>
        BY <2>7 DEF SetPass
      <3>2. users' = [users EXCEPT ![me[w]] = NewRow(w)]
        BY <2>7, WritesOwnName
      <3>3. \A u \in DOMAIN users :
              u \in DOMAIN users' /\ users'[u].name = users[u].name
        BY <3>2 DEF NewRow
      <3> QED
        BY <3>1, <3>3 DEF Keeps
    <2>8. CASE AddChannel(w)
      <3>1. CASE UNCHANGED channels
        BY <2>8, <3>1 DEF AddChannel, Keeps
      <3>2. CASE ~UNCHANGED channels
        BY <1>4, <2>8, <3>2, NewRows DEF AddChannel, At
      <3> QED
        BY <3>1, <3>2
    <2>9. CASE Post(w)
      <3>1. UNCHANGED << users, channels, members, issued >>
        BY <2>9 DEF Post
      <3>2. /\ [sender |-> me[w], channel |-> req[w].chan] \in Stored
            /\ messages' =
                 Append(messages, [sender |-> me[w], channel |-> req[w].chan])
        BY <2>9, NewRows DEF Post, At
      <3> QED
        BY <1>1, <3>1, <3>2, AppendKeeps DEF Keeps
    <2> QED
      BY <1>9, <2>2, <2>3, <2>4, <2>5, <2>6, <2>7, <2>8, <2>9
         DEF Step, Account, Membership, Message
  <1> QED
    BY <1>5, <1>6, <1>7, <1>8, <1>9 DEF Next, MainThread

-----------------------------------------------------------------------------
(* The workers that do not move.                                           *)

Knows(w) == Learnt(w) /\ Told(w)

\* Where a handler has learnt nothing an answer rests on.
Blank == (Statements \ {"session", "user", "mint", "join", "list", "channel"})
           \cup Resting

Stays(w) == /\ pc'[w] = pc[w] /\ req'[w] = req[w] /\ me'[w] = me[w]
            /\ got'[w] = got[w] /\ out'[w] = out[w]

LEMMA StillKnows ==
  ASSUME IInv, NEW w \in Workers, Knows(w), Keeps, Stays(w)
  PROVE  Knows(w)'
PROOF
  <1>1. Cmd(w)' = Cmd(w)
    BY DEF Stays, Cmd
  <1>2. Learnt(w)'
    <2>1. ASSUME pc[w] \in {"session", "user", "mint"}, Cmd(w) = "login"
          PROVE  users'[me[w]].name = req[w].name
      BY <2>1 DEF IInv, WorkerInv, Identified, Keeps, Knows, Learnt
    <2>2. ASSUME pc[w] = "join", Cmd(w) = "new_channel"
          PROVE  channels'[got[w]] = [name |-> req[w].name, owner |-> me[w]]
      BY <2>2 DEF IInv, WorkerInv, Permitted, Owns, Keeps, Knows, Learnt
    <2> QED
      BY <1>1, <2>1, <2>2 DEF Stays, Keeps, Knows, Learnt
  <1>3. Told(w)'
    <2>1. CASE ~(pc[w] = "reply" /\ out[w].status = "ok")
      BY <2>1 DEF Stays, Told
    <2>2. CASE pc[w] = "reply" /\ out[w].status = "ok" /\ Cmd(w) = "new_user"
      BY <1>1, <2>2 DEF Stays, Keeps, Knows, Told
    <2>3. CASE pc[w] = "reply" /\ out[w].status = "ok" /\ Cmd(w) = "login"
      BY <1>1, <2>3 DEF Stays, Keeps, Knows, Told
    <2>4. CASE pc[w] = "reply" /\ out[w].status = "ok" /\ Cmd(w) = "new_channel"
      BY <1>1, <2>4 DEF Stays, Keeps, Knows, Told
    <2>5. CASE pc[w] = "reply" /\ out[w].status = "ok" /\ Cmd(w) = "send_msg"
      BY <1>1, <2>5 DEF Stays, Keeps, Knows, Told
    <2>6. CASE pc[w] = "reply" /\ out[w].status = "ok" /\ Cmd(w) = "channel_msg"
      BY <1>1, <2>6 DEF Stays, Keeps, Knows, Told
    <2>7. CASE /\ pc[w] = "reply" /\ out[w].status = "ok"
               /\ Cmd(w) \notin {"new_user", "login", "new_channel", "send_msg",
                                 "channel_msg"}
      BY <1>1, <2>7 DEF Stays, Keeps, Knows, Told
    <2> QED
      BY <2>1, <2>2, <2>3, <2>4, <2>5, <2>6, <2>7
  <1> QED
    BY <1>2, <1>3 DEF Knows

LEMMA BlankKnows ==
  ASSUME NEW w \in Workers, pc'[w] \in Blank
  PROVE  Knows(w)'
PROOF
  BY DEF Blank, Knows, Learnt, Told, Statements, Resting

\* A refusal and the loss of a connection tell nothing.
LEMMA RefusalKnows ==
  ASSUME LocalsOK, NEW w \in Workers, Refuse(w) \/ Drop(w) \/ Rest(w, "idle")
  PROVE  Knows(w)'
PROOF
  <1>1. CASE Refuse(w)
    BY <1>1 DEF Refuse, Reply, Goto, Error, LocalsOK, Knows, Learnt, Told
  <1>2. CASE Drop(w) \/ Rest(w, "idle")
    <2>1. pc'[w] \in Blank
      BY <1>2 DEF Drop, Rest, Goto, LocalsOK, Blank, Resting
    <2> QED
      BY <2>1, BlankKnows
  <1> QED
    BY <1>1, <1>2

LEMMA OthersStay ==
  ASSUME LocalsOK, NEW w \in Workers, Step(w) \/ Client(w),
         NEW v \in Workers \ {w}
  PROVE  Stays(v)
PROOF
  <1>0. /\ \A s : Goto(w, s) => pc'[v] = pc[v]
        /\ \A x : req' = [req EXCEPT ![w] = x] => req'[v] = req[v]
        /\ \A x : me' = [me EXCEPT ![w] = x] => me'[v] = me[v]
        /\ \A x : got' = [got EXCEPT ![w] = x] => got'[v] = got[v]
        /\ \A x : out' = [out EXCEPT ![w] = x] => out'[v] = out[v]
    BY DEF LocalsOK, Goto
  <1> USE DEF Stays
  <1>1. ASSUME NEW r, Reply(w, r) PROVE Stays(v)
    BY <1>0, <1>1 DEF Reply
  <1>2. CASE Refuse(w)
    BY <1>1, <1>2 DEF Refuse
  <1>3. CASE Drop(w) \/ Rest(w, "idle")
    BY <1>0, <1>3 DEF Drop, Rest
  <1>4. ASSUME NEW s, Goto(w, s), UNCHANGED locals PROVE Stays(v)
    BY <1>0, <1>4 DEF locals
  <1>5. ASSUME NEW s, NEW passes, NEW next, Gate(w, s, passes, next) PROVE Stays(v)
    BY <1>2, <1>4, <1>5 DEF Gate
  <1>6. CASE Accept(w) \/ Disconnect(w)
    BY <1>3, <1>4, <1>6 DEF Accept, Disconnect
  <1>7. CASE Receive(w)
    <2>1. PICK r \in Requests :
            \/ Drop(w)
            \/ \E s : /\ Goto(w, s) /\ req' = [req EXCEPT ![w] = r]
                      /\ out' \in {out, [out EXCEPT ![w] = Error]}
                      /\ UNCHANGED << me, uname, row, got >>
      BY <1>7, Zenon DEF Receive
    <2> QED
      BY <1>0, <1>3, <2>1
  <1>8. CASE CheckSession(w)
    BY <1>0, <1>2, <1>4, <1>8 DEF CheckSession
  <1>14. CASE CheckUser(w)
    BY <1>0, <1>3, <1>4, <1>14 DEF CheckUser
  <1>9. CASE NoTables(w) \/ Send(w) \/ SendFails(w)
    BY <1>3, <1>9 DEF NoTables, Send, SendFails
  <1>10. CASE FindUser(w) \/ AddUser(w) \/ AddChannel(w)
    BY <1>0, <1>1, <1>2, <1>3, <1>10 DEF FindUser, AddUser, AddChannel
  <1>13. CASE ReadMembers(w)
    <2>1. CASE /\ out' = [out EXCEPT ![w].data = MembersOf(req[w].chan)]
               /\ Goto(w, "channel")
               /\ UNCHANGED << req, me, uname, row, got >>
      BY <1>0, <2>1 DEF LocalsOK
    <2> QED
      BY <1>2, <1>13, <2>1 DEF ReadMembers
  <1>11. CASE Mint(w) \/ Revoke(w) \/ SetPass(w) \/ Join(w) \/ Post(w)
                \/ ListMessages(w) \/ ListChannels(w) \/ ReadChannel(w) \/ Mutual(w)
    BY <1>1, <1>2, <1>11 DEF Mint, Revoke, SetPass, Join, Post, ListMessages,
                             ListChannels, ReadChannel, Mutual
  <1>12. CASE Owned(w) \/ Invitee(w) \/ Joined(w) \/ Access(w) \/ Target(w)
    BY <1>5, <1>12 DEF Owned, Invitee, Joined, Access, Target
  <1> QED
    BY <1>6, <1>7, <1>8, <1>9, <1>10, <1>11, <1>12, <1>13, <1>14
       DEF Step, Client, Account, Membership, Message, Query

-----------------------------------------------------------------------------
(* The worker that moves.                                                  *)

\* What an answer of worker w changes of w.
LEMMA Answered ==
  ASSUME LocalsOK, NEW w \in Workers, NEW ids, Reply(w, Okay(ids))
  PROVE  /\ pc'[w] = "reply" /\ out'[w].status = "ok" /\ out'[w].data = ids
         /\ req'[w] = req[w] /\ me'[w] = me[w] /\ got'[w] = got[w]
         /\ Cmd(w)' = Cmd(w)
         /\ Learnt(w)'
PROOF
  BY DEF LocalsOK, Reply, Okay, Goto, Cmd, Learnt

\* The command of a worker that is at one of these statements.
LEMMA CommandAt ==
  ASSUME IInv, NEW w \in Workers
  PROVE  /\ pc[w] \in {"find_user", "mint"} => Cmd(w) = "login"
         /\ pc[w] = "revoke" => Cmd(w) = "logout"
         /\ pc[w] = "set_pass" => Cmd(w) = "change_pass"
         /\ pc[w] = "add_user" => Cmd(w) = "new_user"
         /\ pc[w] = "add_channel" => Cmd(w) = "new_channel"
         /\ pc[w] \in {"owned", "invitee", "joined"} => Cmd(w) = "invite_user"
         /\ pc[w] = "join" => Cmd(w) \in {"new_channel", "invite_user"}
         /\ pc[w] = "post" => Cmd(w) = "send_msg"
         /\ pc[w] = "list" => Cmd(w) = "channel_msg"
         /\ pc[w] = "channels" => Cmd(w) = "channel_list"
         /\ pc[w] \in {"members", "channel"} => Cmd(w) = "channel_details"
         /\ pc[w] = "mutual" => Cmd(w) = "user_details"
PROOF
  BY DEF IInv, WorkerInv, Dispatched, CommandsAt, Statements

LEMMA AccountKnows ==
  ASSUME IInv, NEW w \in Workers, Knows(w), Account(w)
  PROVE  Knows(w)'
PROOF
  <1>1. LocalsOK
    BY DEF IInv, TypeOK
  <1>2. CASE FindUser(w)
    <2>1. CASE Refuse(w)
      BY <1>1, <2>1, RefusalKnows
    <2>2. ASSUME NEW u \in DOMAIN users, users[u].name = req[w].name,
                 me' = [me EXCEPT ![w] = u], Goto(w, "session"),
                 UNCHANGED << users, req >>
          PROVE  Knows(w)'
      BY <1>1, <2>2 DEF LocalsOK, Goto, Knows, Learnt, Told, Cmd
    <2>3. UNCHANGED users
      BY <1>2 DEF FindUser, Reads, tables
    <2> QED
      BY <1>2, <2>1, <2>2, <2>3 DEF FindUser
  <1>3. CASE Mint(w)
    <2>1. /\ pc[w] = "mint" /\ Cmd(w) = "login" /\ UNCHANGED users
          /\ me[w] \in DOMAIN users /\ users[me[w]].name = req[w].name
      BY <1>3, CommandAt
         DEF Mint, At, IInv, WorkerInv, Identified, Knows, Learnt
    <2>2. Reply(w, Okay({got[w]})) /\ << got[w], me[w] >> \in issued'
      BY <1>3 DEF Mint
    <2> QED
      BY <1>1, <2>1, <2>2, Answered DEF Knows, Told
  <1>4. CASE Revoke(w)
    BY <1>1, <1>4, Answered, CommandAt DEF Revoke, At, Knows, Told
  <1>5. CASE AddUser(w)
    <2>1. CASE Drop(w)
      BY <1>1, <2>1, RefusalKnows
    <2>2. CASE /\ users' = Append(users, [name |-> req[w].name,
                                          pass |-> req[w].pass])
               /\ Reply(w, Okay({}))
      <3>1. \E u \in DOMAIN users' : users'[u].name = req[w].name
        <4>1. /\ users \in Seq([name : Names, pass : Passwords])
              /\ [name |-> req[w].name, pass |-> req[w].pass]
                   \in [name : Names, pass : Passwords]
          BY <1>5, NewRows DEF AddUser, At, IInv, TypeOK, TablesOK
        <4> QED
          BY <2>2, <4>1, AppendKeeps
      <3>2. Cmd(w) = "new_user"
        BY <1>5, CommandAt DEF AddUser, At
      <3> QED
        BY <1>1, <2>2, <3>1, <3>2, Answered DEF Knows, Told
    <2> QED
      BY <1>5, <2>1, <2>2 DEF AddUser
  <1>6. CASE SetPass(w)
    BY <1>1, <1>6, Answered, CommandAt DEF SetPass, At, Knows, Told
  <1> QED
    BY <1>2, <1>3, <1>4, <1>5, <1>6 DEF Account

\* A query of a handler that lets it go on.
LEMMA GateKnows ==
  ASSUME LocalsOK, NEW w \in Workers, NEW s, NEW passes \in BOOLEAN,
         NEW next \in Statements, Gate(w, s, passes, next), next \in Blank
  PROVE  Knows(w)'
PROOF
  <1>1. CASE Goto(w, next)
    BY <1>1, BlankKnows DEF LocalsOK, Goto
  <1>2. CASE Refuse(w)
    BY <1>2, RefusalKnows
  <1> QED
    BY <1>1, <1>2 DEF Gate

LEMMA MembershipKnows ==
  ASSUME IInv, NEW w \in Workers, Knows(w), Membership(w)
  PROVE  Knows(w)'
PROOF
  <1>1. LocalsOK
    BY DEF IInv, TypeOK
  <1>2. CASE AddChannel(w)
    <2>1. CASE Drop(w)
      BY <1>1, <2>1, RefusalKnows
    <2> DEFINE new == [name |-> req[w].name, owner |-> me[w]]
    <2>2. CASE /\ channels' = Append(channels, new)
               /\ got' = [got EXCEPT ![w] = Len(channels) + 1]
               /\ Goto(w, "join")
               /\ UNCHANGED << req, me, uname, row, out >>
      <3>1. channels'[Len(channels) + 1] = new
        <4>1. /\ channels \in Seq([name : ChanNames, owner : Nat])
              /\ new \in [name : ChanNames, owner : Nat]
          BY <1>2, NewRows DEF AddChannel, At, IInv, TypeOK, TablesOK
        <4> HIDE DEF new
        <4> QED
          BY <2>2, <4>1, AppendKeeps
      <3>2. pc'[w] = "join" /\ got'[w] = Len(channels) + 1
        BY <1>1, <2>2 DEF LocalsOK, Goto
      <3> QED
        BY <2>2, <3>1, <3>2 DEF Knows, Learnt, Told
    <2> QED
      BY <1>2, <2>1, <2>2 DEF AddChannel
  <1>3. CASE Owned(w)
    <2> DEFINE mine == req[w].chan \in { c \in DOMAIN channels :
                                          channels[c].owner = me[w] }
    <2>1. Gate(w, "owned", mine, "invitee") /\ mine \in BOOLEAN
      BY <1>3 DEF Owned
    <2> HIDE DEF mine
    <2> QED
      BY <1>1, <2>1, GateKnows DEF Blank, Statements
  <1>4. CASE Invitee(w)
    <2> DEFINE known == req[w].uid \in DOMAIN users
    <2>1. Gate(w, "invitee", known, "joined") /\ known \in BOOLEAN
      BY <1>4 DEF Invitee
    <2> HIDE DEF known
    <2> QED
      BY <1>1, <2>1, GateKnows DEF Blank, Statements
  <1>5. CASE Joined(w)
    <2>1. CASE Refuse(w)
      BY <1>1, <2>1, RefusalKnows
    <2>2. CASE Goto(w, "join") /\ UNCHANGED locals
      <3>1. Cmd(w) = "invite_user" /\ Cmd(w)' = Cmd(w) /\ pc'[w] = "join"
        BY <1>1, <1>5, <2>2, CommandAt DEF Joined, Gate, At, LocalsOK, Goto, locals, Cmd
      <3> QED
        BY <3>1 DEF Knows, Learnt, Told
    <2> QED
      BY <1>5, <2>1, <2>2 DEF Joined, Gate
  <1>6. CASE Join(w)
    <2>1. /\ pc[w] = "join" /\ Cmd(w) \in {"new_channel", "invite_user"}
          /\ NewMember(w) \in members' /\ UNCHANGED channels
      BY <1>6, CommandAt DEF Join, At
    <2>2. CASE Cmd(w) = "new_channel"
      <3>1. /\ Owns(me[w], got[w])
            /\ channels[got[w]] = [name |-> req[w].name, owner |-> me[w]]
        BY <2>1, <2>2 DEF IInv, WorkerInv, Permitted, Knows, Learnt
      <3>2. Reply(w, Okay({got[w]})) /\ NewMember(w) = << me[w], got[w] >>
        BY <1>6, <2>2 DEF Join, NewMember
      <3> QED
        BY <1>1, <2>1, <2>2, <3>1, <3>2, Answered DEF Knows, Told, Owns
    <2>3. CASE Cmd(w) = "invite_user"
      <3>1. Reply(w, Okay({})) /\ NewMember(w) = << req[w].uid, req[w].chan >>
        BY <1>6, <2>3 DEF Join, NewMember
      <3> QED
        BY <1>1, <2>1, <2>3, <3>1, Answered DEF Knows, Told
    <2> QED
      BY <2>1, <2>2, <2>3
  <1> QED
    BY <1>2, <1>3, <1>4, <1>5, <1>6 DEF Membership

LEMMA MessageKnows ==
  ASSUME IInv, NEW w \in Workers, Knows(w), Message(w)
  PROVE  Knows(w)'
PROOF
  <1>1. LocalsOK
    BY DEF IInv, TypeOK
  <1>2. CASE Access(w)
    <2>1. CASE Refuse(w)
      BY <1>1, <2>1, RefusalKnows
    <2>2. CASE /\ << me[w], req[w].chan >> \in members
               /\ Goto(w, IF Cmd(w) = "send_msg" THEN "post" ELSE "list")
               /\ UNCHANGED locals /\ UNCHANGED members
      <3>1. pc'[w] \in {"post", "list"}
        BY <1>1, <2>2 DEF LocalsOK, Goto
      <3> QED
        BY <2>2, <3>1 DEF Knows, Learnt, Told, locals
    <2>3. UNCHANGED members
      BY <1>2 DEF Access, Gate, Reads, tables
    <2> QED
      BY <1>2, <2>1, <2>2, <2>3 DEF Access, Gate
  <1>3. CASE Post(w)
    <2> DEFINE new == [sender |-> me[w], channel |-> req[w].chan]
    <2>1. \E i \in DOMAIN messages' : messages'[i] = new
      <3>1. /\ messages \in Seq([sender : Nat, channel : Nat])
            /\ new \in [sender : Nat, channel : Nat]
            /\ messages' = Append(messages, new)
        BY <1>3, NewRows DEF Post, At, IInv, TypeOK, TablesOK
      <3> HIDE DEF new
      <3> QED
        BY <3>1, AppendKeeps
    <2>2. Cmd(w) = "send_msg" /\ Reply(w, Okay({}))
      BY <1>3, CommandAt DEF Post, At
    <2> QED
      BY <1>1, <2>1, <2>2, Answered DEF Knows, Told
  <1>4. CASE ListMessages(w)
    <2> DEFINE shown == { i \in DOMAIN messages : messages[i].channel = req[w].chan }
    <2>1. /\ Cmd(w) = "channel_msg" /\ << me[w], req[w].chan >> \in members
          /\ UNCHANGED << members, messages >>
      BY <1>4, CommandAt DEF ListMessages, At, Knows, Learnt, Reads, tables
    <2>2. Reply(w, Okay(shown))
      BY <1>4 DEF ListMessages
    <2>3. \A i \in shown : i \in DOMAIN messages /\ messages[i].channel = req[w].chan
      OBVIOUS
    <2> HIDE DEF shown
    <2> QED
      BY <1>1, <2>1, <2>2, <2>3, Answered DEF Knows, Told
  <1> QED
    BY <1>2, <1>3, <1>4 DEF Message

LEMMA QueryKnows ==
  ASSUME IInv, NEW w \in Workers, Knows(w), Query(w)
  PROVE  Knows(w)'
PROOF
  <1>1. LocalsOK
    BY DEF IInv, TypeOK
  <1>2. members \subseteq Nat \X Nat
    BY DEF IInv, TypeOK, TablesOK
  <1>3. CASE ListChannels(w)
    <2>1. Cmd(w) = "channel_list" /\ UNCHANGED members
      BY <1>3, CommandAt DEF ListChannels, At, Reads, tables
    <2>2. \A c \in ChannelsOf(me[w]) : << me[w], c >> \in members
      BY <1>2 DEF ChannelsOf
    <2>3. Reply(w, Okay(ChannelsOf(me[w]) \cap DOMAIN channels))
      BY <1>3 DEF ListChannels
    <2> QED
      BY <1>1, <2>1, <2>2, <2>3, Answered DEF Knows, Told
  <1>4. CASE ReadMembers(w)
    <2>1. CASE Refuse(w)
      BY <1>1, <2>1, RefusalKnows
    <2>2. CASE /\ me[w] \in MembersOf(req[w].chan) /\ UNCHANGED members
               /\ Goto(w, "channel") /\ UNCHANGED << req, me, uname, row, got >>
      <3>1. pc'[w] = "channel"
        BY <1>1, <2>2 DEF LocalsOK, Goto
      <3>2. << me[w], req[w].chan >> \in members
        BY <1>2, <2>2 DEF MembersOf
      <3> QED
        BY <2>2, <3>1, <3>2 DEF Knows, Learnt, Told
    <2>3. UNCHANGED members
      BY <1>4 DEF ReadMembers, Reads, tables
    <2> QED
      BY <1>4, <2>1, <2>2, <2>3 DEF ReadMembers
  <1>5. CASE ReadChannel(w)
    <2>1. /\ Cmd(w) = "channel_details" /\ << me[w], req[w].chan >> \in members
          /\ UNCHANGED members
      BY <1>5, CommandAt DEF ReadChannel, At, Knows, Learnt, Reads, tables
    <2>2. CASE Refuse(w)
      BY <1>1, <2>2, RefusalKnows
    <2>3. CASE Reply(w, Okay(out[w].data))
      BY <1>1, <2>1, <2>3, Answered DEF Knows, Told
    <2> QED
      BY <1>5, <2>2, <2>3 DEF ReadChannel
  <1>6. CASE Target(w)
    <2> DEFINE known == req[w].uid \in DOMAIN users
    <2>1. Gate(w, "target", known, "mutual") /\ known \in BOOLEAN
      BY <1>6 DEF Target
    <2> HIDE DEF known
    <2> QED
      BY <1>1, <2>1, GateKnows DEF Blank, Statements
  <1>7. CASE Mutual(w)
    BY <1>1, <1>7, CommandAt, Answered DEF Mutual, At, Knows, Told
  <1> QED
    BY <1>3, <1>4, <1>5, <1>6, <1>7 DEF Query

\* The connection and check_session_key.
LEMMA SessionKnows ==
  ASSUME IInv, NEW w \in Workers, Knows(w),
         \/ Client(w) \/ CheckSession(w) \/ CheckUser(w)
         \/ NoTables(w) \/ Send(w) \/ SendFails(w)
  PROVE  Knows(w)'
PROOF
  <1>1. LocalsOK
    BY DEF IInv, TypeOK
  <1>2. CASE Drop(w) \/ Refuse(w) \/ Rest(w, "idle")
    BY <1>1, <1>2, RefusalKnows
  <1>3. ASSUME NEW s \in Blank, Goto(w, s)
        PROVE  Knows(w)'
    BY <1>1, <1>3, BlankKnows DEF LocalsOK, Goto
  <1>4. CASE Accept(w)
    BY <1>3, <1>4 DEF Accept, Blank, Resting
  <1>5. CASE Disconnect(w) \/ NoTables(w) \/ Send(w) \/ SendFails(w)
    BY <1>2, <1>5 DEF Disconnect, NoTables, Send, SendFails
  <1>6. CASE Receive(w)
    <2>1. PICK r \in Requests :
            CASE r.cmd = "malformed" -> Drop(w)
              [] r.cmd = "unknown" ->
                   /\ Goto(w, "reply")
                   /\ req' = [req EXCEPT ![w] = r]
                   /\ out' = [out EXCEPT ![w] = Error]
                   /\ UNCHANGED << me, uname, row, got >>
              [] OTHER ->
                   /\ Goto(w, Entry(r))
                   /\ req' = [req EXCEPT ![w] = r]
                   /\ UNCHANGED << me, uname, row, got, out >>
      BY <1>6 DEF Receive
    <2>2. CASE r.cmd = "malformed"
      BY <1>2, <2>1, <2>2
    <2>3. CASE r.cmd = "unknown"
      <3>1. pc'[w] = "reply" /\ out'[w].status = "err"
        BY <1>1, <2>1, <2>3 DEF LocalsOK, Goto, Error
      <3> QED
        BY <3>1 DEF Knows, Learnt, Told
    <2>4. CASE r.cmd \notin {"malformed", "unknown"}
      <3>1. Goto(w, Entry(r)) /\ req'[w] = r
        BY <1>1, <2>1, <2>4 DEF LocalsOK
      <3>2. CASE r.cmd \in {"login", "new_user"}
        <4>1. Entry(r) \in {"find_user", "add_user"}
          BY <3>2 DEF Entry
        <4> QED
          BY <1>3, <3>1, <4>1 DEF Blank, Statements
      <3>3. CASE r.cmd \notin {"login", "new_user"}
        <4>1. Entry(r) = "session"
          BY <3>3 DEF Entry
        <4>2. pc'[w] = "session" /\ Cmd(w)' # "login"
          BY <1>1, <3>1, <3>3, <4>1 DEF LocalsOK, Goto, Cmd
        <4> QED
          BY <4>2 DEF Knows, Learnt, Told
      <3> QED
        BY <3>2, <3>3
    <2> QED
      BY <2>2, <2>3, <2>4
  <1>7. ASSUME pc[w] \in {"session", "user"}, pc'[w] \in {"session", "user", "mint"},
               UNCHANGED << users, req, me >>
        PROVE  Knows(w)'
    BY <1>7 DEF Knows, Learnt, Told, Cmd
  <1>8. CASE CheckSession(w)
    <2>1. pc[w] = "session" /\ UNCHANGED users
      BY <1>8 DEF CheckSession, At, Reads, tables
    <2>2. CASE /\ Goto(w, "user") \/ Goto(w, "mint")
               /\ UNCHANGED << req, me >>
      BY <1>1, <1>7, <2>1, <2>2 DEF LocalsOK, Goto
    <2> QED
      BY <1>2, <1>8, <2>2 DEF CheckSession, locals
  <1>9. CASE CheckUser(w)
    <2>1. pc[w] = "user" /\ UNCHANGED users
      BY <1>9 DEF CheckUser, At, Reads, tables
    <2>2. CASE Goto(w, "session") /\ UNCHANGED << req, me >>
      BY <1>1, <1>7, <2>1, <2>2 DEF LocalsOK, Goto
    <2>3. CASE Goto(w, Body(Cmd(w)))
      <3>1. Body(Cmd(w)) \in Blank
        BY DEF Body, Blank, Statements
      <3> QED
        BY <1>3, <2>3, <3>1
    <2> QED
      BY <1>2, <1>9, <2>2, <2>3 DEF CheckUser, locals
  <1> QED
    BY <1>4, <1>5, <1>6, <1>8, <1>9 DEF Client

LEMMA AnswersKept ==
  ASSUME IInv, AnswersInv, [Next]_vars
  PROVE  AnswersInv'
PROOF
  <1>1. LocalsOK
    BY DEF IInv, TypeOK
  <1>2. \A v \in Workers : Knows(v)
    BY DEF AnswersInv, Knows
  <1>3. SUFFICES ASSUME NEW v \in Workers PROVE Knows(v)'
    BY DEF AnswersInv, Knows
  <1>4. CASE UNCHANGED vars
    <2>1. Keeps /\ Stays(v)
      BY <1>4 DEF vars, Keeps, Stays
    <2> QED
      BY <1>2, <2>1, StillKnows
  <1>5. CASE MainThread
    <2>1. Stays(v)
      BY <1>5 DEF MainThread, Boot, BootSchema, BootUser, BootChannel, BootMember,
                  locals, Stays
    <2> QED
      BY <1>2, <1>5, <2>1, StillKnows, TablesKeep DEF Next
  <1>6. CASE Crash
    <2>1. pc'[v] \in Blank
      BY <1>6 DEF Crash, Blank, Resting
    <2> QED
      BY <2>1, BlankKnows
  <1>7. ASSUME NEW w \in Workers, Step(w) \/ Client(w)
        PROVE  Knows(v)'
    <2>1. CASE v = w
      BY <1>2, <1>7, <2>1, AccountKnows, MembershipKnows, MessageKnows, QueryKnows,
         SessionKnows DEF Step
    <2>2. CASE v # w
      <3>1. Keeps
        BY <1>7, TablesKeep DEF Next
      <3> QED
        BY <1>1, <1>2, <1>7, <2>2, <3>1, OthersStay, StillKnows
    <2> QED
      BY <2>1, <2>2
  <1> QED
    BY <1>4, <1>5, <1>6, <1>7 DEF Next

-----------------------------------------------------------------------------
(* The creator of a channel.                                               *)

\* A worker that is about to add a member does that and nothing else.
LEMMA OnlyJoins ==
  ASSUME NEW w \in Workers, pc[w] = "join", Created = TableNames,
         Step(w) \/ Client(w)
  PROVE  Join(w)
PROOF
  <1>1. Needs("join") \subseteq Created
    BY DEF Needs, TableNames
  <1> QED
    BY <1>1 DEF Step, Client, Account, Membership, Message, Query, Accept, Receive,
         Disconnect, CheckSession, CheckUser, NoTables, Send, SendFails, FindUser,
         Mint, Revoke, AddUser, SetPass, AddChannel, Owned, Invitee, Joined, Access,
         Post, ListMessages, ListChannels, ReadMembers, ReadChannel, Target, Mutual,
         Gate, At, Statements

\* Only the initialization creates tables; only new_channel adds a channel to
\* them later.
LEMMA ServingKeeps ==
  ASSUME NEW w \in Workers, Step(w) \/ Client(w)
  PROVE  /\ UNCHANGED process
         /\ \/ UNCHANGED channels
            \/ /\ AddChannel(w) /\ Goto(w, "join")
               /\ channels' =
                    Append(channels, [name |-> req[w].name, owner |-> me[w]])
               /\ got' = [got EXCEPT ![w] = Len(channels) + 1]
               /\ req' = req
PROOF
  <1>1. CASE AddChannel(w)
    BY <1>1 DEF AddChannel, At
  <1>2. CASE Client(w) \/ CheckSession(w) \/ CheckUser(w) \/ NoTables(w)
               \/ Send(w) \/ SendFails(w)
    BY <1>2 DEF Client, Accept, Receive, Disconnect, CheckSession, CheckUser,
                NoTables, Send, SendFails, Reads, tables
  <1>3. CASE Account(w)
    BY <1>3 DEF Account, FindUser, Mint, Revoke, AddUser, SetPass, Reads, tables
  <1>4. CASE Owned(w) \/ Invitee(w) \/ Joined(w) \/ Join(w) \/ Message(w)
    BY <1>4 DEF Owned, Invitee, Joined, Join, Message, Access, Post, ListMessages,
                Gate, Reads, tables
  <1>5. CASE Query(w)
    BY <1>5 DEF Query, ListChannels, ReadMembers, ReadChannel, Target, Mutual,
                Gate, Reads, tables
  <1> QED
    BY <1>1, <1>2, <1>3, <1>4, <1>5 DEF Step, Membership

LEMMA SchemaKept ==
  ASSUME IInv, SchemaInv, [Next]_vars
  PROVE  SchemaInv'
PROOF
  <1>1. CASE UNCHANGED vars
    BY <1>1 DEF vars, SchemaInv
  <1>2. CASE MainThread
    BY <1>2 DEF MainThread, Boot, BootSchema, BootUser, BootChannel, BootMember,
                tables, SchemaInv, IInv, BootInv
  <1>3. CASE Crash
    <2>1. crashes' # 0
      BY <1>3, ConstantsAssumption DEF Crash, IInv, TypeOK
    <2> QED
      BY <2>1 DEF SchemaInv
  <1>4. ASSUME NEW w \in Workers, Step(w) \/ Client(w)
        PROVE  SchemaInv'
    BY <1>4, ServingKeeps DEF SchemaInv, process
  <1> QED
    BY <1>1, <1>2, <1>3, <1>4 DEF Next

LEMMA CompleteSchema ==
  ASSUME SchemaInv, crashes = 0, main = "serving"
  PROVE  Created = TableNames
PROOF
  <1>1. created = Len(SchemaOrder)
    BY DEF SchemaInv
  <1>2. DOMAIN SchemaOrder = 1 .. Len(SchemaOrder)
    BY ConstantsAssumption, LenProperties
  <1>3. \A i \in DOMAIN SchemaOrder : SchemaOrder[i] \in TableNames
    BY ConstantsAssumption, ElementOfSeq, LenProperties
  <1> QED
    BY <1>1, <1>2, <1>3, ConstantsAssumption DEF Created

\* Why the owner of channel c is a member, or about to be one.
Creating(c) ==
  \/ << channels[c].owner, c >> \in members
  \/ main = "member"
  \/ \E w \in Workers : pc[w] = "join" /\ Cmd(w) = "new_channel" /\ got[w] = c

LEMMA CreatorsKept ==
  ASSUME IInv, SchemaInv, CreatorIsMember, [Next]_vars
  PROVE  CreatorIsMember'
PROOF
  <1>1. SUFFICES ASSUME crashes' = 0, NEW c \in DOMAIN channels'
                 PROVE  Creating(c)'
    BY DEF CreatorIsMember, Creating, Cmd
  <1>2. LocalsOK /\ crashes \in Nat
    BY ConstantsAssumption DEF IInv, TypeOK
  <1>3. ASSUME crashes = 0, c \in DOMAIN channels PROVE Creating(c)
    BY <1>3 DEF CreatorIsMember, Creating
  <1>4. CASE UNCHANGED vars
    <2>1. Creating(c)
      BY <1>1, <1>3, <1>4 DEF vars
    <2> QED
      BY <1>4, <2>1 DEF vars, Creating, Cmd
  <1>5. CASE MainThread
    <2>1. CASE Boot \/ BootSchema \/ BootUser
      <3>1. UNCHANGED << crashes, channels, members, pc, req, got >> /\ main # "member"
        BY <2>1 DEF Boot, BootSchema, BootUser, tables, locals
      <3>2. Creating(c)
        BY <1>1, <1>3, <3>1
      <3> QED
        BY <3>1, <3>2 DEF Creating, Cmd
    <2>2. CASE BootChannel
      BY <2>2 DEF BootChannel, Creating
    <2>3. CASE BootMember
      <3>1. /\ Len(channels) = 1 /\ channels[1].owner = 1 /\ Len(users) = 1
            /\ UNCHANGED channels
        BY <2>3 DEF BootMember, IInv, BootInv
      <3>2. c = 1
        BY <3>1 DEF IInv, TypeOK, TablesOK
      <3> QED
        BY <2>3, <3>1, <3>2 DEF BootMember, Creating
    <2> QED
      BY <1>5, <2>1, <2>2, <2>3 DEF MainThread
  <1>6. CASE Crash
    BY <1>1, <1>2, <1>6 DEF Crash
  <1>7. ASSUME NEW w \in Workers, Step(w) \/ Client(w)
        PROVE  Creating(c)'
    <2>1. UNCHANGED process /\ crashes = 0
      BY <1>1, <1>7, ServingKeeps DEF process
    <2>2. Keeps
      BY <1>7, TablesKeep DEF Next
    <2>3. CASE c \in DOMAIN channels
      <3>1. CASE << channels[c].owner, c >> \in members
        BY <2>2, <2>3, <3>1 DEF Keeps, Creating
      <3>2. CASE main = "member"
        BY <2>1, <3>2 DEF process, Creating
      <3>3. ASSUME NEW v \in Workers,
                   pc[v] = "join", Cmd(v) = "new_channel", got[v] = c
            PROVE  Creating(c)'
        <4>1. CASE v = w
          <5>1. Created = TableNames
            <6>1. main = "serving"
              BY <1>7, <3>3, <4>1, Serving DEF IInv, TypeOK
            <6> QED
              BY <2>1, <6>1, CompleteSchema
          <5>2. Join(w)
            BY <1>7, <3>3, <4>1, <5>1, OnlyJoins
          <5>3. channels[c].owner = me[w]
            BY <3>3, <4>1 DEF IInv, WorkerInv, Permitted, Owns
          <5>4. << me[w], c >> \in members' /\ UNCHANGED channels
            BY <3>3, <4>1, <5>2 DEF Join, NewMember
          <5> QED
            BY <5>3, <5>4 DEF Creating
        <4>2. CASE v # w
          <5>1. Stays(v)
            BY <1>2, <1>7, <4>2, OthersStay
          <5> QED
            BY <3>3, <5>1 DEF Stays, Cmd, Creating
        <4> QED
          BY <4>1, <4>2
      <3> QED
        BY <1>3, <2>1, <2>3, <3>1, <3>2, <3>3 DEF Creating
    <2>4. CASE c \notin DOMAIN channels
      <3>1. AddChannel(w) /\ Goto(w, "join") /\ req' = req
            /\ channels' =
                 Append(channels, [name |-> req[w].name, owner |-> me[w]])
            /\ got' = [got EXCEPT ![w] = Len(channels) + 1]
        BY <1>7, <2>4, ServingKeeps
      <3>2. c = Len(channels) + 1
        <4>1. channels \in Seq([name : ChanNames, owner : Nat])
          BY DEF IInv, TypeOK, TablesOK
        <4> QED
          BY <2>4, <3>1, <4>1
      <3>3. Cmd(w) = "new_channel"
        BY <3>1, CommandAt DEF AddChannel, At
      <3>4. pc'[w] = "join" /\ got'[w] = c /\ Cmd(w)' = "new_channel"
        BY <1>2, <3>1, <3>2, <3>3 DEF LocalsOK, Goto, Cmd
      <3> QED
        BY <3>4 DEF Creating
    <2> QED
      BY <2>3, <2>4
  <1> QED
    BY <1>4, <1>5, <1>6, <1>7 DEF Next

-----------------------------------------------------------------------------
(* The theorems.                                                           *)

LEMMA AnswersHold == Spec => []AnswersInv
PROOF
  <1>1. Init => AnswersInv
    BY DEF Init, AnswersInv, Learnt, Told
  <1>2. IInv /\ AnswersInv /\ [Next]_vars => AnswersInv'
    BY AnswersKept
  <1> QED
    BY <1>1, <1>2, Invariance, PTL DEF Spec

\* An "ok" tells the truth: the account, the session, the channel with its
\* creator, the member or the message it acknowledges is in the tables when
\* it is sent, whatever the other connections have done since the INSERT.
THEOREM OkIsTrue == Spec => []AcknowledgedIsStored
PROOF
  <1>1. AnswersInv => AcknowledgedIsStored
    BY DEF AnswersInv, Told, AcknowledgedIsStored
  <1> QED
    BY <1>1, AnswersHold, PTL

\* A query shows nothing but what belongs to its caller's channels, although
\* it is asked one or two statements after his membership.
THEOREM OnlyMembersRead == Spec => []AnswersWithinMembership
PROOF
  <1>1. AnswersInv => AnswersWithinMembership
    BY DEF AnswersInv, Told, AnswersWithinMembership
  <1> QED
    BY <1>1, AnswersHold, PTL

\* As long as the server has not crashed, the owner of every channel is a
\* member of it or the thread that inserted the channel is about to add him:
\* no step of new_channel between its two INSERTs can fail.
THEOREM CreatorsJoin == Spec => []CreatorIsMember
PROOF
  <1>1. Init => SchemaInv /\ CreatorIsMember
    BY DEF Init, SchemaInv, CreatorIsMember
  <1>2. IInv /\ SchemaInv /\ CreatorIsMember /\ [Next]_vars
          => SchemaInv' /\ CreatorIsMember'
    BY SchemaKept, CreatorsKept
  <1> QED
    BY <1>1, <1>2, Invariance, PTL DEF Spec

\* Nothing that was stored is taken back: whatever the handlers do, and through
\* crashes and restarts, no user, channel, member or message disappears and no
\* issued token is forgotten.  (check_session_key and the other guards of a
\* handler stay true until its last statement because of that.)
THEOREM NothingTakenBack == Spec => [][Keeps]_vars
PROOF
  <1>1. IInv /\ [Next]_vars => [Keeps]_vars
    BY TablesKeep
  <1> QED
    BY <1>1, Invariance, PTL DEF Spec

=============================================================================
