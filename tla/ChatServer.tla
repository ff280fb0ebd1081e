----------------------------- MODULE ChatServer -----------------------------
(***************************************************************************)
(* The dotchat server between the sockets and the SQLite file: one thread  *)
(* per connection (thread_connection::callback) reads a request, handle()  *)
(* dispatches it to one of the eleven handlers, the handler runs its       *)
(* database statements one after the other, and the thread sends the reply *)
(* and reads the next request.  Nothing locks the database across two      *)
(* statements of a handler, so one action below is ONE statement and the   *)
(* statements of different threads interleave freely.                      *)
(*                                                                         *)
(* What sqlite_orm and SQLite do is external: a statement is atomic, a     *)
(* failing one (UNIQUE, no such table) throws std::system_error and has no *)
(* effect, and a completed one survives a crash of the server.             *)
(***************************************************************************)
EXTENDS Integers, Sequences, FiniteSets

CONSTANTS
  Workers,       \* the connections served at the same time, one thread each
  Commands,      \* the commands the clients of a run send
  Names,         \* user names
  Passwords,     \* passwords
  ChanNames,     \* channel names
  LongNames,     \* the names too long for an error text that quotes them
  Keys,          \* the values gen_key can return, tokens a client can send
  Master,        \* the name and the password of the user database() creates
  MasterPass,
  General,       \* the name of the channel database() creates
  SchemaOrder,   \* the order sync_schema creates the tables in
  Expiries,      \* values of now_plus_uncut(24h), steady-clock nanoseconds
  NowValues,     \* values of db::now(), system-clock milliseconds mod 2^32
  Collisions,    \* whether gen_key may return a key that is already in use
  MaxMessages,   \* bound: no send_msg request arrives with this many stored
  MaxCrashes     \* bound: how often the server process dies

AllCommands ==
  { "login", "logout", "channel_list", "channel_msg", "send_msg",
    "channel_details", "new_channel", "new_user", "change_pass",
    "user_details", "invite_user", "unknown", "malformed" }

\* A worker parks here when it serves no request.
Resting == {"idle", "closed"}

\* The steps of the handlers, each ending in one database statement.
Statements ==
  { "find_user", "session", "user", "mint", "revoke", "set_pass", "add_user",
    "add_channel", "join", "owned", "invitee", "joined", "access", "post",
    "list", "channels", "members", "channel", "target", "mutual" }

TableNames == {"user", "session_key", "channel", "channel_member", "message"}

ASSUME ConstantsAssumption ==
  /\ Commands \subseteq AllCommands
  /\ Master \in Names /\ MasterPass \in Passwords /\ General \in ChanNames
  /\ LongNames \subseteq Names
  /\ SchemaOrder \in Seq(TableNames)
  /\ \A t \in TableNames : \E i \in DOMAIN SchemaOrder : SchemaOrder[i] = t
  /\ IsFiniteSet(Names) /\ IsFiniteSet(ChanNames)
  /\ Expiries \subseteq Nat /\ NowValues \subseteq Nat
  /\ Collisions \in BOOLEAN
  /\ MaxMessages \in Nat /\ MaxCrashes \in Nat

-----------------------------------------------------------------------------
VARIABLES
  file,       \* the database file: "absent" or "there"
  created,    \* how many tables of SchemaOrder it has
  main,       \* the main thread: "down", a step of database(), "serving"
  crashes,    \* how often the process died
  users,      \* table user: row i has id i (rowids; nothing deletes a user)
  sessions,   \* table session_key: a set of rows
  channels,   \* table channel: row i has id i
  members,    \* table channel_member: a set of <<user, channel>>
  messages,   \* table message: row i has id i
  pc,         \* where each worker is
  req,        \* the request it serves
  me,         \* the user it serves: res[0].id in login, user.id elsewhere
  uname,      \* user.name of the row check_session_key has returned, or {}
  row,        \* session_key.user of the row check_session_key has read
  got,        \* login's key, the id insert returned in new_channel
  out,        \* the reply under construction
  issued      \* history: the <<token, user>> pairs login has stored

tables  == << users, sessions, channels, members, messages >>
locals  == << req, me, uname, row, got, out >>
process == << file, created, main, crashes >>
vars == << file, created, main, crashes, users, sessions, channels, members,
           messages, pc, req, me, uname, row, got, out, issued >>

ChanIds == 1 .. Cardinality(ChanNames)
UserIds == 1 .. Cardinality(Names)

\* The requests a client can send; the ids it names need not exist.
AllRequests ==
  [cmd : {"login", "new_user"}, name : Names, pass : Passwords]
    \cup [cmd : {"logout", "channel_list"}, token : Keys]
    \cup [cmd : {"change_pass"}, token : Keys, pass : Passwords]
    \cup [cmd : {"new_channel"}, token : Keys, name : ChanNames]
    \cup [cmd : {"channel_msg", "send_msg", "channel_details"},
          token : Keys, chan : ChanIds]
    \cup [cmd : {"user_details"}, token : Keys, uid : UserIds]
    \cup [cmd : {"invite_user"}, token : Keys, chan : ChanIds, uid : UserIds]
    \cup [cmd : {"unknown"}, name : Names]
    \cup [cmd : {"malformed"}]

Requests == { r \in AllRequests : r.cmd \in Commands }

NoRequest == [cmd |-> "none"]
NoReply   == [status |-> "none", data |-> {}]
Okay(ids) == [status |-> "ok", data |-> ids]
Error     == [status |-> "err", data |-> {}]

Sessions == [key : Keys, user : Nat, until : Nat]

TablesOK ==
  /\ users \in Seq([name : Names, pass : Passwords])
  /\ sessions \subseteq Sessions
  /\ channels \in Seq([name : ChanNames, owner : Nat])
  /\ members \subseteq Nat \X Nat
  /\ messages \in Seq([sender : Nat, channel : Nat])

LocalsOK ==
  /\ pc \in [Workers -> Resting \cup Statements \cup {"reply"}]
  /\ req \in [Workers -> Requests \cup {NoRequest}]
  /\ me \in [Workers -> Nat]
  /\ uname \in [Workers -> SUBSET Names]
  /\ row \in [Workers -> Nat]
  /\ got \in [Workers -> Nat \cup Keys]
  /\ out \in [Workers -> [status : {"none", "ok", "err"},
                          data : SUBSET (Nat \cup Keys)]]

TypeOK ==
  /\ file \in {"absent", "there"} /\ created \in 0 .. Len(SchemaOrder)
  /\ main \in {"down", "schema", "user", "channel", "member", "serving"}
  /\ crashes \in 0 .. MaxCrashes
  /\ TablesOK /\ LocalsOK
  /\ issued \subseteq Keys \X Nat

-----------------------------------------------------------------------------
(* The main thread: db::database() before the first connection.            *)

Init ==
  /\ file = "absent" /\ created = 0 /\ main = "down" /\ crashes = 0
  /\ users = << >> /\ sessions = {} /\ channels = << >>
  /\ members = {} /\ messages = << >> /\ issued = {}
  /\ pc = [w \in Workers |-> "closed"]
  /\ req = [w \in Workers |-> NoRequest]
  /\ me = [w \in Workers |-> 0]
  /\ uname = [w \in Workers |-> {}]
  /\ row = [w \in Workers |-> 0]
  /\ got = [w \in Workers |-> 0]
  /\ out = [w \in Workers |-> NoReply]

\* The file decides whether the initialization runs; opening creates it.
Boot ==
  /\ main = "down"
  /\ \/ file = "absent" /\ file' = "there" /\ main' = "schema"
     \/ file # "absent" /\ main' = "serving" /\ UNCHANGED file
  /\ UNCHANGED << created, crashes, tables, pc, locals, issued >>

\* sync_schema: one CREATE TABLE after the other.
BootSchema ==
  /\ main = "schema"
  /\ created' = created + 1
  /\ main' = IF created' = Len(SchemaOrder) THEN "user" ELSE "schema"
  /\ UNCHANGED << file, crashes, tables, pc, locals, issued >>

BootUser ==
  /\ main = "user" /\ main' = "channel"
  /\ users' = Append(users, [name |-> Master, pass |-> MasterPass])
  /\ UNCHANGED << file, created, crashes, sessions, channels, members, messages,
                  pc, locals, issued >>

BootChannel ==
  /\ main = "channel" /\ main' = "member"
  /\ channels' = Append(channels, [name |-> General, owner |-> Len(users)])
  /\ UNCHANGED << file, created, crashes, users, sessions, members, messages,
                  pc, locals, issued >>

BootMember ==
  /\ main = "member" /\ main' = "serving"
  /\ members' = members \cup { << Len(users), Len(channels) >> }
  /\ UNCHANGED << file, created, crashes, users, sessions, channels, messages,
                  pc, locals, issued >>

Rested ==
  /\ req' = [w \in Workers |-> NoRequest]
  /\ me' = [w \in Workers |-> 0]
  /\ uname' = [w \in Workers |-> {}]
  /\ row' = [w \in Workers |-> 0]
  /\ got' = [w \in Workers |-> 0]
  /\ out' = [w \in Workers |-> NoReply]

\* Mutant: the last rows of channel_member were not on disk yet.
CrashLosing ==
  /\ main # "down" /\ crashes < MaxCrashes
  /\ crashes' = crashes + 1 /\ main' = "down"
  /\ pc' = [w \in Workers |-> "closed"]
  /\ Rested
  /\ members' = {}
  /\ UNCHANGED << file, created, users, sessions, channels, messages, issued >>

\* Mutant: nor were the first rows of user.
CrashLosingUsers ==
  /\ main # "down" /\ crashes < MaxCrashes
  /\ crashes' = crashes + 1 /\ main' = "down"
  /\ pc' = [w \in Workers |-> "closed"]
  /\ Rested
  /\ users' = << >>
  /\ UNCHANGED << file, created, sessions, channels, members, messages,
                  issued >>

\* The process dies between any two statements; the tables survive.
Crash ==
  /\ main # "down" /\ crashes < MaxCrashes
  /\ crashes' = crashes + 1 /\ main' = "down"
  /\ pc' = [w \in Workers |-> "closed"]
  /\ Rested
  /\ UNCHANGED << file, created, tables, issued >>

-----------------------------------------------------------------------------
(* What the steps of a worker are made of.                                 *)

Goto(w, s) == pc' = [pc EXCEPT ![w] = s]

\* The request is over; the connection goes on reading, or is closed.
Rest(w, where) ==
  /\ Goto(w, where)
  /\ req' = [req EXCEPT ![w] = NoRequest]
  /\ me' = [me EXCEPT ![w] = 0]
  /\ uname' = [uname EXCEPT ![w] = {}]
  /\ row' = [row EXCEPT ![w] = 0]
  /\ got' = [got EXCEPT ![w] = 0]
  /\ out' = [out EXCEPT ![w] = NoReply]

\* An exception other than proto_error reaches callback(): the connection is
\* closed and the client gets no reply at all.
Drop(w) == Rest(w, "closed")

Reply(w, r) ==
  /\ Goto(w, "reply")
  /\ out' = [out EXCEPT ![w] = r]
  /\ UNCHANGED << req, me, uname, row, got >>

\* throw proto_error: reply_to turns it into an "err" message.
Refuse(w) == Reply(w, Error)

\* A step that changes no table.
Reads == UNCHANGED << process, tables, issued >>

Created == { SchemaOrder[i] : i \in 1 .. created }

\* The tables a statement names.
Needs(s) ==
  CASE s \in {"session", "mint", "revoke"}       -> {"session_key"}
    [] s \in {"add_channel", "owned", "channel"} -> {"channel"}
    [] s \in {"join", "joined", "access", "members", "mutual"} ->
         {"channel_member"}
    [] s = "channels"                            -> {"channel", "channel_member"}
    [] s \in {"post", "list"}                    -> {"message"}
    [] OTHER                                     -> {"user"}

\* Worker w is about to run statement s and the tables it names exist.
At(w, s) == pc[w] = s /\ Needs(s) \subseteq Created

\* A query whose result decides between the next statement and an "err".
Gate(w, s, passes, next) ==
  /\ At(w, s)
  /\ \/ passes /\ Goto(w, next) /\ UNCHANGED locals
     \/ ~passes /\ Refuse(w)
  /\ Reads

Cmd(w) == req[w].cmd

\* The keys in use: in the table, or generated by a login under way.
BusyKeys == { s.key : s \in sessions }
              \cup { got[w] : w \in { v \in Workers : Cmd(v) = "login" } }

\* Mutant: gen_key returns keys in use although the run excludes it.
GeneratedAgain == Keys

\* The keys RAND_bytes can produce.
Generated == IF Collisions THEN Keys ELSE Keys \ BusyKeys

-----------------------------------------------------------------------------
(* The connection: accepted, read from, replied to, lost.                  *)

Accept(w) ==
  /\ main = "serving" /\ pc[w] = "closed"
  /\ Goto(w, "idle")
  /\ UNCHANGED << process, tables, locals, issued >>

\* Bounds of a run: stored messages, and keys left for the logins under way.
WithinBounds(r) ==
  /\ r.cmd = "send_msg" => Len(messages) < MaxMessages
  /\ r.cmd = "login" =>
       \/ Collisions
       \/ Cardinality({ v \in Workers : Cmd(v) = "login" /\ got[v] \notin Keys })
            < Cardinality(Keys \ BusyKeys)

\* The first statement of the handler the switcher finds for the command.
Entry(r) ==
  CASE r.cmd = "login"    -> "find_user"
    [] r.cmd = "new_user" -> "add_user"
    [] OTHER              -> "session"

\* read() returns a message; handle() parses it and dispatches the command.
\* An unknown command is answered, an undecodable message throws.
Receive(w) ==
  /\ pc[w] = "idle"
  /\ \E r \in Requests :
       /\ WithinBounds(r)
       /\ CASE r.cmd = "malformed" -> Drop(w)
            [] r.cmd = "unknown" ->
                 /\ Goto(w, "reply")
                 /\ req' = [req EXCEPT ![w] = r]
                 /\ out' = [out EXCEPT ![w] = Error]
                 /\ UNCHANGED << me, uname, row, got >>
            [] OTHER ->
                 /\ Goto(w, Entry(r))
                 /\ req' = [req EXCEPT ![w] = r]
                 /\ UNCHANGED << me, uname, row, got, out >>
  /\ Reads

\* Only login and the unknown-command reply quote a name the client sent.
Encodable(w) ==
  out[w].status = "err" /\ Cmd(w) \in {"login", "unknown"}
    => req[w].name \notin LongNames

Send(w) ==
  /\ pc[w] = "reply" /\ Encodable(w)
  /\ Rest(w, "idle")
  /\ Reads

\* The reply has a string of more than 255 bytes, or the peer is gone.
SendFails(w) ==
  /\ pc[w] = "reply"
  /\ Drop(w)
  /\ Reads

\* The peer closes while the worker waits in read().
Disconnect(w) ==
  /\ pc[w] = "idle"
  /\ Drop(w)
  /\ Reads

\* "no such table": the file exists but its schema was never completed.
NoTables(w) ==
  /\ pc[w] \in Statements /\ ~(Needs(pc[w]) \subseteq Created)
  /\ Drop(w)
  /\ Reads

-----------------------------------------------------------------------------
(* check_session_key: the session row, then the user row.                  *)

\* login probes the key it has generated, the other handlers their token.
Token(w) == IF Cmd(w) = "login" THEN got[w] ELSE req[w].token

\* Mutant: the row is looked up by its validity alone.
AnyValidRow(w, now) == { s \in sessions : s.until >= now }

\* The unexpired row of the token; a key is the primary key of its row.
ValidRows(w, now) ==
  { s \in sessions : s.key = Token(w) /\ s.until >= now }

CheckSession(w) ==
  /\ At(w, "session")
  /\ \E now \in NowValues :
       \/ \E s \in ValidRows(w, now) :
            /\ row' = [row EXCEPT ![w] = s.user]
            /\ Goto(w, "user")
            /\ UNCHANGED << req, me, uname, got, out >>
       \/ ValidRows(w, now) = {} /\ Cmd(w) = "login"
            /\ Goto(w, "mint")
            /\ UNCHANGED locals
       \/ ValidRows(w, now) = {} /\ Cmd(w) # "login"
            /\ Refuse(w)
  /\ Reads

\* The statement a handler starts with once it knows its user.
Body(cmd) ==
  CASE cmd = "logout"          -> "revoke"
    [] cmd = "change_pass"     -> "set_pass"
    [] cmd = "new_channel"     -> "add_channel"
    [] cmd = "invite_user"     -> "owned"
    [] cmd = "send_msg"        -> "access"
    [] cmd = "channel_msg"     -> "access"
    [] cmd = "channel_list"    -> "channels"
    [] cmd = "channel_details" -> "members"
    [] OTHER                   -> "target"

\* The key login probed is taken: it calls gen_key() again, drops the result
\* and probes the same key.  .value() of an absent user throws.
CheckUser(w) ==
  /\ At(w, "user")
  /\ \/ row[w] \notin DOMAIN users /\ Drop(w)
     \/ row[w] \in DOMAIN users /\ Cmd(w) = "login"
          /\ Goto(w, "session") /\ UNCHANGED locals
     \/ row[w] \in DOMAIN users /\ Cmd(w) # "login"
          /\ me' = [me EXCEPT ![w] = row[w]]
          /\ uname' = [uname EXCEPT ![w] = {users[row[w]].name}]
          /\ Goto(w, Body(Cmd(w)))
          /\ UNCHANGED << req, row, got, out >>
  /\ Reads

-----------------------------------------------------------------------------
(* The accounts: login, logout, new_user, change_pass.                     *)

\* login: the user row, the password, the first key.  Names are UNIQUE.
FindUser(w) ==
  /\ At(w, "find_user")
  /\ LET known == { u \in DOMAIN users : /\ users[u].name = req[w].name
                                         /\ users[u].pass = req[w].pass } IN
     \/ known = {} /\ Refuse(w)
     \/ \E u \in known, key \in Generated :
          /\ me' = [me EXCEPT ![w] = u]
          /\ got' = [got EXCEPT ![w] = key]
          /\ Goto(w, "session")
          /\ UNCHANGED << req, uname, row, out >>
  /\ Reads

\* login: REPLACE INTO session_key.
Mint(w) ==
  /\ At(w, "mint")
  /\ \E until \in Expiries :
       sessions' = { s \in sessions : s.key # got[w] }
                     \cup {[key |-> got[w], user |-> me[w], until |-> until]}
  /\ issued' = issued \cup { << got[w], me[w] >> }
  /\ Reply(w, Okay({got[w]}))
  /\ UNCHANGED << process, users, channels, members, messages >>

\* logout: every session of the user, not only the one of the token.
Revoke(w) ==
  /\ At(w, "revoke")
  /\ sessions' = { s \in sessions : s.user # me[w] }
  /\ Reply(w, Okay({}))
  /\ UNCHANGED << process, users, channels, members, messages, issued >>

\* Mutant: the name column is not UNIQUE.
NeverTaken(table, name) == FALSE

\* An INSERT of this name into table user or channel violates UNIQUE.
Taken(table, name) == \E i \in DOMAIN table : table[i].name = name

\* new_user: INSERT.
AddUser(w) ==
  /\ At(w, "add_user")
  /\ \/ Taken(users, req[w].name) /\ Drop(w) /\ UNCHANGED users
     \/ /\ ~Taken(users, req[w].name)
        /\ users' = Append(users, [name |-> req[w].name, pass |-> req[w].pass])
        /\ Reply(w, Okay({}))
  /\ UNCHANGED << process, sessions, channels, members, messages, issued >>

\* change_pass: UPDATE of the whole row, with the name CheckUser has read.
SetPass(w) ==
  /\ At(w, "set_pass")
  /\ \E n \in uname[w] :
       users' = [users EXCEPT ![me[w]] = [name |-> n, pass |-> req[w].pass]]
  /\ Reply(w, Okay({}))
  /\ UNCHANGED << process, sessions, channels, members, messages, issued >>

-----------------------------------------------------------------------------
(* The channels: new_channel, invite_user.                                 *)

\* Mutant: the owner is left at the id the row is built with.
AddChannelUnowned(w) ==
  /\ At(w, "add_channel") /\ ~Taken(channels, req[w].name)
  /\ channels' = Append(channels, [name |-> req[w].name, owner |-> -1])
  /\ got' = [got EXCEPT ![w] = Len(channels) + 1]
  /\ Goto(w, "join")
  /\ UNCHANGED << process, users, sessions, members, messages, issued,
                  req, me, uname, row, out >>

\* new_channel: INSERT, and the id it returns.
AddChannel(w) ==
  /\ At(w, "add_channel")
  /\ \/ Taken(channels, req[w].name) /\ Drop(w) /\ UNCHANGED channels
     \/ /\ ~Taken(channels, req[w].name)
        /\ channels' = Append(channels, [name |-> req[w].name, owner |-> me[w]])
        /\ got' = [got EXCEPT ![w] = Len(channels) + 1]
        /\ Goto(w, "join")
        /\ UNCHANGED << req, me, uname, row, out >>
  /\ UNCHANGED << process, users, sessions, members, messages, issued >>

\* Mutant: anybody invites, into any channel.
OwnedByAnyone(w) == Gate(w, "owned", TRUE, "invitee")

\* invite_user: the channel exists and is the caller's ...
Owned(w) ==
  Gate(w, "owned", req[w].chan \in { c \in DOMAIN channels :
                                       channels[c].owner = me[w] }, "invitee")

\* Mutant: the user to invite need not exist.
AnyInvitee(w) == Gate(w, "invitee", TRUE, "joined")

\* ... the user to invite exists ...
Invitee(w) == Gate(w, "invitee", req[w].uid \in DOMAIN users, "joined")

\* ... and is not a member yet.
Joined(w) ==
  Gate(w, "joined", << req[w].uid, req[w].chan >> \notin members, "join")

\* Mutant: the columns of the primary key are swapped.
SwappedMember(w) == IF Cmd(w) = "new_channel" THEN << got[w], me[w] >>
                                             ELSE << req[w].chan, req[w].uid >>

\* The row both handlers write: the creator's own, or the invited user's.
NewMember(w) == IF Cmd(w) = "new_channel" THEN << me[w], got[w] >>
                                          ELSE << req[w].uid, req[w].chan >>

\* REPLACE INTO channel_member.
Join(w) ==
  /\ At(w, "join")
  /\ members' = members \cup { NewMember(w) }
  /\ Reply(w, Okay(IF Cmd(w) = "new_channel" THEN {got[w]} ELSE {}))
  /\ UNCHANGED << process, users, sessions, channels, messages, issued >>

-----------------------------------------------------------------------------
(* The messages: send_msg, channel_msg.                                    *)

\* Mutants: no membership is asked for; both handlers go on as channel_msg.
AccessByAnyone(w) ==
  Gate(w, "access", TRUE, IF Cmd(w) = "send_msg" THEN "post" ELSE "list")
AccessThenList(w) ==
  Gate(w, "access", << me[w], req[w].chan >> \in members, "list")

\* user_can_access.
Access(w) ==
  Gate(w, "access", << me[w], req[w].chan >> \in members,
       IF Cmd(w) = "send_msg" THEN "post" ELSE "list")

\* send_msg: INSERT.
Post(w) ==
  /\ At(w, "post")
  /\ messages' = Append(messages, [sender |-> me[w], channel |-> req[w].chan])
  /\ Reply(w, Okay({}))
  /\ UNCHANGED << process, users, sessions, channels, members, issued >>

\* channel_msg: the messages of the channel.
ListMessages(w) ==
  /\ At(w, "list")
  /\ Reply(w, Okay({ i \in DOMAIN messages : messages[i].channel = req[w].chan }))
  /\ Reads

-----------------------------------------------------------------------------
(* The queries: channel_list, channel_details, user_details.               *)

ChannelsOf(u) == { m[2] : m \in { n \in members : n[1] = u } }
MembersOf(c)  == { m[1] : m \in { n \in members : n[2] = c } }

\* channel_list: the channels joined with the caller's memberships.
ListChannels(w) ==
  /\ At(w, "channels")
  /\ Reply(w, Okay(ChannelsOf(me[w]) \cap DOMAIN channels))
  /\ Reads

\* channel_details: the members, one of whom must be the caller.
ReadMembers(w) ==
  /\ At(w, "members")
  /\ \/ me[w] \notin MembersOf(req[w].chan) /\ Refuse(w)
     \/ me[w] \in MembersOf(req[w].chan)
          /\ out' = [out EXCEPT ![w].data = MembersOf(req[w].chan)]
          /\ Goto(w, "channel")
          /\ UNCHANGED << req, me, uname, row, got >>
  /\ Reads

\* channel_details: the channel itself.
ReadChannel(w) ==
  /\ At(w, "channel")
  /\ \/ req[w].chan \notin DOMAIN channels /\ Refuse(w)
     \/ req[w].chan \in DOMAIN channels /\ Reply(w, Okay(out[w].data))
  /\ Reads

\* user_details: the user asked about.
Target(w) == Gate(w, "target", req[w].uid \in DOMAIN users, "mutual")

\* user_details: both sides of the IN select the memberships of that user;
\* the caller does not occur in the query.
Mutual(w) ==
  /\ At(w, "mutual")
  /\ Reply(w, Okay(ChannelsOf(req[w].uid) \cap ChannelsOf(req[w].uid)))
  /\ Reads

-----------------------------------------------------------------------------
Account(w) == FindUser(w) \/ Mint(w) \/ Revoke(w) \/ AddUser(w) \/ SetPass(w)

Membership(w) == AddChannel(w) \/ Owned(w) \/ Invitee(w) \/ Joined(w) \/ Join(w)

Message(w) == Access(w) \/ Post(w) \/ ListMessages(w)

Query(w) == \/ ListChannels(w) \/ ReadMembers(w) \/ ReadChannel(w)
            \/ Target(w) \/ Mutual(w)

\* What a worker thread does by itself once it has a request.
Step(w) ==
  \/ CheckSession(w) \/ CheckUser(w) \/ NoTables(w)
  \/ Account(w) \/ Membership(w) \/ Message(w) \/ Query(w)
  \/ Send(w) \/ SendFails(w)

\* What the clients do.
Client(w) == Accept(w) \/ Receive(w) \/ Disconnect(w)

MainThread == Boot \/ BootSchema \/ BootUser \/ BootChannel \/ BootMember

Next == MainThread \/ Crash \/ \E w \in Workers : Step(w) \/ Client(w)

Spec == Init /\ [][Next]_vars

\* The scheduler runs every thread of the process; nothing makes a client send.
Fairness == WF_vars(MainThread) /\ \A w \in Workers : WF_vars(Step(w))

FairSpec == Spec /\ Fairness

-----------------------------------------------------------------------------
(* Properties.                                                             *)

\* The statements a handler runs for a user it has authenticated.
Authenticated ==
  Statements \ {"find_user", "session", "user", "mint", "add_user"}

\* No request is served as a user the token it carries was never issued to:
\* whatever logins, logouts and replaced sessions run between the two
\* statements of check_session_key and the handler's later statements.
ServedAsTokenHolder ==
  \A w \in Workers :
    pc[w] \in Authenticated => << Token(w), me[w] >> \in issued

\* Every reference between the tables holds, and those the threads carry over
\* from one statement to the next do: the .value() in check_session_key never
\* meets an absent user, and no member, owner or sender is dangling.
References ==
  /\ \A s \in sessions : s.user \in DOMAIN users
  /\ \A c \in DOMAIN channels : channels[c].owner \in DOMAIN users
  /\ members \subseteq (DOMAIN users) \X (DOMAIN channels)
  /\ \A w \in Workers : pc[w] = "user" => row[w] \in DOMAIN users
  /\ \A w \in Workers : pc[w] \in Authenticated => me[w] \in DOMAIN users

\* The sender of every stored message is a member of its channel: the
\* membership send_msg checked still holds when its INSERT runs.
SenderIsMember ==
  \A i \in DOMAIN messages :
    << messages[i].sender, messages[i].channel >> \in members

\* A channel's creator is a member of it, except while the thread that
\* inserted it is about to add him; a crash between the two INSERTs is the
\* only way to leave a channel its owner is not in.
CreatorIsMember ==
  crashes = 0 =>
    \A c \in DOMAIN channels :
      \/ << channels[c].owner, c >> \in members
      \/ main = "member"
      \/ \E w \in Workers :
           pc[w] = "join" /\ Cmd(w) = "new_channel" /\ got[w] = c

\* An "ok" tells the truth: what it acknowledges is in the tables, under the
\* identity of the user the request was served as.
AcknowledgedIsStored ==
  \A w \in Workers : (pc[w] = "reply" /\ out[w].status = "ok") =>
    /\ Cmd(w) = "new_user" => \E u \in DOMAIN users : users[u].name = req[w].name
    /\ Cmd(w) = "login" =>
         /\ users[me[w]].name = req[w].name
         /\ \A k \in out[w].data : << k, me[w] >> \in issued
    /\ Cmd(w) = "new_channel" =>
         \A c \in out[w].data :
           /\ channels[c] = [name |-> req[w].name, owner |-> me[w]]
           /\ << me[w], c >> \in members
    /\ Cmd(w) = "invite_user" => << req[w].uid, req[w].chan >> \in members
    /\ Cmd(w) = "send_msg" =>
         \E i \in DOMAIN messages :
           messages[i] = [sender |-> me[w], channel |-> req[w].chan]

\* What a query shows comes from the channels its caller is a member of.
AnswersWithinMembership ==
  \A w \in Workers : (pc[w] = "reply" /\ out[w].status = "ok") =>
    /\ Cmd(w) = "channel_msg" =>
         \A i \in out[w].data : << me[w], messages[i].channel >> \in members
    /\ Cmd(w) = "channel_details" => << me[w], req[w].chan >> \in members
    /\ Cmd(w) = "channel_list" =>
         \A c \in out[w].data : << me[w], c >> \in members

\* Every step of the server is one permitted act of the ledger, or none.
Ledger == INSTANCE ChatLedger
ImplementsLedger == Ledger!Spec

\* Every request ends: the worker replies, or gives its connection up.
RequestsEnd == \A w \in Workers : pc[w] \notin Resting ~> pc[w] \in Resting

=============================================================================
