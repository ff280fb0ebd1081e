--------------------------- MODULE ChatInvariant ----------------------------
(***************************************************************************)
(* The inductive invariant of ChatServer: what a handler has learnt from   *)
(* its earlier statements is still true when the next one runs, because no *)
(* statement of another thread takes back a user, a channel, an owner, a   *)
(* member or an issued token.  Sessions are the only rows that go away,    *)
(* and no handler looks at its session again after check_session_key.      *)
(***************************************************************************)
EXTENDS ChatServer

\* The commands whose handler has a statement.
CommandsAt(s) ==
  CASE s \in {"find_user", "mint"}               -> {"login"}
    [] s \in {"session", "user"}                 ->
         AllCommands \ {"new_user", "unknown", "malformed"}
    [] s = "revoke"                              -> {"logout"}
    [] s = "set_pass"                            -> {"change_pass"}
    [] s = "add_user"                            -> {"new_user"}
    [] s = "add_channel"                         -> {"new_channel"}
    [] s \in {"owned", "invitee", "joined"}      -> {"invite_user"}
    [] s = "join"                                -> {"new_channel", "invite_user"}
    [] s = "access"                              -> {"send_msg", "channel_msg"}
    [] s = "post"                                -> {"send_msg"}
    [] s = "list"                                -> {"channel_msg"}
    [] s = "channels"                            -> {"channel_list"}
    [] s \in {"members", "channel"}              -> {"channel_details"}
    [] s \in {"target", "mutual"}                -> {"user_details"}
    [] OTHER                                     -> AllCommands

Owns(u, c) == c \in DOMAIN channels /\ channels[c].owner = u

\* Worker w serves a command its statement belongs to ...
Dispatched(w) == pc[w] \in Statements => Cmd(w) \in CommandsAt(pc[w])

\* ... as a user the token was issued to, under the name he still has ...
Identified(w) ==
  /\ pc[w] = "user" => row[w] \in DOMAIN users /\ << Token(w), row[w] >> \in issued
  /\ pc[w] \in {"session", "user", "mint"} /\ Cmd(w) = "login" =>
       me[w] \in DOMAIN users /\ got[w] \in Keys
  /\ pc[w] \in Authenticated =>
       /\ me[w] \in DOMAIN users /\ << Token(w), me[w] >> \in issued
       /\ uname[w] = {users[me[w]].name}

\* ... and what its checks have found out is still so.
Permitted(w) ==
  /\ pc[w] \in {"invitee", "joined"} => Owns(me[w], req[w].chan)
  /\ pc[w] = "joined" => req[w].uid \in DOMAIN users
  /\ pc[w] = "join" /\ Cmd(w) = "invite_user" =>
       Owns(me[w], req[w].chan) /\ req[w].uid \in DOMAIN users
  /\ pc[w] = "join" /\ Cmd(w) = "new_channel" => Owns(me[w], got[w])
  /\ pc[w] = "post" => << me[w], req[w].chan >> \in members

WorkerInv(w) == Dispatched(w) /\ Identified(w) /\ Permitted(w)

\* The tables agree with each other and with what was issued.
TablesInv ==
  /\ \A s \in sessions : s.user \in DOMAIN users /\ << s.key, s.user >> \in issued
  /\ \A c \in DOMAIN channels : channels[c].owner \in DOMAIN users
  /\ members \subseteq (DOMAIN users) \X (DOMAIN channels)
  /\ SenderIsMember

\* The initialization runs once, alone, on empty tables.
BootInv ==
  /\ main # "serving" => \A w \in Workers : pc[w] = "closed"
  /\ file = "absent" => main = "down" /\ created = 0
  /\ main = "schema" => created < Len(SchemaOrder)
  /\ main \in {"schema", "user", "channel", "member"} => issued = {}
  /\ file = "absent" \/ main \in {"schema", "user"} =>
       users = << >> /\ channels = << >> /\ issued = {}
  /\ main = "channel" => Len(users) = 1 /\ channels = << >>
  /\ main = "member" =>
       Len(users) = 1 /\ Len(channels) = 1 /\ channels[1].owner = 1

IInv ==
  /\ TypeOK
  /\ TablesInv
  /\ BootInv
  /\ \A w \in Workers : WorkerInv(w)

-----------------------------------------------------------------------------
(* What a worker's position says of the answer it is about to give, and    *)
(* what an accepting answer says.                                          *)

\* A handler knows whom it logs in, which channel it has made, and that the
\* caller is a member of the channel it is about to show ...
Learnt(w) ==
  /\ pc[w] \in {"session", "user", "mint"} /\ Cmd(w) = "login" =>
       users[me[w]].name = req[w].name
  /\ pc[w] = "join" /\ Cmd(w) = "new_channel" =>
       channels[got[w]] = [name |-> req[w].name, owner |-> me[w]]
  /\ pc[w] \in {"list", "channel"} => << me[w], req[w].chan >> \in members

\* ... and once it has answered "ok", the answer is so.
Told(w) == (pc[w] = "reply" /\ out[w].status = "ok") =>
  /\ Cmd(w) = "new_user" => \E u \in DOMAIN users : users[u].name = req[w].name
  /\ Cmd(w) = "login" =>
       /\ me[w] \in DOMAIN users /\ users[me[w]].name = req[w].name
       /\ \A k \in out[w].data : << k, me[w] >> \in issued
  /\ Cmd(w) = "new_channel" =>
       \A c \in out[w].data :
         /\ c \in DOMAIN channels
         /\ channels[c] = [name |-> req[w].name, owner |-> me[w]]
         /\ << me[w], c >> \in members
  /\ Cmd(w) = "invite_user" => << req[w].uid, req[w].chan >> \in members
  /\ Cmd(w) = "send_msg" =>
       \E i \in DOMAIN messages :
         messages[i] = [sender |-> me[w], channel |-> req[w].chan]
  /\ Cmd(w) = "channel_msg" =>
       \A i \in out[w].data :
         i \in DOMAIN messages /\ << me[w], messages[i].channel >> \in members
  /\ Cmd(w) = "channel_details" => << me[w], req[w].chan >> \in members
  /\ Cmd(w) = "channel_list" => \A c \in out[w].data : << me[w], c >> \in members

AnswersInv == \A w \in Workers : Learnt(w) /\ Told(w)

\* A server that has not crashed has a complete schema, so no thread that has
\* inserted a channel fails for the lack of it before it adds the creator.
SchemaInv ==
  crashes = 0 =>
    /\ main = "down" => file = "absent"
    /\ main \notin {"down", "schema"} => created = Len(SchemaOrder)

=============================================================================
