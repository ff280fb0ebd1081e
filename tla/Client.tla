------------------------------- MODULE Client -------------------------------
(***************************************************************************)
(* The command-line client (cli::run_wait_loop and its menus) on its one   *)
(* connection: what it reads from stdin, which request it sends for it and *)
(* to which menu each answer, refusal or end of the connection leads.  The *)
(* server is kept to what decides its answers: whom it takes the client's  *)
(* token for, and who is a member of which channel; ChatServer has the     *)
(* whole of it.  Other clients log out, invite and create meanwhile.       *)
(*                                                                         *)
(* An answer longer than a read leaves rests, which the next reads take    *)
(* for answers.  None of them is decoded (Session has their bytes), and a  *)
(* program that survives that reads the answers to earlier requests from   *)
(* then on.                                                                *)
(*                                                                         *)
(* stdin is a stream that fails for good at the first word that is no      *)
(* number where one is read, and at the end of the input: every later read *)
(* returns at once with nothing.  A prompt that then has no action in the  *)
(* model is a loop in the code that prints the prompt for ever.            *)
(***************************************************************************)
EXTENDS Naturals, Sequences

CONSTANTS
  Users,      \* ids of users the user of this client types
  NoUser,     \* 0, and an id that no user has
  Chans,      \* ids of channels
  NoChan,     \* 0, and an id that no channel has
  MaxRests    \* bound: the rests that all answers together leave

ASSUME ClientAssumption ==
  NoUser \notin Users /\ NoChan \notin Chans /\ MaxRests \in Nat

VARIABLES
  at,         \* where the program is: at a prompt or between two requests
  stdin,      \* "good", "failed", or at its "end"
  typed,      \* the words of the line that was typed and not read yet
  uid,        \* choose_user's uid
  chan_id,    \* run_in_channel_menu's chan_id
  chan,       \* run_in_channel_menu's chan, fetched when the menu is entered
  left,       \* the members .u has not shown yet
  request,    \* the request whose answer the program waits for
  server,     \* the thread at the other end: "open" or "closed"
  up, down,   \* requests not served yet; answers and rests not read yet
  holder,     \* table session_key: the user the client's token stands for
  members,    \* table channel_member; {} for a channel not created yet
  shown,      \* history: the user confirm_user shows
  behind      \* history: the rests that answers have left

menus == << uid, chan_id, chan, left, shown >>
program == << at, stdin, typed, request, menus >>
tables  == << holder, members >>
remote  == << server, behind, tables >>
vars == << at, stdin, typed, uid, chan_id, chan, left, request, server, up,
           down, holder, members, shown, behind >>

\* What each menu takes for a command.
Options ==
  [login    |-> {".l", ".s", ".q"},
   main     |-> {".cs", ".cc", ".cp", ".l", ".q"},
   channels |-> {".c", ".b", ".r", ".q"},
   channel  |-> {".m", ".s", ".u", ".i", ".b", ".q"},
   after_signup |-> {"y", "n"},
   confirm  |-> {"y", "n"}]

Commands == {"login", "main", "channels", "channel"}
\* Two passwords, then again two until they are the same.
Passwords == {"signup", "change_pass"}
Prompts == DOMAIN Options \cup Passwords \cup {"channel_id", "choose"}

\* Where the program sends a request without a prompt.
Between == {"list", "details", "members", "lookup", "invite"}

\* What is typed at a prompt; ".q" is tried everywhere.  More may stand behind
\* the id of a user, as in "1 2", or the "y" of "1y", and is read next.
Lines(p) ==
  LET ids == Users \cup {NoUser} IN
  { << w >> : w \in
      CASE p \in DOMAIN Options -> Options[p] \cup {".q"}
        [] p \in Passwords -> {"same", "other"}
        [] p = "channel_id" -> Chans \cup {NoChan, ".q"}
        [] p = "choose" -> ids \cup {".q"} }
  \cup (IF p = "choose" THEN { << u, w >> : u \in ids, w \in Users \cup {"y"} }
        ELSE {})

Request(cmd, c, u) == [cmd |-> cmd, chan |-> c, uid |-> u]
Plain(cmd) == Request(cmd, NoChan, NoUser)
NoRequest == Plain("none")

\* What the server sends for the request about, and the reads it still takes
\* after the first; and what such a read finds.
Reply(kind, about, us, rests) ==
  [kind |-> kind, about |-> about, members |-> us, rests |-> rests]
Remainder(n) == Reply("rest", NoRequest, {}, n)

\* The requests whose answer is a list, or has one, and may be longer than a
\* read, and those whose answer has no field.
Listing == {"channel_list", "channel_msg", "channel_details", "user_details"}
Bare == {"logout", "new_user", "send_msg", "change_pass", "invite_user"}

\* Mutant: only the command of an answer is looked at.
FitsAny(r, s) == TRUE

\* The answer to r has the fields that are required of an answer to s.  No
\* other has the token of a login's, so that a program that is answered late
\* never has a token again once it has logged out.
Fits(r, s) ==
  \/ s.cmd \in Bare \/ r.cmd = s.cmd
  \/ s.cmd = "new_channel" /\ r.cmd \in {"channel_details", "user_details"}

Idle == request = NoRequest

Requests ==
  [cmd : Listing \cup Bare \cup {"login", "new_channel", "none"},
   chan : Chans \cup {NoChan}, uid : Users \cup {NoUser}]
Answers ==
  [kind : {"ok", "err", "rest"}, about : Requests, members : SUBSET Users,
   rests : 0..MaxRests]

TypeOK ==
  /\ at \in Prompts \cup Between \cup {"ended"}
  /\ stdin \in {"good", "failed", "end"}
  /\ typed = << >> \/ \E p \in Prompts : \E l \in Lines(p) : typed \in {l, Tail(l)}
  /\ uid \in Users \cup {NoUser} /\ shown \in Users \cup {NoUser}
  /\ chan_id \in Chans \cup {NoChan}
  /\ chan.id \in Chans \cup {NoChan} /\ chan.members \subseteq Users
  /\ left \subseteq chan.members
  /\ server \in {"open", "closed"}
  /\ request \in Requests /\ up \in Seq(Requests) /\ down \in Seq(Answers)
  /\ behind \in 0..MaxRests
  /\ holder \in Users \cup {NoUser}
  /\ members \in [Chans -> SUBSET Users]

\* After main() has connected; some channels exist.
Init ==
  /\ at = "login" /\ stdin = "good" /\ typed = << >>
  /\ uid = NoUser /\ chan_id = NoChan /\ shown = NoUser
  /\ chan = [id |-> NoChan, members |-> {}] /\ left = {}
  /\ request = NoRequest
  /\ server = "open" /\ up = << >> /\ down = << >> /\ behind = 0
  /\ holder = NoUser
  /\ members \in [Chans -> {{}} \cup { {u} : u \in Users }]

-----------------------------------------------------------------------------
(* The user.                                                               *)

AtPrompt == at \in Prompts /\ Idle

Type(l) ==
  /\ AtPrompt /\ l \in Lines(at)
  /\ (typed = << >> /\ stdin = "good") \/ stdin = "failed"
  /\ typed' = l
  /\ UNCHANGED << at, stdin, request, up, down, menus >>

-----------------------------------------------------------------------------
(* What the program does with what it reads from stdin.                    *)

\* The program ends, by itself or killed by SIGPIPE, and the connection with
\* it.
End ==
  /\ at' = "ended" /\ request' = NoRequest
  /\ up' = << >> /\ down' = << >>

\* run_boilerplate up to the read.  What is sent after the server closed the
\* connection is lost, or ends the program.
Send(r) ==
  \/ /\ request' = r
     /\ up' = (IF server = "open" THEN Append(up, r) ELSE up)
     /\ UNCHANGED << at, down >>
  \/ server = "closed" /\ End

Move(to) == at' = to /\ UNCHANGED << request, up, down >>

\* getline at the prompt p reads the one word w.
Line(p, w) ==
  /\ at = p /\ Idle /\ stdin = "good"
  /\ typed = << w >> /\ typed' = << >>

Go(p, w, to) == Line(p, w) /\ Move(to) /\ UNCHANGED << stdin, menus >>
Quit(p) == Line(p, ".q") /\ End /\ UNCHANGED << stdin, menus >>
Ask(p, w, r) == Line(p, w) /\ Send(r) /\ UNCHANGED << stdin, menus >>

\* The same, with texts for the request: the input may end among them, which
\* leaves the rest empty, and a text too long to send ends the program.
AskTexts(p, w, r) ==
  /\ Line(p, w)
  /\ \/ Send(r) /\ stdin' \in {"good", "end"}
     \/ End /\ UNCHANGED stdin
  /\ UNCHANGED menus

Unrecognized ==
  /\ at \in DOMAIN Options /\ Idle /\ stdin = "good"
  /\ typed # << >> /\ \A w \in Options[at] : typed # << w >>
  /\ typed' = << >>
  /\ UNCHANGED << at, stdin, request, up, down, menus >>

\* The input ends while the program reads.  Of two passwords the first, or
\* the second only, may then be empty: the prompt goes on or never ends.
EndOfInput ==
  /\ AtPrompt /\ stdin = "good" /\ typed = << >>
  /\ stdin' = "end"
  /\ \/ UNCHANGED << at, request, up, down >>
     \/ at = "signup" /\ Send(Plain("new_user"))
     \/ at = "change_pass" /\ Send(Plain("change_pass"))
  /\ UNCHANGED << typed, menus >>

Login ==
  \/ AskTexts("login", ".l", Plain("login"))
  \/ Go("login", ".s", "signup")
  \/ Quit("login")
  \/ AskTexts("signup", "same", Plain("new_user"))
  \/ Go("signup", "other", "signup")
  \/ AskTexts("after_signup", "y", Plain("login"))
  \/ Go("after_signup", "n", "login")

MainMenu ==
  \/ Ask("main", ".l", Plain("logout"))
  \/ Go("main", ".cs", "list")
  \/ AskTexts("main", ".cc", Plain("new_channel"))
  \/ Go("main", ".cp", "change_pass")
  \/ AskTexts("change_pass", "same", Plain("change_pass"))
  \/ Go("change_pass", "other", "change_pass")
  \/ Quit("main")

ChannelsMenu ==
  \/ Go("channels", ".c", "channel_id")
  \/ Go("channels", ".r", "list")
  \/ Go("channels", ".b", "main")
  \/ Quit("channels")

\* cin >> x for a number, which value becomes: a word that is no number stays
\* in the stream, which fails, and x is none of the ids.  From a stream that
\* has failed, x keeps the value it had.
Number(ids, none, before, value, rest) ==
  \/ /\ stdin = "good" /\ typed # << >>
     /\ IF Head(typed) \in ids
        THEN value = Head(typed) /\ typed' = rest /\ UNCHANGED stdin
        ELSE value = none /\ stdin' = "failed" /\ UNCHANGED typed
  \/ /\ stdin # "good"
     /\ value \in before /\ UNCHANGED << stdin, typed >>

\* id has no value before it is read; flush() reads the rest of the line.
ChannelId ==
  /\ at = "channel_id" /\ Idle
  /\ LET ids == Chans \cup {NoChan} IN
     Number(ids, NoChan, ids, chan_id', << >>)
  /\ Move("details")
  /\ UNCHANGED << uid, chan, left, shown >>

ChannelMenu ==
  \/ Ask("channel", ".m", Request("channel_msg", chan_id, NoUser))
  \/ AskTexts("channel", ".s", Request("send_msg", chan_id, NoUser))
  \/ Go("channel", ".b", "list")
  \/ Quit("channel")

ViewUsers ==
  /\ Line("channel", ".u") /\ Move("members")
  /\ left' = chan.members
  /\ UNCHANGED << stdin, uid, chan_id, chan, shown >>

\* choose_user: its uid has no value yet.
Invite ==
  /\ Line("channel", ".i") /\ Move("choose")
  /\ uid' \in Users \cup {NoUser}
  /\ UNCHANGED << stdin, chan_id, chan, left, shown >>

\* The rest of the line stays in the stream, for confirm_user.
UserId ==
  /\ at = "choose" /\ Idle
  /\ Number(Users \cup {NoUser}, NoUser, {uid}, uid', Tail(typed))
  /\ Move("lookup")
  /\ UNCHANGED << chan_id, chan, left, shown >>

Confirm == Go("confirm", "y", "invite") \/ Go("confirm", "n", "choose")

\* A request that needs no further input.
Follow(p, r) ==
  /\ at = p /\ Idle /\ Send(r)
  /\ UNCHANGED << stdin, typed, menus >>

FollowUp ==
  \/ Follow("list", Plain("channel_list"))
  \/ Follow("details", Request("channel_details", chan_id, NoUser))
  \/ \E u \in left : Follow("members", Request("user_details", NoChan, u))
  \/ Follow("lookup", Request("user_details", NoChan, uid))
  \/ Follow("invite", Request("invite_user", chan_id, uid))

AllShown ==
  /\ at = "members" /\ Idle /\ left = {}
  /\ Move("channel")
  /\ UNCHANGED << stdin, typed, menus >>

Input ==
  \/ Unrecognized \/ Login \/ MainMenu \/ ChannelsMenu \/ ChannelId
  \/ ChannelMenu \/ ViewUsers \/ Invite \/ UserId \/ Confirm

-----------------------------------------------------------------------------
(* What the program does with an answer.                                   *)

\* Where an accepted request leads, by where it was sent.
Accepted ==
  CASE at \in {"login", "after_signup", "change_pass"} -> "main"
    [] at = "signup" -> "after_signup"
    [] at = "main" -> IF request.cmd = "logout" THEN "login" ELSE "main"
    [] at = "list" -> "channels"
    [] at \in {"details", "channel", "invite"} -> "channel"
    [] at = "members" -> "members"
    [] at = "lookup" -> "confirm"

\* Mutant: choose_user's inv_user is FALSE from the start.
RefusedUnconfirmed ==
  CASE at \in {"login", "after_signup", "signup"} -> "ended"
    [] at \in {"main", "change_pass", "list"} -> "main"
    [] at \in {"details", "channel", "members", "invite"} -> "list"
    [] at = "lookup" -> "invite"

\* Mutant: a refused channel is entered all the same.
RefusedInside ==
  CASE at \in {"login", "after_signup", "signup"} -> "ended"
    [] at \in {"main", "change_pass", "list"} -> "main"
    [] at \in {"details", "channel", "members", "invite"} -> "channel"
    [] at = "lookup" -> "choose"

\* Mutant: run_channel_menu catches a refusal inside its loop.
RefusedAgain ==
  CASE at \in {"login", "after_signup", "signup"} -> "ended"
    [] at \in {"main", "change_pass"} -> "main"
    [] at \in {"list", "details", "channel", "members", "invite"} -> "list"
    [] at = "lookup" -> "choose"

\* And a refused one, a cli_error.
Refused ==
  CASE at \in {"login", "after_signup", "signup"} -> "ended"
    [] at \in {"main", "change_pass", "list"} -> "main"
    [] at \in {"details", "channel", "members", "invite"} -> "list"
    [] at = "lookup" -> "choose"

\* What is left to read after a read.
Unread ==
  IF Head(down).rests = 0 THEN Tail(down)
  ELSE [down EXCEPT ![1] = Remainder(Head(down).rests - 1)]

\* The request is over, the program goes on at the place to.
Return(to, rest) ==
  IF to = "ended" THEN End
  ELSE /\ at' = to /\ request' = NoRequest
       /\ down' = rest /\ UNCHANGED up

\* An answer with all fields, of whatever request: only texts are lost of one
\* that was cut.
Accept(a) ==
  /\ a.kind = "ok" /\ Fits(a.about, request)
  /\ Return(Accepted, Unread)
  /\ chan' = IF at = "details" THEN [id |-> a.about.chan, members |-> a.members]
             ELSE chan
  /\ left' = IF at = "members" THEN left \ {request.uid} ELSE left
  /\ shown' = IF at = "lookup" THEN a.about.uid ELSE shown

\* A cli_error: an error, or a field is missing.
Refuse(a) ==
  /\ \/ a.kind = "err"
     \/ a.kind = "ok" /\ ~Fits(a.about, request)
     \/ a.kind = "ok" /\ a.rests > 0 /\ request.cmd \notin Bare
  /\ Return(Refused, Unread)
  /\ left' = {} /\ UNCHANGED << chan, shown >>

\* Any other exception: only choose_user catches it, and asks for a user again.
Thrown == IF at = "lookup" THEN "choose" ELSE "ended"

\* The constructor of message throws, before anything catches its error.
Garbled(a) ==
  /\ a.kind = "rest" \/ a.rests > 0
  /\ Return(Thrown, Unread)
  /\ UNCHANGED << chan, left, shown >>

Receive ==
  /\ ~Idle /\ down # << >>
  /\ LET a == Head(down) IN Accept(a) \/ Refuse(a) \/ Garbled(a)
  /\ UNCHANGED << stdin, typed, uid, chan_id, remote >>

\* The read fails.
Hangup ==
  /\ ~Idle /\ server = "closed" /\ down = << >>
  /\ Return(Thrown, down)
  /\ UNCHANGED << stdin, typed, menus, remote >>

-----------------------------------------------------------------------------
(* The server's thread, and what happens behind it.                        *)

\* Mutant: nobody looks whether the invited user exists.
PermittedUnknown(r) ==
  \/ r.cmd = "login"
  \/ r.cmd = "new_user"
  \/ holder # NoUser /\ r.cmd \in {"logout", "channel_list", "new_channel",
                                   "change_pass", "user_details"}
  \/ /\ r.cmd \in {"channel_details", "channel_msg", "send_msg", "invite_user"}
     /\ r.chan \in Chans /\ holder \in members[r.chan]

\* check_session_key, user_can_access and what else a handler requires.
Permitted(r) ==
  \/ r.cmd = "login"
  \/ r.cmd = "new_user"
  \/ holder # NoUser /\ r.cmd \in {"logout", "channel_list", "new_channel",
                                   "change_pass"}
  \/ holder # NoUser /\ r.cmd = "user_details" /\ r.uid \in Users
  \/ /\ r.cmd \in {"channel_details", "channel_msg", "send_msg"}
     /\ r.chan \in Chans /\ holder \in members[r.chan]
  \/ /\ r.cmd = "invite_user"
     /\ r.chan \in Chans /\ holder \in members[r.chan]
     /\ r.uid \in Users \ members[r.chan]

\* A wrong name or password, and an invitation by another than the channel's
\* owner, are refused too.
Refusable(r) == ~Permitted(r) \/ r.cmd \in {"login", "invite_user"}

\* What a permitted request does to the tables.  A new channel is one of
\* Chans or another.
Effect(r) ==
  CASE r.cmd = "login" -> holder' \in Users /\ UNCHANGED members
    [] r.cmd = "logout" -> holder' = NoUser /\ UNCHANGED members
    [] r.cmd = "invite_user" ->
         /\ members' = [members EXCEPT ![r.chan] = @ \cup {r.uid}]
         /\ UNCHANGED holder
    [] r.cmd = "new_channel" ->
         /\ \/ UNCHANGED members
            \/ \E c \in Chans : members[c] = {}
                 /\ members' = [members EXCEPT ![c] = {holder}]
         /\ UNCHANGED holder
    [] OTHER -> UNCHANGED tables

\* The answer is sent; the thread may find then that it was asked to stop.
Answer(a) ==
  /\ down' = Append(down, a) /\ behind' = behind + a.rests
  /\ \/ up' = Tail(up) /\ UNCHANGED server
     \/ up' = << >> /\ server' = "closed"

\* The rests an answer to r leaves.
Rests(r) == IF r.cmd \in Listing THEN 0..(MaxRests - behind) ELSE {0}

\* Mutant: the worker catches the exception inside its loop.
ThrowInside(r) ==
  /\ up' = Tail(up)
  /\ UNCHANGED << server, down, behind, tables >>

\* handle throws, which no proto_error is: after any of the handler's steps.
Throw(r) ==
  /\ up' = << >> /\ server' = "closed"
  /\ UNCHANGED tables \/ (Permitted(r) /\ Effect(r))
  /\ UNCHANGED << down, behind >>

Serve ==
  /\ server = "open" /\ up # << >>
  /\ LET r == Head(up) IN
     \/ /\ Permitted(r) /\ Effect(r)
        /\ \E n \in Rests(r) :
             Answer(Reply("ok", r, IF r.cmd = "channel_details"
                                   THEN members[r.chan] ELSE {}, n))
     \/ Refusable(r) /\ UNCHANGED tables /\ Answer(Reply("err", r, {}, 0))
     \/ Throw(r)
  /\ UNCHANGED program

\* The server is killed.
Die ==
  /\ server = "open" /\ server' = "closed" /\ up' = << >>
  /\ UNCHANGED << program, down, behind, tables >>

\* Another client of the same user logs out: all the user's sessions end.
LogoutElsewhere ==
  /\ holder # NoUser /\ holder' = NoUser
  /\ UNCHANGED << program, server, up, down, behind, members >>

\* Another client's new_channel or invite_user.
JoinElsewhere ==
  /\ \E c \in Chans, u \in Users :
       members' = [members EXCEPT ![c] = @ \cup {u}]
  /\ UNCHANGED << program, server, up, down, behind, holder >>

-----------------------------------------------------------------------------
User == (\E p \in Prompts : \E l \in Lines(p) : Type(l)) \/ EndOfInput

Program ==
  \/ (Input \/ FollowUp \/ AllShown) /\ UNCHANGED remote
  \/ Receive \/ Hangup

Next ==
  \/ User /\ UNCHANGED remote
  \/ Program
  \/ Serve
  \/ Die \/ LogoutElsewhere \/ JoinElsewhere

Spec == Init /\ [][Next]_vars

\* Both processes run; nobody makes the user type.
FairSpec == Spec /\ WF_vars(Program) /\ WF_vars(Serve)

-----------------------------------------------------------------------------
(* Properties.                                                             *)

\* In a channel's menus, whatever happened to the session and to the answers
\* since: what is shown is a channel as the server described it, and everybody
\* shown as a member is one; and it is the channel the requests name, unless
\* an answer was longer than a read.
ChannelInStep ==
  at \in {"channel", "members", "choose", "lookup", "confirm", "invite"} =>
     /\ chan.members # {} /\ chan.members \subseteq members[chan.id]
     /\ behind = 0 => chan.id = chan_id

\* "Confirm adding user #": who is confirmed, and invited next, is a user the
\* server has described; and he is the user whose id was typed, unless an
\* answer was longer than a read.
ConfirmedIsUser ==
  at \in {"confirm", "invite"} =>
     /\ shown \in Users
     /\ behind = 0 => uid = shown

\* The same of every invitation, as a program has it that "sends the message
\* and attempts to parse its response": violated, because choose_user goes on
\* after an answer it could not decode.
InvitesShown == at = "invite" => uid = shown

\* As long as stdin is good the program comes back to the user, or ends:
\* whatever is refused, no menu sends requests for ever.
ComesBack ==
  stdin = "good" ~> AtPrompt \/ at = "ended" \/ stdin # "good"

\* The menus carry out what Connection promises, and every request ends.
Promised == INSTANCE Connection
              WITH client <- IF at = "ended" THEN "ended"
                             ELSE IF Idle THEN "idle" ELSE "waiting",
                   up <- Len(up), down <- Len(down), cut <- behind > 0
ImplementsConnection == Promised!FairSpec

\* "Whenever a command is requested, you can also enter `.q` to exit."
QuitEnds == at \in Commands /\ typed = << ".q" >> ~> at = "ended"

=============================================================================
