---------------------------- MODULE Client_proofs ----------------------------
(***************************************************************************)
(* The safety of the client's menus, for any users and channels and any    *)
(* number of rests: they keep to what Connection promises, never show what *)
(* the server did not say, and as long as no answer was longer than a read *)
(* stay in step with it.                                                   *)
(***************************************************************************)
EXTENDS Client, SequenceTheorems, TLAPS

-----------------------------------------------------------------------------
(* The kinds of steps the program takes, whichever menu it is in.          *)

LEMMA AllPlaces ==
  Prompts \cup Between =
    {"login", "main", "channels", "channel", "after_signup", "confirm",
     "signup", "change_pass", "channel_id", "choose",
     "list", "details", "members", "lookup", "invite"}
BY DEF Prompts, Between, Options, Passwords

\* No request is NoRequest.
LEMMA RealRequest ==
  ASSUME NEW c, c # "none", NEW g, NEW u
  PROVE  Request(c, g, u) # NoRequest
<1>1. Request(c, g, u).cmd = c /\ NoRequest.cmd = "none"
  BY DEF Request, NoRequest, Plain
<1>2. QED
  BY <1>1

\* What can be sent: each place sends one of these.
Real(r) ==
  /\ r # NoRequest
  /\ r \in [cmd : Listing \cup Bare \cup {"login", "new_channel"},
            chan : {NoChan, chan_id}, uid : {NoUser, uid} \cup left]

LEMMA RealRequests ==
  ASSUME NEW c \in Listing \cup Bare \cup {"login", "new_channel"}
  PROVE  /\ Real(Plain(c))
         /\ \A g \in {NoChan, chan_id}, u \in {NoUser, uid} \cup left :
              Real(Request(c, g, u))
<1>1. c # "none"
  BY DEF Listing, Bare
<1>2. QED
  BY <1>1, RealRequest DEF Real, Plain, Request

\* Where the program waits for an answer, and where it is in a channel.
Places == {"login", "signup", "after_signup", "main", "change_pass", "list",
           "details", "channel", "members", "lookup", "invite"}
Inside == {"channel", "members", "choose", "lookup", "confirm", "invite"}

\* The requests whose answers the program remembers.
Due(r) ==
  /\ at = "lookup" => r = Request("user_details", NoChan, uid)
  /\ at = "details" => r = Request("channel_details", chan_id, NoUser)
  /\ at = "members" => r.cmd = "user_details" /\ r.uid \in left

\* A request is sent by a program that waits for nothing; or it ends.
Sends ==
  \E r : /\ Real(r) /\ Due(r) /\ at \in Places /\ Idle
         /\ Send(r)
         /\ UNCHANGED << remote, menus >>

Ends == at # "ended" /\ Idle /\ End /\ UNCHANGED << remote, menus >>

\* The program goes to another menu.
Moves ==
  /\ at # "ended" /\ at' \in Prompts \cup Between /\ Idle
  /\ uid' \in Users \cup {NoUser, uid} /\ chan_id' \in Chans \cup {NoChan, chan_id}
  /\ UNCHANGED << chan, shown >>
  /\ \/ UNCHANGED left /\ (at = "members" => left = {})
     \/ left' = chan.members /\ at = "channel" /\ at' = "members"
  /\ at' \in Inside => at \in Inside /\ UNCHANGED << chan_id, chan >>
  /\ at' \in {"confirm", "invite"} => at = "confirm" /\ UNCHANGED << uid, shown >>
  /\ UNCHANGED << request, up, down, remote >>

\* Nothing of the program that matters changes.
Stays == UNCHANGED << at, request, up, down, remote, menus >>

Elsewhere == LogoutElsewhere \/ JoinElsewhere

LEMMA Commanded ==
  \A c, g, u : /\ Request(c, g, u).cmd = c /\ Request(c, g, u).uid = u
              /\ Request(c, g, u).chan = g /\ Plain(c).cmd = c
BY DEF Request, Plain

LEMMA GoKind ==
  ASSUME NEW p, NEW w, NEW to \in Prompts \cup Between,
         Go(p, w, to), UNCHANGED remote,
         p \notin {"ended", "members"},
         to \in Inside => p \in Inside,
         to \in {"confirm", "invite"} => p = "confirm"
  PROVE  Moves
BY DEF Go, Line, Move, Moves, menus

LEMMA AskKind ==
  ASSUME NEW p \in Places, NEW r, at = p, Idle, Send(r),
         UNCHANGED << remote, menus >>,
         Real(r), p \notin {"lookup", "details", "members"}
  PROVE  Sends
<1>1. Due(r)
  BY DEF Due
<1>2. QED
  BY <1>1, Zenon DEF Sends

LEMMA AskTextsKind ==
  ASSUME NEW p \in Places, NEW w, NEW r,
         AskTexts(p, w, r) \/ Ask(p, w, r), UNCHANGED remote,
         Real(r), p \notin {"lookup", "details", "members"}
  PROVE  Sends \/ Ends
<1>1. at = p /\ Idle /\ UNCHANGED menus /\ (Send(r) \/ End)
  BY DEF AskTexts, Ask, Line
<1>2. CASE Send(r)
  BY <1>1, <1>2, AskKind
<1>3. CASE End
  BY <1>1, <1>3 DEF Ends, Places
<1>4. QED
  BY <1>1, <1>2, <1>3

LEMMA Kinds ==
  ASSUME [Next]_vars
  PROVE  \/ Sends \/ Ends \/ Moves \/ Stays
         \/ Receive \/ Hangup \/ Serve \/ Die \/ Elsewhere
<1> USE AllPlaces DEF Inside, Places, Listing, Bare
<1>1. CASE User /\ UNCHANGED remote
  <2>1. CASE \E p \in Prompts : \E l \in Lines(p) : Type(l)
    BY <1>1, <2>1 DEF Type, Stays
  <2>2. CASE EndOfInput
    <3>1. /\ Idle /\ UNCHANGED menus
          /\ \/ UNCHANGED << at, request, up, down >>
             \/ at = "signup" /\ Send(Plain("new_user"))
             \/ at = "change_pass" /\ Send(Plain("change_pass"))
      BY <2>2 DEF EndOfInput, AtPrompt
    <3>2. CASE UNCHANGED << at, request, up, down >>
      BY <1>1, <3>1, <3>2 DEF Stays
    <3>3. CASE at = "signup" /\ Send(Plain("new_user"))
      BY <1>1, <3>1, <3>3, AskKind, RealRequests
    <3>4. CASE at = "change_pass" /\ Send(Plain("change_pass"))
      BY <1>1, <3>1, <3>4, AskKind, RealRequests, Commanded
    <3>5. QED
      BY <3>1, <3>2, <3>3, <3>4
  <2>3. QED
    BY <1>1, <2>1, <2>2 DEF User
<1>2. CASE Input /\ UNCHANGED remote
  <2>1. CASE Unrecognized
    BY <1>2, <2>1 DEF Unrecognized, Stays
  <2>2. CASE Login
    BY <1>2, <2>2, RealRequests, Commanded, GoKind, AskTextsKind
       DEF Login, Quit, Line, Ends
  <2>3. CASE MainMenu
    BY <1>2, <2>3, RealRequests, Commanded, GoKind, AskTextsKind
       DEF MainMenu, Quit, Line, Ends
  <2>4. CASE ChannelsMenu
    BY <1>2, <2>4, GoKind DEF ChannelsMenu, Quit, Line, Ends
  <2>5. CASE ChannelMenu
    BY <1>2, <2>5, RealRequests, Commanded, GoKind, AskTextsKind
       DEF ChannelMenu, Quit, Line, Ends
  <2>6. CASE ChannelId \/ UserId
    BY <1>2, <2>6 DEF ChannelId, UserId, Number, Move, Moves
  <2>7. CASE ViewUsers \/ Invite
    BY <1>2, <2>7 DEF ViewUsers, Invite, Line, Move, Moves
  <2>8. CASE Confirm
    BY <1>2, <2>8, GoKind DEF Confirm
  <2>9. QED
    BY <1>2, <2>1, <2>2, <2>3, <2>4, <2>5, <2>6, <2>7, <2>8 DEF Input
<1>3. CASE FollowUp /\ UNCHANGED remote
  <2>1. CASE Follow("list", Plain("channel_list"))
    BY <1>3, <2>1, RealRequests, Commanded, AskKind DEF Follow
  <2>2. CASE Follow("invite", Request("invite_user", chan_id, uid))
    BY <1>3, <2>2, RealRequests, Commanded, AskKind DEF Follow
  <2>3. CASE Follow("details", Request("channel_details", chan_id, NoUser))
    BY <1>3, <2>3, RealRequests, Commanded DEF Follow, Sends, Due
  <2>4. CASE Follow("lookup", Request("user_details", NoChan, uid))
    BY <1>3, <2>4, RealRequests, Commanded DEF Follow, Sends, Due
  <2>5. ASSUME NEW u \in left, Follow("members", Request("user_details", NoChan, u))
        PROVE  Sends
    BY <1>3, <2>5, RealRequests, Commanded DEF Follow, Sends, Due
  <2>6. QED
    BY <1>3, <2>1, <2>2, <2>3, <2>4, <2>5 DEF FollowUp
<1>4. CASE AllShown /\ UNCHANGED remote
  BY <1>4 DEF AllShown, Move, Moves, menus
<1>5. CASE Elsewhere
  BY <1>5
<1>6. CASE UNCHANGED vars
  BY <1>6 DEF vars, Stays, remote, tables, menus
<1>7. QED
  BY <1>1, <1>2, <1>3, <1>4, <1>5, <1>6 DEF Next, Program, Elsewhere

-----------------------------------------------------------------------------
(* What is on its way, as sequences.                                       *)

LEMMA Lengths ==
  /\ Len(<< >>) = 0
  /\ \A a : Len(<< a >>) = 1 /\ << a >> # << >> /\ Head(<< a >>) = a
           /\ Tail(<< a >>) = << >> /\ Append(<< >>, a) = << a >>
BY SMT

LEMMA Counted ==
  ASSUME NEW S, NEW q \in Seq(S)
  PROVE  Len(q) \in Nat /\ (q # << >> => Len(q) > 0)
BY LenProperties, EmptySeq, SMT

-----------------------------------------------------------------------------
(* The invariant.                                                          *)

TablesOK == holder \in Users \cup {NoUser} /\ members \in [Chans -> SUBSET Users]

\* What an accepting answer says of the request it answers: members stay, and
\* so it remains true however late it is read.
Truthful(a) ==
  a.kind = "ok" =>
    /\ a.about.cmd = "user_details" => a.about.uid \in Users
    /\ a.about.cmd = "channel_details" =>
         /\ a.about.chan \in Chans
         /\ a.members # {} /\ a.members \subseteq members[a.about.chan]
Truths == { a \in Answers : Truthful(a) }

ValuesOK ==
  /\ at \in Prompts \cup Between \cup {"ended"}
  /\ uid \in Users \cup {NoUser} /\ shown \in Users \cup {NoUser}
  /\ chan_id \in Chans \cup {NoChan}
  /\ chan.id \in Chans \cup {NoChan} /\ chan.members \subseteq Users
  /\ server \in {"open", "closed"} /\ behind \in 0..MaxRests
  /\ request \in Requests /\ up \in Seq(Requests) /\ down \in Seq(Truths)
  /\ TablesOK

\* The answer to what the program asked last, all of it.
Whole(a) == a.about = request /\ a.kind # "rest" /\ a.rests = 0

\* While no answer left a rest, there is one request or one answer on its way,
\* or none for a program that waits for nothing.
OneOnItsWay ==
  /\ up = << >> \/ up = << request >>
  /\ down = << >> \/ \E a : down = << a >> /\ Whole(a)
  /\ up = << >> \/ down = << >>
  /\ Idle => up = << >> /\ down = << >>

Wires ==
  /\ server = "closed" => up = << >>
  /\ at = "ended" => Idle
  /\ behind = 0 => OneOnItsWay

\* The program waits at a place that sends, for the answer that is due there.
Waiting == ~Idle => at \in Places /\ Due(request)

\* ChannelInStep, of a channel that exists.
InStep == ChannelInStep /\ (at \in Inside => chan.id \in Chans)

\* Only the loop of .u has somebody left to show, members of the channel whose
\* menu it is.
LeftInv ==
  /\ left \subseteq chan.members
  /\ left # {} => at \in {"members", "ended"}

MenuInv == ValuesOK /\ Wires /\ Waiting /\ InStep /\ ConfirmedIsUser /\ LeftInv

\* The tables only grow, as far as the menus look at them.
Grows == TablesOK' /\ \A c \in Chans : members[c] \subseteq members'[c]

LEMMA EffectGrows ==
  ASSUME TablesOK, NEW r, Permitted(r), Effect(r)
  PROVE  Grows
<1> USE DEF TablesOK, Grows
<1>1. CASE r.cmd = "login"
  BY <1>1 DEF Effect
<1>2. CASE r.cmd = "logout"
  BY <1>2 DEF Effect
<1>3. CASE r.cmd = "invite_user"
  <2>1. r.chan \in Chans /\ r.uid \in Users
    BY <1>3 DEF Permitted
  <2>2. UNCHANGED holder /\ members' = [members EXCEPT ![r.chan] = @ \cup {r.uid}]
    BY <1>3 DEF Effect
  <2>3. QED
    BY <2>1, <2>2
<1>4. CASE r.cmd = "new_channel"
  <2>1. holder \in Users
    BY <1>4 DEF Permitted
  <2>2. QED
    BY <1>4, <2>1 DEF Effect
<1>5. CASE r.cmd \notin {"login", "logout", "invite_user", "new_channel"}
  BY <1>5 DEF Effect, tables
<1>6. QED
  BY <1>1, <1>2, <1>3, <1>4, <1>5

LEMMA TruthsStay ==
  ASSUME ValuesOK, Grows PROVE Truths \subseteq Truths'
<1> SUFFICES ASSUME NEW a \in Answers, Truthful(a) PROVE Truthful(a)'
  BY DEF Truths
<1>1. QED
  BY DEF Truthful, Grows

\* What the program remembers stays true while it does not move.
LEMMA Kept ==
  ASSUME MenuInv, Grows, UNCHANGED << at, menus >>, behind' = 0 => behind = 0
  PROVE  InStep' /\ ConfirmedIsUser' /\ LeftInv'
<1>1. UNCHANGED << uid, chan_id, chan, shown, left >>
  BY DEF menus
<1>2. InStep'
  <2> SUFFICES ASSUME at \in Inside
               PROVE  /\ chan.id \in Chans /\ (behind = 0 => chan.id = chan_id)
                      /\ chan.members # {} /\ chan.members \subseteq members'[chan.id]
    BY <1>1 DEF InStep, ChannelInStep, Inside
  <2>1. QED
    BY DEF MenuInv, InStep, ChannelInStep, Inside, Grows
<1>3. QED
  BY <1>1, <1>2 DEF MenuInv, ConfirmedIsUser, LeftInv

\* What the remote end leaves alone stays as it was.
LEMMA RemoteKept ==
  ASSUME MenuInv, UNCHANGED remote
  PROVE  /\ Grows /\ UNCHANGED << server, behind, holder, members >>
         /\ TablesOK' /\ Truths' = Truths
<1>1. UNCHANGED << server, behind, holder, members >>
  BY DEF remote, tables
<1>2. TablesOK' /\ Truths' = Truths
  BY <1>1 DEF MenuInv, ValuesOK, TablesOK, Truths, Truthful
<1>3. QED
  BY <1>1, <1>2 DEF Grows

-----------------------------------------------------------------------------
(* Every kind of step keeps the invariant, and is a step or stutter of Connection. *)

\* What Connection calls client, and its step or stutter.
CState == IF at = "ended" THEN "ended" ELSE IF Idle THEN "idle" ELSE "waiting"
PStep == [Promised!Next]_(Promised!vars)

\* The program ends, and its end of the connection with it.
LEMMA EndStep ==
  ASSUME MenuInv, at # "ended", End,
         UNCHANGED << remote, uid, chan_id, chan, shown >>, left' \in {left, {}},
         Idle \/ down # << >> \/ server = "closed"
  PROVE  MenuInv' /\ PStep
<1>1. /\ UNCHANGED << server, behind, members >>
      /\ TablesOK' /\ Truths' = Truths
  BY RemoteKept
<1>2. /\ at' = "ended" /\ request' = NoRequest
      /\ up' = << >> /\ down' = << >>
  BY DEF End
<1>3. ValuesOK'
  <2>1. NoRequest \in Requests
    BY DEF NoRequest, Plain, Request, Requests
  <2>2. << >> \in Seq(Requests) /\ << >> \in Seq(Truths)
    BY EmptySeq
  <2>3. QED
    BY <1>1, <1>2, <2>1, <2>2, Zenon DEF MenuInv, ValuesOK
<1>4. Wires'
  BY <1>2, Zenon DEF Wires, OneOnItsWay, Idle
<1>5. Waiting' /\ InStep' /\ ConfirmedIsUser'
  BY <1>2 DEF Waiting, Idle, InStep, ChannelInStep, Inside, ConfirmedIsUser
<1>6. LeftInv'
  BY <1>2 DEF MenuInv, LeftInv
<1>7. Promised!End
  <2>1. CState = "idle" \/ (CState = "waiting" /\ (Len(down) > 0 \/ server = "closed"))
    <3>1. down # << >> => Len(down) > 0
      BY Counted DEF MenuInv, ValuesOK
    <3>2. QED
      BY <3>1 DEF CState
  <2>2. QED
    BY <1>1, <1>2, <2>1, Lengths DEF Promised!End, CState, Idle
<1>8. QED
  BY <1>3, <1>4, <1>5, <1>6, <1>7 DEF MenuInv, PStep, Promised!Next

\* What can be sent is a request.
LEMMA SentIsRequest ==
  ASSUME MenuInv, NEW r, Real(r) PROVE r \in Requests
<1>1. {NoChan, chan_id} \subseteq Chans \cup {NoChan}
  BY DEF MenuInv, ValuesOK
<1>2. {NoUser, uid} \cup left \subseteq Users \cup {NoUser}
  BY DEF MenuInv, ValuesOK, LeftInv
<1>3. QED
  BY <1>1, <1>2 DEF Real, Requests

LEMMA SendsStep ==
  ASSUME MenuInv, Sends PROVE MenuInv' /\ PStep
<1>1. PICK r : /\ Real(r) /\ Due(r) /\ at \in Places /\ Idle /\ Send(r)
              /\ UNCHANGED << remote, menus >>
  BY DEF Sends
<1>2. at # "ended" /\ UNCHANGED << uid, chan_id, chan, left, shown >>
  BY <1>1 DEF Places, menus
<1>3. CASE End
  BY <1>1, <1>2, <1>3, EndStep
<1>4. CASE /\ request' = r
           /\ up' = (IF server = "open" THEN Append(up, r) ELSE up)
           /\ UNCHANGED << at, down >>
  <2>1. /\ Grows /\ UNCHANGED << server, behind, members >>
        /\ TablesOK' /\ Truths' = Truths
    BY <1>1, RemoteKept
  <2>2. r \in Requests /\ r # NoRequest
    BY <1>1, SentIsRequest DEF Real
  <2>3. up' \in Seq(Requests)
    <3>1. Append(up, r) \in Seq(Requests)
      BY <2>2, AppendProperties DEF MenuInv, ValuesOK
    <3>2. QED
      BY <1>4, <3>1, Zenon DEF MenuInv, ValuesOK
  <2>4. ValuesOK'
    BY <1>2, <1>4, <2>1, <2>2, <2>3, Zenon DEF MenuInv, ValuesOK
  <2>5. Wires'
    <3>1. ASSUME behind' = 0 PROVE OneOnItsWay'
      <4>1. up = << >> /\ down = << >>
        BY <1>1, <2>1, <3>1 DEF MenuInv, Wires, OneOnItsWay
      <4>2. up' = << >> \/ up' = << r >>
        <5>1. Append(up, r) = << r >>
          BY <4>1, Lengths, Zenon
        <5>2. QED
          BY <1>4, <4>1, <5>1, Zenon
      <4>3. QED
        BY <1>4, <2>2, <4>1, <4>2, Zenon DEF OneOnItsWay, Idle
    <3>2. server' = "closed" => up' = << >>
      BY <1>4, <2>1, Zenon DEF MenuInv, Wires
    <3>3. QED
      BY <1>2, <1>4, <3>1, <3>2, Zenon DEF Wires
  <2>6. Waiting'
    BY <1>1, <1>2, <1>4 DEF Waiting, Due
  <2>7. InStep' /\ ConfirmedIsUser' /\ LeftInv'
    BY <1>1, <1>4, <2>1, Kept
  <2>8. Promised!Ask
    <3>1. CState = "idle" /\ CState' = "waiting"
      BY <1>1, <1>2, <1>4, <2>2 DEF CState, Idle
    <3>2. CASE server = "open"
      <4>1. Len(up') = Len(up) + 1
        BY <1>4, <2>2, <3>2, AppendProperties DEF MenuInv, ValuesOK
      <4>2. QED
        BY <1>4, <2>1, <3>1, <3>2, <4>1 DEF Promised!Ask, Promised!Written, CState
    <3>3. CASE server = "closed"
      BY <1>4, <2>1, <3>1, <3>3 DEF Promised!Ask, CState
    <3>4. QED
      BY <3>2, <3>3 DEF MenuInv, ValuesOK
  <2>9. QED
    BY <2>4, <2>5, <2>6, <2>7, <2>8 DEF MenuInv, PStep, Promised!Next
<1>5. QED
  BY <1>1, <1>3, <1>4 DEF Send

LEMMA EndsStep ==
  ASSUME MenuInv, Ends PROVE MenuInv' /\ PStep
BY EndStep DEF Ends, menus

\* Neither end of the connection does anything.
LEMMA MovesStep ==
  ASSUME MenuInv, Moves \/ Stays PROVE MenuInv' /\ PStep
<1>1. /\ UNCHANGED << request, up, down, remote >>
      /\ at = "ended" <=> at' = "ended"
  BY AllPlaces DEF Moves, Stays
<1>2. /\ Grows /\ UNCHANGED << server, behind, members >>
      /\ TablesOK' /\ Truths' = Truths
  BY <1>1, RemoteKept
<1>3. PStep
  <2>1. UNCHANGED Promised!vars
    BY <1>1, <1>2 DEF Promised!vars, Idle
  <2>2. QED
    BY <2>1 DEF PStep
<1>4. Wires'
  BY <1>1, <1>2 DEF MenuInv, Wires, OneOnItsWay, Whole, Idle
<1>5. CASE Stays
  <2>1. UNCHANGED << at, menus >> /\ UNCHANGED << uid, chan_id, chan, left, shown >>
    BY <1>5 DEF Stays, menus
  <2>2. ValuesOK'
    BY <1>1, <1>2, <2>1, Zenon DEF MenuInv, ValuesOK
  <2>3. Waiting'
    BY <1>1, <2>1 DEF MenuInv, Waiting, Due, Idle
  <2>4. QED
    BY <1>2, <1>3, <1>4, <2>1, <2>2, <2>3, Kept DEF MenuInv
<1>6. CASE Moves
  <2>1. /\ at' \in Prompts \cup Between /\ Idle /\ UNCHANGED << chan, shown >>
        /\ at # "ended" /\ (uid' \in Users \cup {NoUser, uid})
        /\ chan_id' \in Chans \cup {NoChan, chan_id}
    BY <1>6 DEF Moves
  <2>2. ValuesOK'
    <3>1. uid' \in Users \cup {NoUser} /\ chan_id' \in Chans \cup {NoChan}
      BY <2>1 DEF MenuInv, ValuesOK
    <3>2. at' \in Prompts \cup Between \cup {"ended"}
      BY <2>1
    <3>3. QED
      BY <1>1, <1>2, <2>1, <3>1, <3>2, Zenon DEF MenuInv, ValuesOK
  <2>3. Waiting'
    BY <1>1, <2>1 DEF Waiting, Idle
  <2>4. InStep'
    BY <1>2, <1>6, <2>1 DEF Moves, MenuInv, InStep, ChannelInStep, Inside
  <2>5. ConfirmedIsUser'
    BY <1>2, <1>6, <2>1 DEF Moves, MenuInv, ConfirmedIsUser
  <2>6. LeftInv'
    BY <1>6, <2>1 DEF Moves, MenuInv, LeftInv
  <2>7. QED
    BY <1>3, <1>4, <2>2, <2>3, <2>4, <2>5, <2>6 DEF MenuInv
<1>7. QED
  BY <1>5, <1>6

LEMMA Replaced ==
  ASSUME NEW S, NEW q \in Seq(S), NEW e \in S, q # << >>
  PROVE  [q EXCEPT ![1] = e] \in Seq(S) /\ Len([q EXCEPT ![1] = e]) = Len(q)
<1>1. 1 \in 1..Len(q)
  BY Counted
<1>2. QED
  BY <1>1, ExceptSeq

\* What is unread after a read, and what a read leaves behind.
LEMMA UnreadIs ==
  ASSUME MenuInv, down # << >>
  PROVE  /\ Unread \in Seq(Truths) /\ Head(down) \in Truths
         /\ Len(down) \in Nat /\ Len(down) > 0
         /\ \/ Len(Unread) = Len(down) - 1
            \/ behind > 0 /\ Len(Unread) = Len(down)
         /\ behind = 0 => Unread = << >> /\ Whole(Head(down))
<1> DEFINE a == Head(down)
<1>1. down \in Seq(Truths) /\ behind \in 0..MaxRests
  BY DEF MenuInv, ValuesOK
<1>2. /\ a \in Truths /\ Tail(down) \in Seq(Truths)
      /\ Len(down) \in Nat /\ Len(down) > 0 /\ Len(Tail(down)) = Len(down) - 1
  BY <1>1, HeadTailProperties, Counted
<1>3. a.rests \in 0..MaxRests
  BY <1>2 DEF Truths, Answers
<1>4. behind = 0 => Tail(down) = << >> /\ Whole(a)
  BY Lengths DEF MenuInv, Wires, OneOnItsWay
<1>5. CASE a.rests = 0
  <2>1. Unread = Tail(down)
    BY <1>5 DEF Unread
  <2>2. QED
    BY <1>2, <1>4, <2>1
<1>6. CASE a.rests # 0
  <2>1. behind > 0
    <3>1. behind # 0
      BY <1>4, <1>6 DEF Whole
    <3>2. QED
      BY <1>1, <3>1, ClientAssumption
  <2>2. Remainder(a.rests - 1) \in Truths
    <3>1. NoRequest \in Requests
      BY DEF NoRequest, Plain, Request, Requests
    <3>2. a.rests - 1 \in 0..MaxRests
      BY <1>3, <1>6, ClientAssumption
    <3>3. QED
      BY <3>1, <3>2 DEF Remainder, Reply, Truths, Truthful, Answers
  <2>3. Unread = [down EXCEPT ![1] = Remainder(a.rests - 1)]
    BY <1>6, Zenon DEF Unread
  <2>4. Unread \in Seq(Truths) /\ Len(Unread) = Len(down)
    <3> DEFINE e == Remainder(a.rests - 1)
               new == [down EXCEPT ![1] = e]
    <3>1. e \in Truths /\ Unread = new
      BY <2>2, <2>3
    <3> HIDE DEF e
    <3>2. new \in Seq(Truths) /\ Len(new) = Len(down)
      BY <1>1, <3>1, Replaced
    <3> HIDE DEF new
    <3>3. QED
      BY <3>1, <3>2
  <2>5. QED
    <3>1. behind # 0
      BY <1>4, <1>6 DEF Whole
    <3>2. QED
      BY <1>2, <2>1, <2>4, <3>1, Zenon
<1>7. QED
  BY <1>5, <1>6

\* The request is over and the program goes on.
LEMMA BackStep ==
  ASSUME MenuInv, ~Idle, at' # "ended", request' = NoRequest,
         UNCHANGED << up, uid, chan_id, remote >>,
         \/ down # << >> /\ down' = Unread
         \/ down = << >> /\ down' = down /\ server = "closed"
  PROVE  /\ request' \in Requests /\ up' \in Seq(Requests)
         /\ down' \in Seq(Truths')
         /\ Wires' /\ Waiting' /\ PStep /\ Idle'
<1>1. /\ UNCHANGED << server, behind, members >>
      /\ TablesOK' /\ Truths' = Truths
  BY RemoteKept
<1>2. Idle'
  BY DEF Idle
<1>3. at # "ended"
  BY DEF MenuInv, Wires
<1>4. /\ request' \in Requests /\ up' \in Seq(Requests)
      /\ down' \in Seq(Truths')
  <2>1. NoRequest \in Requests
    BY DEF NoRequest, Plain, Request, Requests
  <2>2. down' \in Seq(Truths)
    BY UnreadIs, Zenon DEF MenuInv, ValuesOK
  <2>3. QED
    BY <1>1, <2>1, <2>2, Zenon DEF MenuInv, ValuesOK
<1>5. Wires'
  <2>1. ASSUME behind = 0 PROVE up = << >> /\ down' = << >>
    <3>1. CASE down # << >>
      BY <2>1, <3>1, UnreadIs, Zenon DEF MenuInv, Wires, OneOnItsWay
    <3>2. CASE down = << >>
      BY <3>2, Zenon DEF MenuInv, Wires
    <3>3. QED
      BY <3>1, <3>2
  <2>2. behind' = 0 => OneOnItsWay'
    BY <1>1, <1>2, <2>1, Zenon DEF OneOnItsWay
  <2>3. QED
    BY <1>1, <1>2, <2>2, Zenon DEF MenuInv, Wires
<1>6. PStep
  <2>1. CState = "waiting" /\ CState' = "idle"
    BY <1>2, <1>3 DEF CState
  <2>2. CASE down # << >> /\ down' = Unread
    <3>1. Promised!Taken(Len(down), Len(down'))
      BY <2>2, UnreadIs DEF Promised!Taken
    <3>2. Promised!Receive
      BY <1>1, <2>1, <3>1, Zenon DEF Promised!Receive, CState
    <3>3. QED
      BY <3>2, Zenon DEF PStep, Promised!Next
  <2>3. CASE down = << >> /\ down' = down /\ server = "closed"
    <3>1. Promised!Hangup
      BY <1>1, <2>1, <2>3, Lengths, Zenon DEF Promised!Hangup, CState
    <3>2. QED
      BY <3>1, Zenon DEF PStep, Promised!Next
  <2>4. QED
    BY <2>2, <2>3
<1>7. QED
  BY <1>2, <1>4, <1>5, <1>6 DEF Waiting

\* The members shown after an answer was accepted are members of the channel
\* it describes.
LEMMA AcceptStep ==
  ASSUME MenuInv, Receive, Accept(Head(down)) PROVE MenuInv' /\ PStep
<1> DEFINE a == Head(down)
<1>1. /\ ~Idle /\ down # << >> /\ UNCHANGED << uid, chan_id, remote >>
      /\ a.kind = "ok" /\ Fits(a.about, request) /\ Return(Accepted, Unread)
      /\ chan' = (IF at = "details" THEN [id |-> a.about.chan, members |-> a.members]
                  ELSE chan)
      /\ left' = (IF at = "members" THEN left \ {request.uid} ELSE left)
      /\ shown' = (IF at = "lookup" THEN a.about.uid ELSE shown)
  BY DEF Receive, Accept
<1>2. at \in Places /\ Due(request)
  BY <1>1 DEF MenuInv, Waiting
<1>3. /\ Accepted \in Prompts \cup Between /\ Accepted # "ended"
      /\ Accepted = "confirm" <=> at = "lookup"
      /\ Accepted = "members" <=> at = "members"
      /\ Accepted # "invite"
      /\ Accepted \in Inside => at \in Inside \cup {"details"}
      /\ at = "details" => Accepted = "channel"
  BY <1>2, AllPlaces DEF Accepted, Places, Inside
<1>4. /\ at' = Accepted /\ request' = NoRequest /\ down' = Unread /\ UNCHANGED up
  BY <1>1, <1>3, Zenon DEF Return
<1>5. /\ request' \in Requests /\ up' \in Seq(Requests) /\ down' \in Seq(Truths')
      /\ Wires' /\ Waiting' /\ PStep
  BY <1>1, <1>3, <1>4, BackStep
<1>6. /\ UNCHANGED << server, behind, members >> /\ TablesOK'
  BY <1>1, RemoteKept
<1>7. /\ a \in Answers /\ Truthful(a)
      /\ behind = 0 => a.about = request
  BY <1>1, UnreadIs DEF Truths, Whole
<1>8. ASSUME at = "details"
      PROVE  /\ a.about.chan \in Chans /\ a.members # {}
             /\ a.members \subseteq members[a.about.chan]
             /\ behind = 0 => a.about.chan = chan_id
  <2>1. request.cmd = "channel_details" /\ request.chan = chan_id
    BY <1>2, <1>8, Commanded DEF Due
  <2>2. a.about.cmd = "channel_details"
    BY <1>1, <2>1 DEF Fits, Bare
  <2>3. QED
    BY <1>1, <1>7, <2>1, <2>2 DEF Truthful
<1>9. ASSUME at = "lookup"
      PROVE  a.about.uid \in Users /\ (behind = 0 => a.about.uid = uid)
  <2>1. request.cmd = "user_details" /\ request.uid = uid
    BY <1>2, <1>9, Commanded DEF Due
  <2>2. a.about.cmd = "user_details"
    BY <1>1, <2>1 DEF Fits, Bare
  <2>3. QED
    BY <1>1, <1>7, <2>1, <2>2 DEF Truthful
<1>10. ValuesOK'
  <2>1. shown' \in Users \cup {NoUser}
    BY <1>1, <1>9 DEF MenuInv, ValuesOK
  <2>2. chan'.id \in Chans \cup {NoChan} /\ chan'.members \subseteq Users
    <3>1. CASE at = "details"
      <4>1. chan'.id = a.about.chan /\ chan'.members = a.members
        BY <1>1, <3>1
      <4>2. a.members \subseteq Users
        BY <1>7 DEF Answers
      <4>3. QED
        BY <1>8, <3>1, <4>1, <4>2
    <3>2. CASE at # "details"
      BY <1>1, <3>2 DEF MenuInv, ValuesOK
    <3>3. QED
      BY <3>1, <3>2
  <2>3. at' \in Prompts \cup Between \cup {"ended"}
    BY <1>3, <1>4
  <2>4. QED
    BY <1>1, <1>5, <1>6, <2>1, <2>2, <2>3, Zenon DEF MenuInv, ValuesOK
<1>11. InStep'
  <2>1. CASE at = "details"
    <3>1. chan'.id = a.about.chan /\ chan'.members = a.members
      BY <1>1, <2>1
    <3>2. QED
      BY <1>1, <1>6, <1>8, <2>1, <3>1 DEF InStep, ChannelInStep
  <2>2. CASE at # "details"
    BY <1>1, <1>3, <1>4, <1>6, <2>2
       DEF MenuInv, InStep, ChannelInStep, Inside
  <2>3. QED
    BY <2>1, <2>2
<1>12. ConfirmedIsUser'
  BY <1>1, <1>3, <1>4, <1>6, <1>9 DEF ConfirmedIsUser
<1>13. LeftInv'
  <2>1. at = "details" => left = {}
    BY DEF MenuInv, LeftInv
  <2>2. left' \subseteq chan'.members
    BY <1>1, <2>1 DEF MenuInv, LeftInv
  <2>3. left' # {} => at' \in {"members", "ended"}
    <3>1. at # "ended"
      BY <1>2 DEF Places
    <3>2. QED
      BY <1>1, <1>3, <1>4, <3>1 DEF MenuInv, LeftInv
  <2>4. QED
    BY <2>2, <2>3 DEF LeftInv
<1>14. QED
  BY <1>5, <1>10, <1>11, <1>12, <1>13 DEF MenuInv

\* A refusal, or an exception, leads away from what is shown, or out of it.
LEMMA AwayStep ==
  ASSUME MenuInv, NEW to, ~Idle, Return(to, down') \/ (to = "ended" /\ End),
         to \in {"ended", "main", "list"} \/ (to = "choose" /\ at = "lookup"),
         UNCHANGED << uid, chan_id, remote, chan, shown >>,
         left' \in {left, {}}, to \in {"main", "list"} => left' = {},
         \/ down # << >> /\ (to # "ended" => down' = Unread)
         \/ down = << >> /\ (to # "ended" => down' = down) /\ server = "closed"
  PROVE  MenuInv' /\ PStep
<1>1. at # "ended"
  BY DEF MenuInv, Wires
<1>2. CASE to = "ended"
  BY <1>1, <1>2, EndStep DEF Return
<1>3. CASE to # "ended"
  <2>1. at' = to /\ request' = NoRequest /\ UNCHANGED up
    BY <1>3, Zenon DEF Return
  <2>2. /\ request' \in Requests /\ up' \in Seq(Requests) /\ down' \in Seq(Truths')
        /\ Wires' /\ Waiting' /\ PStep
    BY <1>3, <2>1, BackStep
  <2>3. /\ UNCHANGED << server, behind, members >> /\ TablesOK'
    BY RemoteKept
  <2>4. ValuesOK'
    <3>1. to \in Prompts \cup Between \cup {"ended"}
      BY AllPlaces
    <3>2. QED
      BY <2>1, <2>2, <2>3, <3>1, Zenon DEF MenuInv, ValuesOK
  <2>5. InStep' /\ ConfirmedIsUser'
    BY <1>3, <2>1, <2>3
       DEF MenuInv, InStep, ChannelInStep, Inside, ConfirmedIsUser
  <2>6. LeftInv'
    BY <1>3, <2>1 DEF MenuInv, LeftInv
  <2>7. QED
    BY <2>2, <2>4, <2>5, <2>6 DEF MenuInv
<1>4. QED
  BY <1>2, <1>3

LEMMA ReceiveStep ==
  ASSUME MenuInv, Receive PROVE MenuInv' /\ PStep
<1>1. /\ ~Idle /\ down # << >> /\ UNCHANGED << uid, chan_id, remote >>
      /\ Accept(Head(down)) \/ Refuse(Head(down)) \/ Garbled(Head(down))
  BY DEF Receive
<1>2. at \in Places
  BY <1>1 DEF MenuInv, Waiting
<1>3. CASE Accept(Head(down))
  BY <1>3, AcceptStep
<1>4. CASE Refuse(Head(down))
  <2>1. /\ Return(Refused, Unread) /\ left' = {} /\ UNCHANGED << chan, shown >>
    BY <1>4 DEF Refuse
  <2>2. Refused \in {"ended", "main", "list"} \/ (Refused = "choose" /\ at = "lookup")
    BY <1>2 DEF Refused, Places
  <2>3. (Refused = "ended" /\ End) \/ (Return(Refused, down') /\ down' = Unread)
    BY <2>1, Zenon DEF Return
  <2>4. QED
    BY <1>1, <2>1, <2>2, <2>3, AwayStep
<1>5. CASE Garbled(Head(down))
  <2>1. Return(Thrown, Unread) /\ UNCHANGED << chan, shown, left >>
    BY <1>5 DEF Garbled
  <2>2. Thrown = "ended" \/ (Thrown = "choose" /\ at = "lookup")
    BY DEF Thrown
  <2>3. (Thrown = "ended" /\ End) \/ (Return(Thrown, down') /\ down' = Unread)
    BY <2>1, Zenon DEF Return
  <2>4. QED
    BY <1>1, <2>1, <2>2, <2>3, AwayStep
<1>6. QED
  BY <1>1, <1>3, <1>4, <1>5

LEMMA HangupStep ==
  ASSUME MenuInv, Hangup PROVE MenuInv' /\ PStep
<1>1. /\ ~Idle /\ server = "closed" /\ down = << >> /\ Return(Thrown, down)
      /\ UNCHANGED << uid, chan_id, remote, chan, shown, left >>
  BY DEF Hangup, menus
<1>2. Thrown = "ended" \/ (Thrown = "choose" /\ at = "lookup")
  BY DEF Thrown
<1>3. (Thrown = "ended" /\ End) \/ (Return(Thrown, down') /\ down' = down)
  BY <1>1, Zenon DEF Return
<1>4. QED
  BY <1>1, <1>2, <1>3, AwayStep

\* The other end does something and the program stays where it is: what is said
\* of the program and of the answers on their way remains true.
LEMMA ProgramKept ==
  ASSUME MenuInv, UNCHANGED program, Grows, behind' = 0 => behind = 0
  PROVE  /\ UNCHANGED << at, request, uid, chan_id, chan, left, shown >>
         /\ Waiting' /\ InStep' /\ ConfirmedIsUser' /\ LeftInv'
         /\ down \in Seq(Truths') /\ TablesOK'
<1>1. UNCHANGED << at, request, menus >> /\ UNCHANGED << uid, chan_id, chan, left, shown >>
  BY DEF program, menus
<1>2. Waiting'
  BY <1>1 DEF MenuInv, Waiting, Due, Idle
<1>3. InStep' /\ ConfirmedIsUser' /\ LeftInv'
  BY <1>1, Kept
<1>4. down \in Seq(Truths')
  <2>1. Truths \subseteq Truths' /\ down \in Seq(Truths)
    BY TruthsStay DEF MenuInv, ValuesOK
  <2>2. QED
    BY <2>1, SeqMonotonic
<1>5. QED
  BY <1>1, <1>2, <1>3, <1>4 DEF Grows

LEMMA AnswerStep ==
  ASSUME MenuInv, UNCHANGED program, Grows, server = "open", up # << >>,
         NEW a \in Truths', Answer(a), a.about = Head(up), a.kind # "rest",
         behind + a.rests \in 0..MaxRests
  PROVE  MenuInv' /\ PStep
<1>1. /\ down' = Append(down, a) /\ behind' = behind + a.rests
      /\ (up' = Tail(up) /\ UNCHANGED server) \/ (up' = << >> /\ server' = "closed")
  BY DEF Answer
<1>2. a.rests \in Nat /\ behind \in Nat
  BY ClientAssumption DEF Truths, Answers, MenuInv, ValuesOK
<1>3. /\ behind' = 0 => behind = 0 /\ a.rests = 0
      /\ behind' > 0 \/ behind = 0
  BY <1>1, <1>2
<1>4. /\ UNCHANGED << at, request, uid, chan_id, chan, left, shown >>
      /\ Waiting' /\ InStep' /\ ConfirmedIsUser' /\ LeftInv'
      /\ down \in Seq(Truths') /\ TablesOK'
  BY <1>3, ProgramKept
<1>5. /\ down' \in Seq(Truths') /\ Len(down) \in Nat /\ Len(down') = Len(down) + 1
  BY <1>1, <1>4, AppendProperties, LenProperties
<1>6. /\ Tail(up) \in Seq(Requests) /\ Len(up) \in Nat /\ Len(up) > 0
      /\ Len(Tail(up)) = Len(up) - 1
  BY HeadTailProperties, Counted DEF MenuInv, ValuesOK
<1>7. ValuesOK'
  <2>1. up' \in Seq(Requests) /\ server' \in {"open", "closed"}
    BY <1>1, <1>6, EmptySeq
  <2>2. QED
    BY <1>1, <1>4, <1>5, <2>1, Zenon DEF MenuInv, ValuesOK
<1>8. Wires'
  <2>1. ASSUME behind' = 0 PROVE OneOnItsWay'
    <3>1. behind = 0 /\ a.rests = 0
      BY <1>3, <2>1
    <3>2. up = << request >> /\ down = << >> /\ ~Idle
      BY <3>1 DEF MenuInv, Wires, OneOnItsWay
    <3>3. Head(up) = request /\ Tail(up) = << >> /\ down' = << a >>
      BY <1>1, <3>2, Lengths, Zenon
    <3>4. up' = << >>
      BY <1>1, <3>3, Zenon
    <3>5. QED
      BY <1>4, <3>1, <3>2, <3>3, <3>4, Zenon DEF OneOnItsWay, Whole, Idle
  <2>2. QED
    BY <1>1, <1>4, <2>1, Zenon DEF MenuInv, Wires, Idle
<1>9. Promised!Answer
  <2>1. Promised!Written(Len(down), Len(down'))
    <3>1. (behind' > 0) \in {behind > 0, TRUE}
      <4> DEFINE before == behind > 0
                 after == behind' > 0
      <4>1. (before => after) /\ before \in BOOLEAN /\ after \in BOOLEAN
        BY <1>1, <1>2
      <4> HIDE DEF before, after
      <4>2. after \in {before, TRUE}
        BY <4>1
      <4>3. QED
        BY <4>2 DEF before, after
    <3>2. QED
      BY <1>5, <3>1, Zenon DEF Promised!Written
  <2>2. /\ Len(up) > 0
        /\ \/ Promised!Taken(Len(up), Len(up')) /\ UNCHANGED server
           \/ Len(up') = 0 /\ server' = "closed"
    BY <1>1, <1>6, Lengths DEF Promised!Taken
  <2>3. UNCHANGED CState
    BY <1>4 DEF CState, Idle
  <2>4. QED
    BY <2>1, <2>2, <2>3, Zenon DEF Promised!Answer, CState
<1>10. QED
  BY <1>4, <1>7, <1>8, <1>9, Zenon DEF MenuInv, PStep, Promised!Next

LEMMA CloseStep ==
  ASSUME MenuInv, UNCHANGED << program, down, behind >>, Grows,
         server = "open", server' = "closed", up' = << >>
  PROVE  MenuInv' /\ PStep
<1>1. /\ UNCHANGED << at, request, uid, chan_id, chan, left, shown, down, behind >>
      /\ Waiting' /\ InStep' /\ ConfirmedIsUser' /\ LeftInv'
      /\ down \in Seq(Truths') /\ TablesOK'
  BY ProgramKept
<1>2. ValuesOK'
  <2>1. up' \in Seq(Requests)
    BY EmptySeq
  <2>2. QED
    BY <1>1, <2>1, Zenon DEF MenuInv, ValuesOK
<1>3. Wires'
  BY <1>1, Zenon DEF MenuInv, Wires, OneOnItsWay, Whole, Idle
<1>4. Promised!Close
  BY <1>1, Lengths DEF Promised!Close, Idle
<1>5. QED
  BY <1>1, <1>2, <1>3, <1>4, Zenon DEF MenuInv, PStep, Promised!Next

LEMMA ServeStep ==
  ASSUME MenuInv, Serve PROVE MenuInv' /\ PStep
<1> DEFINE r == Head(up)
<1>1. /\ server = "open" /\ up # << >> /\ UNCHANGED program
      /\ \/ /\ Permitted(r) /\ Effect(r)
            /\ \E n \in Rests(r) :
                 Answer(Reply("ok", r, IF r.cmd = "channel_details"
                                       THEN members[r.chan] ELSE {}, n))
         \/ UNCHANGED tables /\ Answer(Reply("err", r, {}, 0))
         \/ Throw(r)
  BY DEF Serve
<1>2. r \in Requests
  BY <1>1, HeadTailProperties DEF MenuInv, ValuesOK
<1>3. behind \in 0..MaxRests /\ TablesOK
  BY DEF MenuInv, ValuesOK
<1>4. UNCHANGED tables => Grows
  BY <1>3 DEF Grows, TablesOK, tables
<1>5. Permitted(r) /\ Effect(r) => Grows
  BY <1>3, EffectGrows
<1> HIDE DEF r
<1>6. ASSUME Permitted(r), Effect(r), NEW n \in Rests(r),
             Answer(Reply("ok", r, IF r.cmd = "channel_details"
                                   THEN members[r.chan] ELSE {}, n))
      PROVE  MenuInv' /\ PStep
  <2> DEFINE us == IF r.cmd = "channel_details" THEN members[r.chan] ELSE {}
  <2>1. n \in 0..MaxRests /\ behind + n \in 0..MaxRests
    BY <1>3, <1>6, ClientAssumption DEF Rests
  <2>2. r.cmd = "channel_details" => r.chan \in Chans /\ members[r.chan] # {}
    BY <1>6 DEF Permitted
  <2>3. us \subseteq Users
    BY <1>3, <2>2 DEF TablesOK
  <2>4. r.cmd = "user_details" => r.uid \in Users
    BY <1>6 DEF Permitted
  <2>5. PICK a : a = Reply("ok", r, us, n)
    OBVIOUS
  <2>6. /\ a.kind = "ok" /\ a.about = r /\ a.members = us /\ a.rests = n
        /\ a \in Answers
    BY <1>2, <2>1, <2>3, <2>5 DEF Reply, Answers
  <2>7. a \in Truths'
    <3>1. Truthful(a)'
      BY <1>5, <1>6, <2>2, <2>4, <2>6 DEF Truthful, Grows
    <3>2. QED
      BY <2>6, <3>1 DEF Truths, Answers, Requests
  <2>8. Answer(a)
    BY <1>6, <2>5
  <2>9. QED
    BY <1>1, <1>5, <1>6, <2>1, <2>6, <2>7, <2>8, AnswerStep DEF r
<1>7. CASE UNCHANGED tables /\ Answer(Reply("err", r, {}, 0))
  <2> DEFINE a == Reply("err", r, {}, 0)
  <2>1. a.kind = "err" /\ a.about = r /\ a.rests = 0
    BY DEF Reply
  <2>2. a \in Truths' /\ behind + a.rests \in 0..MaxRests
    BY <1>2, <1>3, ClientAssumption DEF Reply, Answers, Truths, Truthful
  <2>3. Answer(a)
    BY <1>7
  <2> HIDE DEF a
  <2>4. QED
    BY <1>1, <1>4, <1>7, <2>1, <2>2, <2>3, AnswerStep DEF r
<1>8. CASE Throw(r)
  BY <1>1, <1>4, <1>5, <1>8, CloseStep DEF Throw
<1>9. QED
  BY <1>1, <1>6, <1>7, <1>8

LEMMA DieStep ==
  ASSUME MenuInv, Die PROVE MenuInv' /\ PStep
<1>1. Grows
  BY DEF Die, tables, MenuInv, ValuesOK, TablesOK, Grows
<1>2. QED
  BY <1>1, CloseStep DEF Die

LEMMA ElsewhereStep ==
  ASSUME MenuInv, Elsewhere PROVE MenuInv' /\ PStep
<1>1. UNCHANGED << program, server, up, down, behind >>
  BY DEF Elsewhere, LogoutElsewhere, JoinElsewhere
<1>2. Grows
  BY DEF Elsewhere, LogoutElsewhere, JoinElsewhere, MenuInv, ValuesOK, TablesOK, Grows
<1>3. /\ UNCHANGED << at, request, uid, chan_id, chan, left, shown, down, behind >>
      /\ Waiting' /\ InStep' /\ ConfirmedIsUser' /\ LeftInv'
      /\ down \in Seq(Truths') /\ TablesOK'
  BY <1>1, <1>2, ProgramKept
<1>4. ValuesOK'
  BY <1>1, <1>3, Zenon DEF MenuInv, ValuesOK
<1>5. Wires'
  BY <1>1, <1>3, Zenon DEF MenuInv, Wires, OneOnItsWay, Whole, Idle
<1>6. UNCHANGED Promised!vars
  BY <1>1, <1>3 DEF Promised!vars, Idle
<1>7. QED
  BY <1>3, <1>4, <1>5, <1>6, Zenon DEF MenuInv, PStep

LEMMA MenuStep ==
  ASSUME MenuInv, [Next]_vars PROVE MenuInv' /\ PStep
BY Kinds, SendsStep, EndsStep, MovesStep, ReceiveStep, HangupStep, ServeStep,
   DieStep, ElsewhereStep

LEMMA MenuInit == Init => MenuInv /\ Promised!Init
<1> SUFFICES ASSUME Init PROVE MenuInv /\ Promised!Init
  OBVIOUS
<1>1. ValuesOK
  <2>1. NoRequest \in Requests /\ request = NoRequest
    BY DEF Init, NoRequest, Plain, Request, Requests
  <2>2. up \in Seq(Requests) /\ down \in Seq(Truths)
    BY EmptySeq DEF Init
  <2>3. TablesOK /\ behind \in 0..MaxRests
    BY ClientAssumption DEF Init, TablesOK
  <2>4. at \in Prompts \cup Between \cup {"ended"}
    BY AllPlaces DEF Init
  <2>5. QED
    BY <2>1, <2>2, <2>3, <2>4 DEF Init, ValuesOK
<1>2. Wires /\ Waiting
  BY DEF Init, Wires, OneOnItsWay, Waiting, Idle
<1>3. InStep /\ ConfirmedIsUser /\ LeftInv
  BY DEF Init, InStep, ChannelInStep, ConfirmedIsUser, LeftInv, Inside
<1>4. Promised!Init
  BY Lengths DEF Init, Idle, Promised!Init
<1>5. QED
  BY <1>1, <1>2, <1>3, <1>4 DEF MenuInv

LEMMA MenuInvariance == Spec => []MenuInv
<1>1. Init => MenuInv
  BY MenuInit
<1>2. MenuInv /\ [Next]_vars => MenuInv'
  BY MenuStep
<1>3. QED
  BY <1>1, <1>2, PTL DEF Spec

-----------------------------------------------------------------------------
(* What follows.                                                           *)

\* The menus are a client of Connection, also after an answer was longer than
\* a read: whatever they send and wherever an answer, a rest or an exception
\* leads, they ask, wait and read once (run_boilerplate, choose_user).
THEOREM Refinement == Spec => Promised!Spec
<1>1. Init => Promised!Init
  BY MenuInit
<1>2. MenuInv /\ [Next]_vars => [Promised!Next]_(Promised!vars)
  BY MenuStep DEF PStep
<1>3. QED
  BY <1>1, <1>2, MenuInvariance, PTL DEF Spec, Promised!Spec

\* In a channel's menus the program shows a channel as the server described
\* it, and everybody it shows as a member still is one; while no answer was
\* longer than a read, it is the channel its requests name
\* (run_in_channel_menu).
THEOREM MenusInStep == Spec => []ChannelInStep
<1>1. MenuInv => ChannelInStep
  BY DEF MenuInv, InStep
<1>2. QED
  BY <1>1, MenuInvariance, PTL

\* choose_user asks about, and returns, a user the server described; while no
\* answer was longer than a read it is the one whose id was typed, although
\* what is shown is the answer that is read next.
THEOREM DescribedIsConfirmed == Spec => []ConfirmedIsUser
<1>1. MenuInv => ConfirmedIsUser
  BY DEF MenuInv
<1>2. QED
  BY <1>1, MenuInvariance, PTL

-----------------------------------------------------------------------------
(* Types.                                                                  *)

TypedOK ==
  /\ stdin \in {"good", "failed", "end"}
  /\ typed = << >> \/ \E p \in Prompts : \E l \in Lines(p) : typed \in {l, Tail(l)}

\* A line has one word or two.
LEMMA LineShape ==
  ASSUME NEW p, NEW l \in Lines(p)
  PROVE  Tail(l) = << >> \/ Tail(Tail(l)) = << >>
<1>1. ASSUME NEW w, l = << w >> PROVE Tail(l) = << >>
  BY <1>1
<1>2. ASSUME NEW u, NEW w, l = << u, w >> PROVE Tail(Tail(l)) = << >>
  <2>1. Tail(l) = << w >>
    BY <1>2
  <2>2. QED
    BY <2>1
<1>3. (\E w : l = << w >>) \/ (\E u, w : l = << u, w >>)
  BY DEF Lines
<1>4. QED
  BY <1>1, <1>2, <1>3

\* Lines are read word by word.
LEMMA TypedStep ==
  ASSUME TypedOK, [Next]_vars
  PROVE  TypedOK'
<1> USE DEF TypedOK
<1>1. ASSUME typed # << >>
      PROVE  \/ Tail(typed) = << >>
             \/ \E p \in Prompts : \E l \in Lines(p) : Tail(typed) \in {l, Tail(l)}
  <2>0. PICK p \in Prompts : \E l \in Lines(p) : typed \in {l, Tail(l)}
    BY <1>1
  <2>1. PICK l \in Lines(p) : typed \in {l, Tail(l)}
    BY <2>0
  <2>2. Tail(l) = << >> \/ Tail(Tail(l)) = << >>
    BY LineShape
  <2>3. CASE typed = l
    BY <2>1, <2>3, Zenon
  <2>4. CASE typed = Tail(l)
    BY <1>1, <2>2, <2>4
  <2>5. QED
    BY <2>1, <2>3, <2>4
<1>2. CASE UNCHANGED << stdin, typed >>
  BY <1>2
<1>3. CASE typed' = << >> /\ stdin' \in {stdin, "good", "end", "failed"}
  BY <1>3
<1>4. CASE \E p \in Prompts : \E l \in Lines(p) : Type(l)
  BY <1>4 DEF Type
<1>5. CASE typed # << >> /\ typed' = Tail(typed) /\ UNCHANGED stdin
  BY <1>1, <1>5, Zenon
<1>6. CASE typed' = typed /\ stdin' \in {"failed", "end"}
  BY <1>6
<1> HIDE DEF TypedOK
<1>7. CASE Input
  <2>1. CASE Unrecognized
    BY <2>1, <1>3 DEF Unrecognized
  <2>2. ASSUME NEW p, NEW w, NEW r, Line(p, w), stdin' \in {stdin, "good", "end"}
        PROVE  TypedOK'
    BY <2>2, <1>3 DEF Line
  <2>3. CASE Login
    BY <2>2, <2>3 DEF Login, AskTexts, Go, Quit
  <2>4. CASE MainMenu
    BY <2>2, <2>4 DEF MainMenu, Ask, AskTexts, Go, Quit
  <2>5. CASE ChannelsMenu
    BY <2>2, <2>5 DEF ChannelsMenu, Go, Quit
  <2>6. CASE ChannelMenu
    BY <2>2, <2>6 DEF ChannelMenu, Ask, AskTexts, Go, Quit
  <2>7. CASE ViewUsers \/ Invite
    BY <2>2, <2>7 DEF ViewUsers, Invite
  <2>8. CASE Confirm
    BY <2>2, <2>8 DEF Confirm, Go
  <2>9. CASE ChannelId \/ UserId
    BY <2>9, <1>2, <1>3, <1>5, <1>6 DEF ChannelId, UserId, Number
  <2>10. QED
    BY <1>7, <2>1, <2>3, <2>4, <2>5, <2>6, <2>7, <2>8, <2>9 DEF Input
<1>8. CASE FollowUp \/ AllShown \/ Receive \/ Hangup \/ Serve \/ Die \/ Elsewhere
  BY <1>8, <1>2 DEF FollowUp, Follow, AllShown, Receive, Hangup, Serve, Die,
     Elsewhere, LogoutElsewhere, JoinElsewhere, program
<1>9. CASE EndOfInput
  BY <1>9, <1>6 DEF EndOfInput
<1>10. CASE UNCHANGED vars
  BY <1>10, <1>2 DEF vars
<1>11. QED
  BY <1>4, <1>7, <1>8, <1>9, <1>10 DEF Next, User, Program, Elsewhere

\* The types of the variables, of everything on the wires too; and whoever .u
\* has still to show is a member of the channel whose menu it is
\* (run_in_channel_menu).
THEOREM TypeCorrect == Spec => []TypeOK
<1>1. Init => TypedOK
  BY DEF Init, TypedOK
<1>2. TypedOK /\ [Next]_vars => TypedOK'
  BY TypedStep
<1>3. MenuInv /\ TypedOK => TypeOK
  <2> SUFFICES ASSUME MenuInv, TypedOK PROVE TypeOK
    OBVIOUS
  <2>1. down \in Seq(Answers)
    <3>1. Truths \subseteq Answers /\ down \in Seq(Truths)
      BY DEF Truths, MenuInv, ValuesOK
    <3>2. QED
      BY <3>1, SeqMonotonic
  <2>2. left \subseteq chan.members
    BY DEF MenuInv, LeftInv
  <2>3. QED
    BY <2>1, <2>2, Zenon DEF MenuInv, ValuesOK, TablesOK, TypedOK, TypeOK
<1>4. QED
  BY <1>1, <1>2, <1>3, MenuInvariance, PTL DEF Spec

=============================================================================
