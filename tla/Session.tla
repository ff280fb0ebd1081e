------------------------------ MODULE Session -------------------------------
(***************************************************************************)
(* One connection: a client that sends a request and waits for its answer  *)
(* (cli::run_boilerplate), a server thread that reads, handles and answers *)
(* (thread_conn::callback, handle), and the bytes between them.  A write   *)
(* makes records of at most MaxRecord bytes, a read returns what is left   *)
(* of one record, at most MaxRead bytes of it; nothing puts the parts of a *)
(* longer message together again.                                          *)
(* The abstract specification of all that is Connection.                   *)
(*                                                                         *)
(* What a handler decides is any answer of the right kind (ChatServer says *)
(* which); here only its way over the connection matters.                  *)
(***************************************************************************)
EXTENDS WireFormat

CONSTANTS
  MaxRead,     \* the most bytes a read returns (1023 in the code)
  MaxRecord,   \* the most bytes of a message in a record (16384 in TLS)
  Texts,       \* pairs of texts that occur together in a message
  Ints,        \* tokens and ids
  MaxItems,    \* bound: the most items in an answer
  MaxBehind    \* bound: records, or rests of them, not read when more is sent

VARIABLES
  client,      \* "idle", "waiting" for an answer, or "ended"
  server,      \* the server's thread: "open" or "closed"
  up, down,    \* records not yet read, to the server and to the client
  asked,       \* the request sent last
  answered,    \* history: the answer given last, while only texts are broken
  broken,      \* history: a "request", only the "text" of one, or an "answer"
               \* did not arrive as it was sent
  cut          \* history: a message was longer than MaxRead

vars == <<client, server, up, down, asked, answered, broken, cut>>

-----------------------------------------------------------------------------
(* Requests and answers as objects.                                        *)

RequestFields ==
  [login |-> {"user", "pass"}, logout |-> {"token"},
   channel_list |-> {"token"}, channel_msg |-> {"token", "chan_id"},
   send_msg |-> {"token", "chan_id", "msg_cnt"},
   channel_details |-> {"token", "chan_id"},
   new_channel |-> {"token", "name", "desc"},
   new_user |-> {"name", "pass"}, change_pass |-> {"token", "new_pass"},
   user_details |-> {"token", "uid"},
   invite_user |-> {"token", "uid", "chan_id"}]

Commands == DOMAIN RequestFields

AnswerFields ==
  [login |-> {"token"}, logout |-> {}, channel_list |-> {"data"},
   channel_msg |-> {"msgs"}, send_msg |-> {},
   channel_details |-> {"id", "name", "owner_id", "desc", "members"},
   new_channel |-> {"id"}, new_user |-> {}, change_pass |-> {},
   user_details |-> {"id", "name", "mutual_channels"}, invite_user |-> {}]

ItemFields ==
  [data |-> {"id", "name"}, msgs |-> {"sender", "when", "cnt"}]

TypeOf(k) ==
  CASE k \in {"token", "chan_id", "uid", "id", "owner_id", "sender"} -> "INT32"
    [] k = "when" -> "UINT32"
    [] k \in {"data", "msgs", "members", "mutual_channels"} -> "LIST"
    [] OTHER -> "STRING"

\* Named(F, obj): the object whose keys are the names of the fields of obj.
Named(F(_, _), obj) ==
  [n \in {Name(k) : k \in DOMAIN obj} |-> F(Names[n[1]], obj[Names[n[1]]])]

Simple(k, v) == Arg(TypeOf(k), v)

\* A description that is absent is sent as the empty text; a present one is
\* <<text>>.
Field(k, v) ==
  CASE k \in DOMAIN ItemFields ->
         Arg("LIST",
             [i \in DOMAIN v |-> Arg("SUB_OBJECT", Named(Simple, v[i]))])
    [] k \in {"members", "mutual_channels"} ->
         Arg("LIST", [i \in DOMAIN v |-> Arg("INT32", v[i])])
    [] k = "desc" -> Arg("STRING", IF v = <<>> THEN <<>> ELSE v[1])
    [] OTHER -> Simple(k, v)

To(cmd, args) == [cmd |-> Name(cmd), args |-> Named(Field, args)]

\* require_arg for each of the fields.
HasArgs(fields, obj) ==
  \A k \in fields : Name(k) \in DOMAIN obj /\ obj[Name(k)].type = TypeOf(k)

ItemsFit(k, items) ==
  CASE k \in DOMAIN ItemFields ->
         \A i \in DOMAIN items : /\ items[i].type = "SUB_OBJECT"
                                 /\ HasArgs(ItemFields[k], items[i].val)
    [] k \in {"members", "mutual_channels"} ->
         \A i \in DOMAIN items : items[i].type = "INT32"
    [] OTHER -> TRUE

\* from() does not throw proto_error.
Convertible(fields, obj) ==
  /\ HasArgs(fields, obj)
  /\ \A k \in fields : ItemsFit(k, obj[Name(k)].val)

Plain(k, v) ==
  CASE k \in DOMAIN ItemFields ->
         [i \in DOMAIN v |-> [f \in ItemFields[k] |-> v[i].val[Name(f)].val]]
    [] k \in {"members", "mutual_channels"} -> [i \in DOMAIN v |-> v[i].val]
    [] k = "desc" -> IF v = <<>> THEN <<>> ELSE <<v>>
    [] OTHER -> v

From(fields, obj) == [k \in fields |-> Plain(k, obj[Name(k)].val)]

-----------------------------------------------------------------------------
(* The requests and answers that occur.                                    *)

Fill(fields, i, p, n) ==
  [k \in fields |->
     CASE TypeOf(k) = "INT32" -> i
       [] k = "data" -> [j \in 1..n |-> [id |-> i + j, name |-> p[1]]]
       [] k = "msgs" ->
            [j \in 1..n |-> [sender |-> i, when |-> j, cnt |-> p[1]]]
       [] k \in {"members", "mutual_channels"} -> [j \in 1..n |-> i + j]
       [] k = "desc" -> IF p[2] = <<>> THEN <<>> ELSE <<p[2]>>
       [] k \in {"name", "user"} -> p[1]
       [] OTHER -> p[2]]

Call(cmd, args) == [cmd |-> cmd, args |-> args]

Requests ==
  {Call(c, Fill(RequestFields[c], i, p, 0)) :
     c \in Commands, i \in Ints, p \in Texts}

\* The texts of an answer came to the server in requests, which hold them as
\* far as the first NUL.
Stored == {<<CString(p[1]), CString(p[2])>> : p \in Texts}

Refusals == {Call("err", [reason |-> p[1]]) : p \in Stored}

Answers ==
  [c \in Commands |-> Refusals \cup
     {Call("ok", Fill(AnswerFields[c], i, p, n)) :
        i \in Ints, p \in Stored, n \in 0..MaxItems}]

AllAnswers == UNION Range(Answers)

\* No request or answer; in the histories also bytes that are no message.
None == Call("none", [k \in {} |-> 0])

\* Texts are bytes, and what the numbers of an answer count up to are ids.
ASSUME SessionAssumption ==
  /\ MaxRead \in Nat /\ MaxRecord \in Nat \ {0} /\ MaxRead <= MaxRecord
  /\ Texts \subseteq Seq(Byte) \X Seq(Byte)
  /\ MaxItems \in Nat /\ MaxItems <= 2147483647
  /\ Ints \subseteq (-2147483647 - 1)..(2147483647 - MaxItems)

-----------------------------------------------------------------------------
(* The connection.                                                         *)

Init ==
  /\ client = "idle"
  /\ server = "open"
  /\ up = <<>> /\ down = <<>>
  /\ asked = None /\ answered = None
  /\ broken = {}
  /\ cut = FALSE

\* The records SSL_write makes of what it is given.
Records(bytes) ==
  [i \in 1..((Len(bytes) + MaxRecord - 1) \div MaxRecord) |->
     SubSeq(bytes, (i - 1) * MaxRecord + 1, Min({i * MaxRecord, Len(bytes)}))]

\* tls_connection::send on either side.
Sent(m, wire) ==
  LET bytes == Encode(m) IN
  /\ wire' = wire \o Records(bytes)
  /\ cut' = (cut \/ Len(bytes) > MaxRead)

\* tls_connection::read takes at most MaxRead bytes of the oldest record.
Chunk(wire) == SubSeq(wire[1], 1, Min({MaxRead, Len(wire[1])}))
\* Mutant: a message that just fits leaves a rest, too.
RestOfNothing(wire) ==
  IF Len(wire[1]) >= MaxRead
  THEN <<SubSeq(wire[1], MaxRead + 1, Len(wire[1]))>> \o Tail(wire)
  ELSE Tail(wire)

Rest(wire) ==
  IF Len(wire[1]) > MaxRead
  THEN <<SubSeq(wire[1], MaxRead + 1, Len(wire[1]))>> \o Tail(wire)
  ELSE Tail(wire)

\* The client's program ends and takes its connection with it.
End ==
  /\ client' = "ended"
  /\ up' = <<>> /\ down' = <<>>
  /\ UNCHANGED <<server, cut>>

\* The client sends a request.  One that cannot be encoded, or sent, ends it,
\* but choose_user() catches that too.
Ask(r) ==
  /\ client = "idle"
  /\ Len(up) + Len(down) <= MaxBehind
  /\ asked' = r
  /\ \/ /\ Encodable(To(r.cmd, r.args))
        /\ client' = "waiting"
        /\ IF server = "open"
           THEN Sent(To(r.cmd, r.args), up)
           ELSE UNCHANGED <<up, cut>>
        /\ UNCHANGED <<server, down>>
     \/ ~Encodable(To(r.cmd, r.args)) /\ End
     \/ server = "closed" /\ End
     \/ /\ server = "closed"
        /\ r.cmd = "user_details"
        /\ UNCHANGED <<client, server, up, down, cut>>
  /\ UNCHANGED <<answered, broken>>

\* Mutant: the worker catches the exception inside its loop.
CloseForgotten ==
  /\ up' = Rest(up)
  /\ UNCHANGED <<server, down, answered, cut>>

\* The server's thread ends and closes the connection.
Close ==
  /\ server' = "closed"
  /\ up' = <<>>
  /\ UNCHANGED <<down, answered, cut>>

\* After the answer the thread may find that it was asked to stop.
Answer(a) ==
  IF Encodable(To(a.cmd, a.args))
  THEN /\ Sent(To(a.cmd, a.args), down)
       /\ answered' = IF broken' \subseteq {"text"} THEN a ELSE None
       /\ \/ up' = Rest(up) /\ UNCHANGED server
          \/ up' = <<>> /\ server' = "closed"
  ELSE Close

\* A text that may hold a NUL, as protocol.md promises.
HasNul(arg) == arg.type = "STRING" /\ 0 \in Range(arg.val)

\* The message m is n, but for texts in which n has a NUL.
Intact(m, n) ==
  /\ m.cmd = n.cmd /\ DOMAIN m.args = DOMAIN n.args
  /\ \A k \in DOMAIN n.args : m.args[k] = n.args[k] \/ HasNul(n.args[k])

\* The request r, as it was decoded, reaches its handler, which answers or
\* throws.
Dispatch(r) ==
  /\ broken' = broken \cup
       (IF r = asked THEN {}
        ELSE IF Intact(To(r.cmd, r.args), To(asked.cmd, asked.args))
             THEN {"text"} ELSE {"request"})
  /\ Close \/ \E a \in Answers[r.cmd] : Answer(a)

\* A message that is no request of the protocol is refused.
Refuse ==
  /\ broken' = broken \cup {"request"}
  /\ \E a \in Refusals : Answer(a)

Handle(m) ==
  \/ \E c \in Commands :
       /\ m.cmd = Name(c)
       /\ IF Convertible(RequestFields[c], m.args)
          THEN Dispatch(Call(c, From(RequestFields[c], m.args)))
          ELSE Refuse
  \/ (\A c \in Commands : m.cmd # Name(c)) /\ Refuse

\* One turn of the server's loop: read, decode, handle, answer.  A message
\* read past the end of the buffer is rejected or taken for any request.
Serve ==
  /\ server = "open"
  /\ up # <<>> /\ Len(down) <= MaxBehind
  /\ LET got == Decode(Chunk(up)) IN
     \/ got.st = "value" /\ Handle(got.v)
     \/ /\ got.st # "value"
        /\ broken' = broken \cup {"request"}
        /\ Close
     \/ /\ got.st = "undefined"
        /\ broken' = broken \cup {"request"}
        /\ \E a \in AllAnswers : Answer(a)
  /\ UNCHANGED <<client, asked>>

\* The client goes on with the answer or refusal a, or with None where it
\* could not make one of what it read.
Show(a) ==
  broken' = IF a = answered THEN broken ELSE broken \cup {"answer"}

\* run_boilerplate throws a cli_error: before the login it ends the program,
\* after it it leads back to a menu.
CliError ==
  IF asked.cmd \in {"login", "new_user"} THEN End
  ELSE /\ client' = "idle"
       /\ down' = Rest(down)
       /\ UNCHANGED <<server, up, cut>>

\* Any other exception ends the program, but choose_user() catches it and
\* asks again.
Throw ==
  \/ End
  \/ /\ asked.cmd = "user_details"
     /\ client' = "idle"
     /\ down' = IF down = <<>> THEN <<>> ELSE Rest(down)
     /\ UNCHANGED <<server, up, cut>>

\* What run_boilerplate makes of a message.
Take(m) ==
  LET ok == m.cmd = Name("ok")
      fields == IF ok THEN AnswerFields[asked.cmd] ELSE {"reason"}
  IN IF Convertible(fields, m.args)
     THEN /\ Show(Call(IF ok THEN "ok" ELSE "err", From(fields, m.args)))
          /\ IF ok
             THEN /\ client' = "idle"
                  /\ down' = Rest(down)
                  /\ UNCHANGED <<server, up, cut>>
             ELSE CliError
     ELSE Show(None) /\ CliError

Receive ==
  /\ client = "waiting"
  /\ down # <<>>
  /\ LET got == Decode(Chunk(down)) IN
     \/ got.st = "value" /\ Take(got.v)
     \/ got.st # "value" /\ Show(None) /\ Throw
     \/ /\ got.st = "undefined"
        /\ Show(None)
        /\ client' = "idle"
        /\ down' = Rest(down)
        /\ UNCHANGED <<server, up, cut>>
  /\ answered' = None
  /\ UNCHANGED asked

\* The server closed the connection and nothing is left to read.
Hangup ==
  /\ client = "waiting"
  /\ server = "closed" /\ down = <<>>
  /\ Throw
  /\ UNCHANGED <<asked, answered, broken>>

\* The user quits.
Quit ==
  /\ client = "idle"
  /\ End
  /\ UNCHANGED <<asked, answered, broken>>

Next ==
  \/ \E r \in Requests : Ask(r)
  \/ Serve
  \/ Receive
  \/ Hangup
  \/ Quit

Spec == Init /\ [][Next]_vars

-----------------------------------------------------------------------------
(* Properties.                                                             *)

TypeOK ==
  /\ client \in {"idle", "waiting", "ended"}
  /\ server \in {"open", "closed"}
  /\ \A wire \in {up, down} :
       \A i \in DOMAIN wire : wire[i] # <<>> /\ Range(wire[i]) \subseteq 0..255
  /\ asked = None \/ asked \in Requests
  /\ answered = None \/ answered \in AllAnswers
  /\ broken \subseteq {"request", "text", "answer"}
  /\ cut \in BOOLEAN

\* What message.cpp writes it reads back from the same bytes: the request that
\* was sent last, but for its texts with a NUL, and the answer that was given
\* last.
Carries(m) ==
  LET got == Decode(Encode(m)) IN
  Encodable(m) => got.st = "value" /\ Intact(got.v, m)

ReadsBack ==
  /\ asked # None => Carries(To(asked.cmd, asked.args))
  /\ answered # None => Carries(To(answered.cmd, answered.args))

\* While every message so far fitted into one read, the server handles the
\* request the client waits for, with every number and every text in which
\* there is no NUL as they were sent, and refuses or rejects nothing.
RequestsArrive == ~cut => "request" \notin broken

\* While every message so far fitted into one read, the texts the server
\* handles are the texts that were sent: "strings can include null-characters"
\* (protocol.md).
TextsArrive == ~cut => "text" \notin broken

\* While every message so far fitted into one read, what the client goes on
\* with is the answer the server gave to this very request, unchanged.
AnswersArrive == ~cut => "answer" \notin broken

\* A client never waits with nothing on its way, whatever part of a message
\* is read for a whole one: the answer, the request or the end of the
\* connection is still to come.
NobodyWaits ==
  client = "waiting" => up # <<>> \/ down # <<>> \/ server = "closed"

\* The bytes carry out what Connection promises: one message at a time, one
\* answer to each, and a rest only where a message was longer than a read.
Promised == INSTANCE Connection
              WITH up <- Len(up), down <- Len(down)
ImplementsConnection == Promised!Spec

=============================================================================
