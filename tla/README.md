# dotchat in TLA+

dotchat is a chat server and a command-line client in C++20. The client sends
requests in a small binary format over TLS; the server gives each connection a
thread, answers each request from a SQLite database and keeps the connection.
This directory models what the server's handlers do to the database when they
interleave and crash, what its threads do to each other when they start, end
and are shut down, what becomes of a request and its answer on their way over
a connection, where each answer leads in the client's menus, and what its two
clocks make of sessions and messages.

## The system

| Part | Source | State | Operations | Hard part |
| --- | --- | --- | --- | --- |
| Handlers | `server/src/handlers`, `server/inc/handlers` | locals of the running handler | eleven request handlers, `check_session_key`, `user_can_access` | no transaction spans two statements |
| Database | `server/inc/db` | five tables in one file | `database()` and the statements of the handlers | initialization is five steps, decided by the existence of the file |
| Dispatch | `server/src/handle.cpp`, `shared/inc/protocol/helpers.hpp` | none | `handle`, `reply_to`, `require_arg` | which exception answers and which closes |
| Thread pool | `server/*/threading` | the list of connections, each with a `thread_state` | `enlist`, `cleanup`, `request_stop`, `wait_for`, `stop_sync`, the worker's `callback` | a plain variable written by three threads; a list one of them walks without its mutex |
| Main | `server/main.cpp` | `flag` | start-up, accept loop, two shutdown loops | blocking handshake, failure leaves the loop |
| TLS transport | `shared/*/tls` | the SSL object, the descriptor | handshake, `read`, `send`, `close` | `read` returns at most 1023 bytes |
| Wire format | `shared/src/protocol/message*.cpp`, `tls_bytestream.hpp` | a buffer | encode, decode | lengths, nesting, strings cut at NUL |
| Requests, responses | `shared/*/protocol/requests.*`, `responses.cpp` | none | `from`, `to` | a missing key is refused, a missing byte is not |
| Client | `client` | the menu, the token, one connection, `std::cin` | `run_boilerplate`, the menus | each menu catches other exceptions; a failed `cin` stays failed |
| Clocks | `requests.hpp`, `server/inc/db/types.hpp` | none | `now`, `now_uncut`, `now_plus_uncut` | two clocks, two units, one of them cut to 32 bits |

Connections meet in two places: the tables, through one statement at a time,
and the pool, through `state` and the list. A handler ends in one of three
ways: a reply; an `err` reply (`proto_error`, caught by `reply_to`); or any
other exception, which reaches `thread_conn::callback` and closes the
connection with no reply.

What makes each part correct:

* handlers: a request acts only for the user whose token it carries, and only
  where that user may act, although each check and the write it guards are
  different statements; references never dangle; an `ok` is true;
* database: a crash between any two statements leaves no dangling reference and
  nothing the ledger does not permit; a server that serves was initialized;
* pool: no thread uses a connection that was freed; a connection asked to stop
  stops; shutdown ends;
* wire format, connection and client: texts and numbers are handled as sent, the
  answer the client goes on with is the one to that request, and no client
  waits for an answer that nothing on its way can become;
* menus: they show and act upon the channel and the user the server's answers
  were about, and come back to their user whatever is refused;
* clocks: a session ends after its 24 hours; messages are shown in their order.

## Modules

`ChatServer` has one action per database statement of every handler. A worker
`w` is at `pc[w]`, which names the statement it runs next; `req`, `me`, `row`,
`uname`, `got` and `out` are the handler's locals (the request, the
authenticated user, the user of the session row, the authenticated user's name
once read, the generated key or inserted id, the reply). `change_pass` writes a
whole row, name and all, from the locals, and so does `SetPass`. `CheckSession`
and `CheckUser` are the two statements of `check_session_key`; login calls it
too, and so runs through the same actions, where "found" means that the key is
taken. `Boot` to `BootMember` are the steps of `database()`, where
`sync_schema` creates one table after the other in some `SchemaOrder`
(`created` counts them), and a statement that names a table that is not there
(`Needs`) throws; `Crash` ends the process between any two actions and loses
the locals, not the tables. `users`, `channels` and `messages` are sequences
because SQLite gives out row ids in order and nothing is deleted from them;
`sessions` and `members` are sets with the primary keys the schema declares.
`issued` is a history of the tokens login stored and is read by no action.

`ChatLedger` is the abstract specification: accounts, channels, memberships and
messages change only by permitted acts, each atomic: `SignUp`, `LogIn`,
`SetPassword`, `Open` (a channel), `Admit` (a creator or an invited user) and
`Write`. Its guards say who may act. `ImplementsLedger` states that every step
of `ChatServer` is one such act or none: the checks the handlers made earlier
still hold when they write.

`ChatInvariant` strengthens the properties to an inductive invariant, and
`ChatServer_proofs` proves it; `AnswersInv` and `SchemaInv` extend it for
`ChatAnswers_proofs`. `MCChatServer` gives TLC its sets of commands.

`ThreadPool` has the main thread (`main`, `it`, `stopping`, `flag`), the list
(`threads`), the cleaner (`cleaner`, `doomed`) and per connection the
`thread_state` (`state`), the worker's position (`worker`), whether the server
has closed it (`open`) and its client (`client`, `inbox`, `sent`). Test and
assignment of `request_stop` are two actions, and so are test and join of
`wait_for`; the assignments of `state` by the constructor, the worker and the
main thread interleave. `late` counts the messages read after `request_stop`
marked the connection. Where the code has undefined behaviour (the shutdown
loops standing on a node the cleaner took; the cleaner scanning a list not yet
constructed or already destroyed), the model chooses between the death of the
process (`dead`) and going on at any place of the list. `Without` is
`remove_if`, `Successor` the next place of the iterator. `ThreadPool_proofs`
has the invariant of all that and its proof.

`Message` says how the models write a message: the names the protocol fixes are
texts of one byte, other texts are sequences of bytes, and a number is its
value as the code's type has it. `CString` is what a `char *` leaves of a text.

`WireFormat` has no state. `Encode` is `message::send_to` and `Decode` the
constructor of a message from a stream; between them are one operator for each
`send_*` and `read_*` function of `message.cpp` and for `extract`, `read` and
`sanitize` of the bytestream. A reader returns its value and the stream it
leaves, or `Failed` (a `message_error`), or `Undefined` (`extract` went past the
end of the buffer, which it does not check); `Then` runs the next reader.
`send_arg` and `read_value` call themselves in the code. What the program sends
nests no deeper than a list of records, so the writers are `Scalar`, `Item` and
`Body`, one for each depth. What is read may nest as deep as its bytes allow, so
the readers follow any nesting: `ReadValues` is a function of the depth, up to
the number of bytes there are, and a reader is handed to another one as the
function of its stream. No operator is RECURSIVE, so all of it can be proved
about.

`Session` is one connection in those bytes. It has the client in
`run_boilerplate` (`client`, `asked`), the server's thread (`server`) and the
writes not yet read in either direction (`up`, `down`). `Ask` sends, `Serve` is
one turn of `thread_conn::callback` (read, decode, `handle`, answer), `Receive`
the client's reading of its answer, `Hangup` its reading from a closed
connection. A write becomes records of at most `MaxRecord` bytes (`Records`), a
read takes at most `MaxRead` bytes of one record, and `Rest` is what the next
read finds. `RequestFields` and `AnswerFields` say which keys `from` requires
and `to` writes; the handler's decision is any answer of the right kind. After
a read past the end of the buffer, the server answers anything or closes and
the client goes on with anything or ends. A text arrives up to its first NUL
(`CString`), which is not what was sent: `broken` says whether a handler got
something else than the request but for such texts (`Intact`), or such a text
cut. The texts of answers came in requests and were cut there (`Stored`).
`answered`, `broken` and `cut` are histories. `SessionAssumption` says that
texts are bytes and that ids, counted up by the items of an answer, stay
numbers of four bytes. `MCSession` gives TLC its texts and numbers.

`Connection` is the abstract specification of one connection: who waits for
whom, with the messages only counted. The client asks, waits and reads once;
the server's thread answers each message once and may close at any turn; a
message longer than a read (`cut`) leaves rests that count as more. It has two
refinements. `Session` implements `Connection!Spec` with the lengths of its two
wires for `up` and `down`; `Client` implements `Connection!FairSpec`, where a
message was cut if an answer has left rests (`behind > 0`).
`Connection_proofs` proves what holds of both.

`Client` is `run_wait_loop` with its menus. `at` is the prompt the program
stands at, or the place of a request it sends without one (`list`, `details`,
`members`, `lookup`, `invite`). The user types lines (`typed`); `stdin` is
good, failed or at its end, and a read from a failed stream returns at once
with nothing, so a prompt whose action needs a good stream and no other is, in
the code, a loop that prints it for ever. `Number` is `cin >> x`: a word that
is no number leaves 0 and a failed stream, the rest of the line stays for the
next read unless `flush` takes it. `uid`, `chan_id` and `chan` are the locals
of `choose_user` and the channel menu, `left` the rest of the loop of `.u`,
`request` the request whose answer is awaited. An answer says which request it
is about and how many more reads it takes (`rests`): the answers that have a
list may be longer than a read. The client takes whatever comes next for the
answer it waits for, as the code does. `Accept` keeps what that answer says
(the channel, the user `confirm_user` shows), whomever it is about; `Refuse` is
an error or an answer without a required field (`Fits`); `Garbled` a message
that cannot be decoded, which `choose_user` survives. `Accepted`, `Refused` and
`Thrown` say where each leads, `Hangup` what a failed read does. A rest is
never decoded here, and a cut answer that is decoded has lost texts only, or is
refused; that bytes past its end should supply a missing field is left out. Of
the server there are the user the client's token stands for (`holder`), the
members of the channels, and one turn of its thread (`Serve`): an answer that
is permitted, a refusal, or an exception after any of the handler's statements
(`Throw`). Other clients log out the same user, invite and create meanwhile,
and the server may die. The token itself is not a variable: the client has one
and sends it with every request, and all that matters is whom it stands for. A
refused token leads back to the main menu and no further, which offers no
login, so a client logged out elsewhere can only quit.

`Clock` has real time in milliseconds, the time the machine was started and
the two columns that hold times. `send_msg` takes two steps, `Stamp` (it makes
the row, with `now()` in it) and `Store` (the INSERT), and `pending` has the
rows of the threads in between. `now` is the system clock cut to `Cut`
numbers, `now_uncut` the nanoseconds since the machine started. `Valid` is the
comparison of `check_session_key`, `Before` the order of `channel_msg`.

The models meet in `thread_conn::callback`: `ThreadPool` sees one message
handled as `Handle`, `ChatServer` sees the statements of that one step, and
`Session` the bytes that come in and go out (`Dispatch` is where `ChatServer`
runs). `Client` has the other end of `Session`'s wires, and for the handlers a
summary of what `ChatServer` lets them decide (`Permitted`, `Effect`). `Ask`,
`Receive` and `Hangup` of `Session` and of `Client` are steps of the same
`Connection`. `ChatServer` lets a connection end at any time it could in
`ThreadPool` or `Session`, and its `Encodable` is that of `WireFormat` for the
one text that matters there.

Definitions whose comment begins with "Mutant:" are faulty variants of the
definition after them; no action uses them. They show that the property named
for them in `PROJECT.json` can be broken.

## Runs

| Run | Question | Distinct states |
| --- | --- | --- |
| `chat_accounts` | can anybody be served as another user, with colliding keys and a crash? | 2.4M |
| `chat_channels` | do the checks still hold at the writes; is what `ok` says true; does a query show what its caller may not see? | 2.2M |
| `chat_live` | does every request end; what does a crash at any point, the initialization included, leave? | 491k |
| `chat_login` | the same with colliding keys: violated | |
| `pool` | is a freed connection used; how late does a connection stop; does shutdown end if no client stays for ever? | 466k |
| `pool_sync` | has every worker ended after `stop_sync`? violated | |
| `wire` | do requests and answers arrive as they were sent, and what becomes of those that do not? | 166k |
| `wire_nul` | does a text with a NUL arrive? violated | |
| `client` | do the menus stay in step with the server, also after an answer longer than a read, and does the program come back to its user? | 184k |
| `client_confirm` | is the user who was shown the one who is invited? violated | |
| `client_quit` | does `.q` exit wherever a command is requested? violated | |
| `clock_expiry` | does a session end after 24 hours? violated | |

Properties of the passing runs:

* `ServedAsTokenHolder`: from the session check to its last statement a handler
  acts for a user its token was issued to.
* `References`: no dangling user or channel id in the tables or in a thread's
  locals; the unchecked `.value()` of `check_session_key` never throws.
* `SenderIsMember`, `CreatorIsMember`: whoever writes is a member; whoever
  creates a channel is in it, but for the moment between two INSERTs.
* `AcknowledgedIsStored`: an `ok` describes the tables.
* `AnswersWithinMembership`: queries stay within the caller's channels
  (`user_details` does not, see below).
* `ImplementsLedger`: refinement of the abstract specification.
* `RequestsEnd`: no request leaves its thread running for ever.
* `NoOrphan`: no thread runs on a destroyed `thread_conn`, nor after `main`
  returned; so the database, which is destroyed later, has no user left.
* `AtMostOneMore`: after `request_stop` at most one more message is read.
* `CollectsOnlyClosed`: the cleaner takes no connection that is still served.
* `BusyWorkerStops`: a connection that answered after `request_stop` stops.
* `PatientShutdown`: SIGINT ends the process if every client leaves in the end.
* `ReadsBack`: each message that is sent is decoded from its own bytes again,
  but for texts with a NUL.
* `RequestsArrive`: while every message so far fitted into one read, the
  handler gets the request that was sent, but for texts with a NUL (which do
  not arrive, see `wire_nul`), and nothing is refused or rejected.
* `AnswersArrive`: under the same condition the client goes on with the answer
  the server gave to this very request. A description that is present but empty
  is not told apart from none, by the code as in the model.
* `NobodyWaits`: even when long messages were cut, a waiting client has a
  request, an answer or the end of the connection on its way.
* `ImplementsConnection`, of `Session` and of `Client`: refinement of
  `Connection`; in `Client` with its fairness, so every request ends.
* `ChannelInStep`: in a channel's menu and below it, what is shown is a channel
  as the server described it and everybody shown is its member still, whatever
  other clients did to the channel or to the session; and it is the channel the
  requests name, unless an answer was longer than a read. Members who joined
  since are not shown.
* `ConfirmedIsUser`: who is confirmed, and invited next, is a user the server
  has described; and the one whose id was typed, unless an answer was longer
  than a read. A "y" typed behind the id counts as the confirmation, as it does
  in the code.
* `ComesBack`: as long as stdin is good, no menu goes on sending requests
  without coming back to a prompt or ending.

Bounds. Two workers are enough for any race between two handlers, which is
where every hazard listed lies: the handlers share only the tables, and a third
connection would only be another writer of the same kinds. Two keys give one
token each to two sessions and, in `chat_accounts`, collisions; two names and
two channels give a caller and another user, a channel the caller owns and one
he does not. `MaxMessages` in `ChatServer` bounds the stored messages: no
handler reads one to decide anything. `MaxCrashes` of 1 lets a crash hit the
initialization or the running server, which then restarts; the theorems about
the same invariants hold for any number. `SchemaOrder` is the order in which
`sync_schema` creates the tables, which is the library's; the runs have the
user's first (`chat_live`) or last. In `ThreadPool` two connections let the
shutdown loops stand on one while the cleaner takes the other; 2 messages are
the least that can break `AtMostOneMore`, and one of the two connections has
them (`MaxMessages` is a function), the other being its neighbour in the list.
`chat_accounts` and `chat_channels`, which check no liveness, identify states
that differ in the names of the threads or of the keys only: keys are compared
with keys and nothing else. `WithinBounds` in `ChatServer` also keeps a login from starting when no free
key is left and keys may not collide. `Expiries` and `NowValues` have one value
each: sessions as the code compares them do not expire (see the findings
below).

In `wire` the lengths are scaled down so that TLC meets every limit with short
messages: `MaxString` 20 for 255, `SanitizeAt` 10 for 100, `MaxRead` 42 for
1023 and `MaxRecord` 50 for 16384, with `MaxKeys` 5, the most an answer of the
protocol has. The order of `SanitizeAt`, `MaxString`, `MaxRead` and `MaxRecord`
is kept, two texts of 18 bytes make a message longer than `MaxRead`, and most
messages make the stream drop its head several times. The texts are empty,
short, long and one too long to encode; the numbers have a carry and a sign,
and some texts have a NUL in front or inside. `MaxItems` of 2 makes a list
longer than one, and `MaxBehind` of 1 lets one stale message wait in front of
the next. Deadlock is not checked there because the client may quit; nor in
`client` and the runs of `Client` and `Clock`, for the same reason and because
time has a bound.

`client` has two users, so that one may be invited who is not a member, and one
may be shown for the other; of the one channel and the ids that nobody has the
program may be in the one while the user names the other. Those ids are one
value, which 0 and a mistyped id share. There is no bound on the length of a
behaviour: before an answer is longer than a read the wires hold one message at
most, and `MaxRests` of 1 makes one answer longer by one more read, which is
enough to leave the client behind for good; a second such answer only leaves it
further behind. The theorems about the same invariants hold for any number of
users, channels and rests. `client_quit` needs one user and one channel. In
`clock_expiry` the units are scaled: a day is 2 ms of 10 ns, and `now` counts
modulo 16, which keeps the only relation that matters, a day of nanoseconds is
more than `now` can show.

Fairness. `Fairness` of `ChatServer` is weak fairness of each worker's own
steps and of the initialization: operating-system threads are all scheduled and
a worker with a request waits for nobody. Clients need not connect, send or
leave, and a crash need not happen. `FairSpec` of `ThreadPool` is weak fairness
of the main thread, of the cleaner and of each worker; the mutex is held only
for finitely many steps. A handshake that began is assumed to end in success or
failure, because `SSL_accept` blocks the main thread and nothing else could be
said without it. `PatientShutdown` states the assumption about clients in its
premise: a worker blocked in `read()` by an idle client is joined by the
shutdown and never ends. `Session` states no fairness; its properties are
safety. `FairSpec` of `Client` is weak fairness of the program and of the
server's thread, each a process of its own; nobody makes the user type, so
every property stops at a prompt. The same two appear in
`Connection!FairSpec`: `Read` and `Serve`.

## What the violated properties show

* `chat_login`: on a collision the login handler drops the newly generated key
  and probes the old one again, for ever while that session exists.
* `pool_sync`: `request_stop` and `wait_for` ignore a connection in `WAITING`.
* `wire_nul`: `read_string` makes a string of a `char *`, so it ends at the first
  NUL; `protocol.md` says that strings can include them.
* `client_confirm`: `choose_user` goes on after an answer it could not decode. The
  rest of that answer is the next one it reads, and the answers it reads from
  then on are those to earlier requests: one user is shown, another one invited.
* `client_quit`: a `.q` at "Channel ID?" is read by `cin >> id`, which fails and
  is never cleared; the program prints its prompts for ever.
* `clock_expiry`: no session ever expires. `SessionsStayValid` proves it: a day
  in nanoseconds exceeds every value of `now`.

Four more disagreements with what the repository says are in the models, without
a run of their own:

* the sub-query of `user_details` selects by the same user as the query, so every
  channel of that user is listed (`Mutual`), where `requests.hpp:774` speaks of
  "All channels you have in common with this user";
* a worker that ends on an error remains `RUNNING` (`ReadFails`, `Handle`), so
  the cleaner never removes it, although `is_running` "Returns whether the thread
  is running or not" (`thread_connection.hpp:67`);
* that the file exists is all the initialization leaves to know it by: a process
  that dies between two of its statements leaves a database without some table,
  the first user or the first channel, which every later start takes for
  initialized (`Boot`, `At`);
* a key is found free by one statement and stored by a later one (`Mint`): two
  logins that generated the same key both hand it out, and whoever logged in
  first is served as the other. `ServedAsTokenHolder` is true all the same: the
  token was issued to both.

Met while reading and in the models, but no violated promise: message times
wrap after 49.7 days (`OrderKept` proves the order between two wraps); `read`
asks for 1023 bytes where its comment speaks of at most 1024; a duplicate name,
or a refusal too long to encode, closes the connection without an answer; a
crash between the two INSERTs of `new_channel` leaves a channel its owner is not
in, for good; a "y" behind the id confirms a user whose name was not read yet;
at the end of the input the client may send a request with empty texts.

## Proofs

`ChatServer_proofs` proves, for any set of workers, users, passwords, channel
names and keys, and any bounds, under `ConstantsAssumption` only:

* `Invariance`: `Spec => []IInv`;
* `TypeCorrect`, `NoOtherUser`, `NoDanglingReference`, `OnlyMembersWrite`: the
  invariants `TypeOK`, `ServedAsTokenHolder`, `References`, `SenderIsMember`;
* `Refinement`: `Spec => ImplementsLedger`.

None of the safety properties is inductive: that a message's sender is a member
rests on what an earlier statement of the handler found, so `IInv` records what
each position of a worker knows. `Dispatched` ties the position to the command,
`Identified` says that from the session check on the token was issued to `me`,
that `me` and `row` exist and that `uname` is the name of `me`, so that the row
`SetPass` writes has the name it had, `Permitted` that a worker at `post`,
`join` and the invitation steps still has the membership or ownership it
checked. These survive the other workers' steps because rows of users,
channels, members and `issued` are never taken away, which is the argument:
`logout` removes sessions, and nothing a worker knows after its session check
refers to one. `BootInv` ties the initialization steps to the tables, created
one after the other, so that a crash in it is covered. Instances of the `chat_`
runs were used to try `IInv` before it was proved.

`Connection_proofs` proves `SomethingComes` (`NobodyWaits`) and
`AnswersInOrder` (`OneInFlight`) of the abstract connection, with no assumption.
The two are inductive together with the types and `NothingLeft`: a thread that
closed its connection leaves nothing to read, without which a client that read
the end of the connection could be idle with its request still on the way. By
the two refinements, both proved, they hold of `Session` and `Client` too.

`Clock_proofs` proves `SessionsStayValid` (`NeverExpires`) and `OrderKept`
(`OrderedUntilWrap`) from `Units`, which says that `now` wraps before a day of
nanoseconds; the code's numbers satisfy it (2^32 and 86400000 * 10^6). No run
checks these two; they are known by their proofs alone. The
invariant records that a stored end of a session is at least a day of
nanoseconds (`LongLived`) and that a message, stored or pending, has the time at
which it was stamped, cut, and was not stored before that (`Stamped`). Nothing
is said of order across a wrap, nor of messages whose threads overlap: it does
not hold.

`ChatAnswers_proofs` adds, from the same assumption, `OkIsTrue`
(`AcknowledgedIsStored`), `OnlyMembersRead` (`AnswersWithinMembership`) and
`CreatorsJoin` (`CreatorIsMember`). An answer rests on what was read or written
up to two statements before it, so `AnswersInv` says per worker what its
position has learnt (`Learnt`: whom login has found, which channel was
inserted, that the caller is a member) and what its answer says (`Told`). The
argument is again that no table takes back what an answer rests on (`Keeps`:
names of users, channels, members, stored messages, issued tokens). For
`CreatorsJoin` the step that matters is the one after the INSERT of the
channel: a worker at `join` can only join (`OnlyJoins`), because the channel it
inserted shows that the schema exists, and while there was no crash a schema
that exists is complete (`SchemaInv`). A crash there is the exception the
property names. `NothingTakenBack` states the argument itself:
every step of the server, crashes included, is a `Keeps` step.

`ThreadPool_proofs` proves, for any connections and any number of messages of
each, under `PoolAssumption`, the four safety invariants of the run `pool`:
`TypeCorrect`, `JoinedByItsOwner` (`NoOrphan`), `StopsAfterOneMore`
(`AtMostOneMore`) and `FreesOnlyClosed` (`CollectsOnlyClosed`). They rest on one
invariant, `PoolInv` (theorem `Invariance`), which TLC checked on the instance
of `pool` before it was proved. Its main part is kept connection by connection
(`PerConn`). `StoppedInv` is why freeing is safe: a worker sets `STOPPED` only
after it closed its connection, and reads no more. `LateInv` is why one more
message is the last: whoever was asked to stop is `STOPPING` or `STOPPED`, and
nothing puts `RUNNING` back, because the only late writer, the constructor
(`FreshInv`, `MainInv`), is done before the node can be marked. `DoomedInv` says
that the list has lost what the cleaner holds, and `JoinedInv` that the nodes
before the iterator of the list's destructor have been joined, which is what
remains to be known when `main` returns.

`WireFormat_proofs` proves, from `LengthsFit` (the limits are at most 255, the
offset at which a stream drops its head is any number), that the codec is a
round trip:

* `SanitizeLosesNothing`: what is still to be read of a stream (`Ahead`) is the
  same after `sanitize`, wherever it strikes;
* `NumberComesBack`: a number of any of the seven types, written in network
  order, is read back with its sign;
* `MessageComesBack`: for every message `m` that can be encoded,
  `Decode(Encode(m))` is `CutMessage(m)`, which is `m` with each text as far as
  its first NUL. `IsMessage` says what a message is: a command of any bytes;
  keys that are names, and so short and without NUL, which all keys of the
  protocol are; values that are numbers within their type, texts, records of
  these, or lists of items of one type.

Every reader has a lemma of one form (`ExtractGives`, `TextGives`,
`NumberGives`, `EntryGives`, `ObjectGives`, `ListGives`, `ScalarGives`,
`ItemGives`, `BodyGives`): if a value's bytes are ahead of the stream, and then
others, the reader gives the value and leaves the others ahead (`Gives`). They
compose because nothing is said of the offset, so no lemma has to know where a
stream was last sanitized. A reader that repeats another one (`RepeatGives`)
goes by induction over how often, `ReadValues` by the depth. The library's
induction theorems cannot be used here, but that numbers are well-founded can:
a set of numbers has a least one (`Least`), so a set that has 0 and with each
number the next one has all (`Induction`). The functions that are defined by
recursion are shown to meet their equations first (`ReadsDef`, `ReadValuesDef`,
`FlattenDef`), the community modules' `FlattenSeq` included. `KeysFacts` shows
that the keys in the order of `std::map` list each key of an object once, so
that no entry that is read replaces another one.

`Session_proofs` proves, under `SessionAssumption` and `LengthsFit`:

* `ObjectsComeBack`: `from` gives back what `to` made a message of, for every
  request, answer and refusal, with all its fields, lists and records, and no
  command is taken for another one;
* `TypeCorrect` and `SomethingComes` (`NobodyWaits`);
* `BytesKeepThePromise`: `Spec => ImplementsConnection`. The lengths of the
  wires alone do not show it: a read may leave a rest only on a connection that
  was `cut`, so `BytesInv` records that a record longer than `MaxRead` comes
  from a message that was (`Sound`);
* `MessagesReadBack` (`ReadsBack`): every request and every answer `to` makes is
  a message in the sense of `IsMessage` (`RequestTravels`, `AnswerTravels`), and
  what its NULs leave of it (`CutMessage`) is what `to` makes of the request with
  its texts cut, or of the same answer. So `MessageComesBack` applies, and what
  it leaves is `Intact`;
* `SentRequestsArrive` and `SentAnswersArrive`: `RequestsArrive` and
  `AnswersArrive`, from `ReadsBack` and `ObjectsComeBack`; of texts with a NUL
  nothing is claimed. Their invariant
  (`Arrives`) is that of a connection nothing was cut on: there is one message
  at most, it is the request asked last or its answer, and it is read as a
  whole.

`Client_proofs` proves, from `ClientAssumption` where it is needed, that the
menus implement `Connection!Spec` (`Refinement`), `MenusInStep`
(`ChannelInStep`), `DescribedIsConfirmed` (`ConfirmedIsUser`) and `TypeCorrect`
(`TypeOK`), for any number of answers longer than a read.
The refinement needs `Wires`: while no answer was longer than a read
(`OneOnItsWay`) there is one request or one answer on the connection, or none
for a client that waits for nothing; after that only its end is certain. The
rest needs more: `Waiting` ties the places whose answers are kept to the
requests they wait for, `Truthful` says that an accepting answer is true of the
server's tables, and remains so however late it is read because the tables only
grow (`TruthsStay`), and `InStep` and `ConfirmedIsUser` that what the client
keeps is. So a client that reads earlier answers still shows members of the
channel those answers are about and confirms a user they describe; that it is
the channel and the user it asked for holds only before. `UnreadIs` says what a
read leaves: nothing, or one answer less, or on a connection that was cut the
rest of one. Every step of the client is of one of a few kinds (lemma `Kinds`),
and the proof has one case per kind. Of `TypeOK` the part that needs an argument
is that the members `.u` has still to show are members of the channel whose menu
it is: a refusal or an exception breaks `.u` off, and the list is lost with the
menu (`LeftInv`).

So every safety invariant the passing runs check is proved, with no hypothesis
but the assumptions on the constants. Model-checked only: the liveness
properties `RequestsEnd`, `BusyWorkerStops`, `PatientShutdown` and `ComesBack`,
and the fairness in `Client`'s refinement, which the prover cannot handle. Of
the codec nothing is proved about bytes that no encoder wrote (a message cut
short, read past its end): that such bytes break nothing but the one exchange is
in `NobodyWaits` and `ImplementsConnection`, which hold whatever `Decode` makes
of them.

## Not modelled

Text and `replies_to` of messages and descriptions of channels as the database
keeps them; the wording of what the client prints; the set-up of TLS contexts
and sockets, and what happens inside OpenSSL, SQLite and sqlite_orm. SIGPIPE is
modelled as the end of the process that meets it, in `ThreadPool`
(`BrokenPipe`) and in `Client` (`Send`). A statement is atomic, and `insert`
returns the id of its own row although all threads share one SQLite connection;
whether the library guarantees that depends on its version. `PROJECT.json` lists
every part and the hazards without a property, each with its reason.

## Plan

1. (done) `ChatServer`, `ChatLedger`, `ChatInvariant` and their proofs;
   `ThreadPool`.
2. (done) `WireFormat` and `Session`: the bytes of requests and answers, read a
   limited number at a time.
3. (done) `Connection`, its proofs and its refinements by `Session` and
   `Client`; `Client`: the menus and what they read; `Clock` and its proofs.
4. (done) Proofs: what the server answers (`ChatAnswers_proofs`); the safety of
   `Client` and its refinement of `Connection!Spec` (`Client_proofs`).
5. (done) Proofs: the safety of `ThreadPool` (`ThreadPool_proofs`) and of
   `Session`, with its refinement of `Connection!Spec` (`Session_proofs`); the
   types of `Client`; `NothingTakenBack`.
6. (done) Proofs: the codec reads back what it writes (`WireFormat_proofs`), and
   with it that requests and answers arrive, without a hypothesis on the codec
   (`Session_proofs`).
7. (done) Answers longer than a read in `Client`, the table by table creation of
   the schema, the two steps of `send_msg` in `Clock`, whole-row writes of
   `change_pass`, records of `SSL_write`, and what these show.
