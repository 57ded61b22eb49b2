# WallTalk in TLA+

WallTalk is a chat server with a MySQL database and a terminal client: users
log in, post on each other's walls, list users and read walls, and every user
who is online is sent a notification of every post. This directory holds its
formal model: TLA+ modules of its parts and of their composition, TLC
configurations that check them on small instances, and theorems that the TLA+
proof system checks for every value of the constants. `PROJECT.json` lists the
components, the runs, the mutants, the source lines of every definition, the
hazards, the findings and the theorems.

## The system

| part | source | state it keeps | operations | model |
|---|---|---|---|---|
| accept loop | server_main.cpp | the table of descriptors | accept, start a thread | `Handlers`, `WallTalk` |
| handler threads, one per connection | processClient.cpp, processRequests.cpp | the request in hand; the global `sessionID` | read, check the session, LOGIN, LIST, SHOW, POST, LOGOUT, end of connection | `Handlers` |
| DatabaseCommandInterface | mysql_lib.cpp 26-593 | tables InteractionLog, Posts, Notifications; one connection and its statement pointers | one function per request | `Handlers` |
| DatabaseNotificationInterface | mysql_lib.cpp 595-762 | a result set, its pointers, `notifications_generated` | getNotifications, next, sendNotification, markRead | `NotifyHandoff` |
| notification thread | processNotifications.cpp | `notify_variable`, `notify_mutex`, `notify_cond` | wait, sweep | `NotifyHandoff` |
| transport (the same file in client and server) | networking.cpp 346-522 | `packetSeqNum`, `bufferPkts`, SO_RCVTIMEO of each socket | write_socket, read_socket | `Transport` |
| framing (the same file) | networking.cpp 137-344 | the memory a packet is read into, the variable it is parsed into | write_socket_helper, read_socket_helper | `Framing` |
| client | client_main.cpp, readProcess.cpp, writeProcess.cpp | its `sessionID` | connect, log in, type a command, take an answer, end | `WallTalk`; its two threads in `Transport` and `Framing` |
| the whole | all of these | what lies between them: session numbers, descriptors, rows, requests on their way through `bufferPkts` | the statements of a request, one after the other; a server that ends and is started again | `WallTalk` |

How they interact. A handler reads a request with `read_socket`, works on the
database through the one global `database` object, answers with `write_socket`,
and after a login or a post raises `notify_variable` and signals `notify_cond`.
The notification thread has a database connection of its own; woken, it selects
the unread notifications of the users online, writes each to the socket found in
InteractionLog, waits for its acknowledgement and marks it read. Every
`write_socket` waits for an ACK packet. Any thread that reads a socket may get
an ACK another one waits for, or a packet nobody asked for, and leaves it in
`bufferPkts`, ten places shared by all threads and sockets of the process. A
client has two threads on one socket: readThread sends what is typed,
writeThread reads answers and notifications and sets `sessionID`.

What is hard, by part, and the property that says what is right:

* hand-off: a signal before the wait, a post during a sweep, a sweep cut short
  (`NoLostWakeup`, `QuietMeansOffered`, `SignalCausesQuery`,
  `EventuallyOffered`); acknowledging and marking are two steps
  (`ReadOnlyIfAcked`, `NeverResent`); a flag that guards pointers
  (`FlagGuardsSet`);
* transport: ACKs and packets that travel through the hands of other threads,
  late ACKs, a full buffer, numbers that two sides choose independently
  (`AckSoundness`, `FoundAckKept`, `NothingLost`, `NothingTwice`,
  `ReadsOwnSocket`), and one timeout for all the readers of a socket
  (`HandlersReadInTime`);
* framing: two threads that read one stream in pieces, reads that return less
  than they were asked for, text that reads like a label, memory and variables
  that hold an earlier packet
  (`InStep`, `AsSentUnlessReused`, `TruthfulUnlessReused`, `StatesItsLength`);
* handlers: descriptors that are closed at five places and given out again at
  once (`SocketsExclusive`, `LeaksOnlyAtEOF`), clients that vanish
  (`GoneClientIsDropped`), the global `sessionID` (`EndedByItsClient`);
* database: check-then-insert on InteractionLog (`OverForGood`,
  `RowsFromLogins`, `ImplementsSessions`), and `last_insert_id()` of a connection all threads share
  (`NotifiesOwnPost`, `OwnPostUnlessDisturbed`, `SuccessesDistinct`);
* the whole: a session number on its way to its client and back, which another
  login may have drawn too (`SessionsOwnUser`), a descriptor on its way through
  the log and the sweep back to a connection (`SessionReachesClient`,
  `StraysOnlyAfterClose`, `ReadByItsUser`), a LOGIN that another connection's
  handler serves (`WaitsOnlyIfAstray`), and the end of the server between two
  statements, with its restart (`ImplementsBoard`).

The full list, with lines, is "hazards" in `PROJECT.json`.

## The modules

**`NotifyHandoff`** is the flag, mutex and condition between the handlers and
the notification thread, with the sweep. `npc` and `hpc` are program counters.
`notify_mutex` is its owner: the notification thread keeps it for a whole sweep
and gives it up only in `Sleep`. `rows` and `read` are table Notifications, and
`online` the users getNotifications takes for online: those whose latest row in
the log is of a live session, so that `Logout` of one session hides a user who
has another, and `Reappear` brings the user back without a signal. `result`,
`cursor`, `generated` and `handles` are the result set and its pointers.
`Login`, `LoginRefused` and `Post` are the database functions seen from outside;
`Lock`, `Raise`, `Unlock` (together `Signalling`) are the four lines after them,
which a refused login comes to as well; `LoginReplyFails` is the early return of
userLogin that skips them.

**`NoticeBoard`** is the abstract specification of the service: a post puts up a
notice for every user, a notice is delivered (a client acknowledges it) before it
is marked read and not once it is, and nothing is taken down or unmarked.
`ImplementsBoard` is stated twice, of `NotifyHandoff` (posts, acknowledged rows,
read rows) and of `WallTalk` (notices that some client acknowledged, and the
rows no longer unread).

**`Transport`** is `write_socket` and `read_socket` of one process. Constants
choose the process: a client has one socket, a thread that writes and a thread
that reads; a server has a handler for every socket and a notifier that writes
to any. The other end of every socket is the environment: it acknowledges a
packet, or takes it in its own buffer and does not. The scan of the buffer is a
loop of single turns, since what it does after it has found its ACK matters. A
read call takes the timeout the socket has when the call begins. The tag of a
packet stands for `sessionId` and `content_len`, by which ACKs of one number are
told apart; that of a notification is what the memory held (`NoteTags`), and may
be a peer's (`PeerTags`). The fields
`sock` and `what` of a packet and the variables `peerAcked`, `peerSaid`,
`delivered`, `repeated`, `dropped` are history.

**`Framing`** is the text of a packet below that. `stream` is what the peer has
written and nobody has read; a packet is a few units (its length, its command, the
end of a field, pieces of other text from the set `Texts`), and the first 90 bytes
are the two that state length and command. User text is any sequence of units,
labels included, since nobody escapes it or looks at it. `ReadSome` is one `read()`,
which may return less than it was asked for. `torn` is set when a packet is read by
two threads or cut off, `shortHead` when a first read returns less than the head,
after which the code asks for 4096 bytes and swallows what follows; a packet that
neither has happened to is read in one go (`InOneGo`). `memory` is what `malloc`
handed out, which nothing ends behind the bytes read; `LengthIn` and `Filled` are
the searches and substrings of the parser, the wrap-around of a negative length
included. The variable a packet is parsed into keeps the fields that are not
written. `read_socket` and `write_socket` are here only as far as they choose that
variable.

**`Handlers`** is the accept loop, the handler threads and DatabaseCommandInterface.
One action is one SQL statement; what it finds is in `row` or `postId` until the
next one uses it, as it is in local variables of the code. `latest` is the newest
InteractionLog row of each session, all that these functions ask for. `lastInsertId`
is what `last_insert_id()` would return to any thread; the key of a row of another
table is a number that may or may not be the key of a post, so that 0 stands for it
and `ReadLastId` may read any. `fdOwner` is the kernel's table: `Accept` takes the
lowest descriptor, as Unix does. Logging out has three callers that differ in what
they do next; `task` remembers which. After an acknowledged login and after a post a
thread waits for `notify_mutex` (`Signal`), which is not its own to promise.
`AfterError` is what each caller does when a statement fails, `SessionInvalid`,
`NoticesRefused` and `Throws` the three ways that happens.

**`Sessions`** is the abstract specification of what the database functions
promise about sessions. Nothing gets into the log and nothing is posted but by a
permit, good for one act: to enter a session whose number nobody has used, or to
enter, leave or post for the user of a session that is live when the permit is
given. `ImplementsSessions` maps the check of hasValidSession, or the drawing of a
number, to `Allow`, and the insert, a later statement, to `Enter` or `Post`; a
statement that fails, a post to an unknown user and the end of the process are
`Forget`. A permit outlives its session, which is how the code lets a straggler
revive one: that much has to be admitted, and nothing more.

**`WallTalk`** puts the parts together. It has what none of the others has: client
processes with their `sessionID` (`Type` takes the one of the moment, `Receive`
sets it, `ReceiveEOF` exits the process), and a server that ends (`Crash`: all in
memory is lost, the tables stay; SIGPIPE is one of its causes) and is started again
with the old log. `handler` says where the thread of a connection is. The
statements of a request that write a table are steps of their own, on one
connection with one `lastInsert`: `DrawSid` looks a number up and `InsertLogin`
inserts it; a post goes through `InsertPost`, `ReadKey`, `InsertNotices` or
`NoticesRefused`, `FindRow` and `InsertLog`; a crash, another handler or the
notification thread may come between any two. A check of the session that writes
nothing is joined to the step after it, and SQL errors and running out of
descriptors stay with the modules of the parts. Any `write_socket` that waits for
its ACK, a handler's on its reply (`ReplyReads`) or the notification thread's
(`NotifierReads`), may read a request and leave it in `bufferPkts`, where a handler
that comes to `read_socket` takes it, whoever sent it (`TakeBuffered`), unless it is
in `read()` already (`BeginRead`). `Sweep` computes the sockets as the query does,
from the user's latest row, and `WriteNotice` writes to whoever has the descriptor
by then. `shared` and `astray` are history: the numbers that a login drew while
another was about to insert them, and the clients whose LOGIN a `write_socket` has
read. What the code promises of sessions it promises outside these two, and the
properties say so.

`MCNotifyHandoff`, `MCTransport`, `MCFraming`, `MCHandlers` and `MCWallTalk` give
the constants values. The operators marked "wrong" in the modules are versions
with a plausible bug; with one in the place of the right definition the property
named in `PROJECT.json` ("mutants") fails.

## The runs

| run | bounds | what it shows |
|---|---|---|
| `Handoff` | 3 client threads, 1 login or post each, 1 user, an error of the query and one of a row | safety of the hand-off; it implements `NoticeBoard`; unless the notification thread ends or hangs in a write, signals cause queries and unread notifications of a user who stays online are offered |
| `TransportClient` | 1 socket, 2 threads, 2 requests, 1 notification, buffer of 3, the peer may close | ACKs of requests are sound, a found ACK is the one judged, nothing is lost or doubled |
| `TransportServer` | 2 sockets, 2 handlers and the notifier, 1 request each, 1 notification with any tag, buffer of 2 | ACKs of notifications whose tag is no peer's are sound, handlers wait for ACKs with a timeout, and nothing is lost with one buffer for all |
| `ServerOwnSocket` | the same server | counterexample: `ReadsOwnSocket` |
| `Framing` | 2 threads on 1 stream, 2 messages without text, with text or with a label in it, 1 request, 1 short read, buffer of 2, memory of 12 units | while packets are read in one go the readers stay in step with the writer, and old memory gets into nothing |
| `FramingLength` | the same | counterexample: `StatesItsLength` |
| `HandlersSafety` | 2 connections, 2 descriptors, 2 requests each, 2 posts, 2 users, 2 session numbers | descriptors, session rows and posts; a session that is over stays over; it implements `Sessions` |
| `HandlersDropped` | 2 connections on 1 descriptor, 3 requests each, 1 SQL error | gone clients are dropped, unless `notify_mutex` is held for ever; where descriptors leak |
| `SessionEOF` | 2 connections | counterexample: `EndedByItsClient` |
| `WrongPost` | 2 connections, 2 posts | counterexample: `NotifiesOwnPost` |
| `WallTalk` | 2 clients of 2 users, 2 session numbers, 2 descriptors, a command at one client, 1 post, 2 of commands and faults (a crash, a read error or an expired session) | sessions drawn once stay with their clients and sockets, notifications stray and logins go unanswered only as named, `NoticeBoard` is implemented through crash and restart |
| `WrongRecipient` | the same | counterexample: `ReadByItsUser` |

Why the bounds are enough to be interesting. In the hand-off two threads are what it
takes for one to signal while the other holds the mutex and the notifier sweeps; the
third brings a post after a sweep that was cut. A transport buffer of 2 places is
full after two stray packets, where the code needs ten; 3 places, in the client, let
two packets lie behind the wanted ACK. In `Framing` one request with text is enough
for a variable to hold an ACK's contents, two messages for one to be read after the
other in each of the two threads, and one short read cuts the first 90 bytes or the
rest. In `Handlers` two threads suffice for every check-then-act race, because each
is between one thread's two statements and another's one; one descriptor for two
connections makes it be given out again and makes accept fail, and two session
numbers let two logins draw the same. In `WallTalk` the second client is the one a
descriptor is given to, or whose LOGIN gets astray, or who draws the same number;
one fault is what it takes to close a connection without a logout or to end the
server inside a post, and two events let a post come with a fault. `Script` says
what may be typed, so that one client is busy and the other only logs in; session
numbers are symmetric. A LOGIN that another connection's handler serves takes a
third client (one to close, one to take its descriptor, one to look at the buffer):
with two it may be buffered, lost there, or taken by its own handler, and the rest
is left to the theorems. The theorems below hold for any number of each. Deadlock is
not checked: clients are finitely many and do finitely much, and the system stops
when they have. `LiveView` in four MC modules leaves dead local variables out of a
state's identity. Symmetry is used in safety runs only.

Fairness. `NotifyHandoff!FairSpec`: a thread that signals, sleeps or works on the
database is scheduled again, and spurious wake-ups stop some day; users owe nothing.
That the notification thread's `write_socket` returns is not assumed: it reads on
with no timeout once the handler of the same socket has cleared it (networking.cpp
458, after 397) and has taken the ACK itself, and then it holds `notify_mutex` as
long as the client likes. So `SignalCausesQuery` and `EventuallyOffered` say what
happens unless the thread is in a write for ever (`HangsInWrite`), which makes them
statements about the flag, the condition and the mutex. Weak fairness of the mutex
is enough because jobs are finitely many. `Handlers!FairSpec`: a thread that can go
on does; queries return, and `write_socket` of a handler returns because of its
timeout, which only that handler could clear, as it is the one thread that calls
`read_socket` on the socket. This is the invariant `HandlersReadInTime` of
`Transport`, and not an assumption. `Signal`, the wait for `notify_mutex`, is not
fair, for the reason above, and `GoneClientIsDropped` has the thread that waits there
for ever for its exception. That a read or a query fails is not among the fair
actions, so no progress comes from an error. A client owes nothing either; "gone"
means that it has hung up. `Transport`, `Framing` and `WallTalk` have safety
properties only, and no fairness.

### What the counterexamples say

* `ServerOwnSocket`: while the notifier waits for an ACK on a socket it reads a
  request there and buffers it; the handler of another connection takes it.
  Packets that go this way are also never acknowledged. In `WallTalk` the request
  may be a LOGIN: it is served on the wrong connection, or left in the buffer while
  every handler sits in `read()` (`astray`).
* `FramingLength`: read_socket reads an ACK, which is a copy of the request with
  its text, and the next message into the same variable; the message's own empty
  field keeps the request's text, and the ACK of the message carries it under a
  length that leaves it out, after which its reader looks for the next packet in
  the wrong place.
* `SessionEOF`: a client that hangs up logs out the session of the last login.
* `WrongPost`: two posts, or a post and any logged request, interleave between
  insert and `last_insert_id()`; the poster is told of success and other users'
  notifications, or none of its own, are written.
* `WrongRecipient`: a read error closes a connection without a logout row; the
  next connection gets the descriptor, is sent the first user's notification,
  acknowledges it, and it is marked read.

Seen on the way, and named by the properties that hold: two logins that draw one
number between a look-up and its insert share a session (`shared`); a post whose
notifications are refused, or before whose notifications the server ends, stands
without them for good (`NoticesRefused`, `Crash`; the board of `WallTalk` counts a
post when its notices go up); a request that was checked before a logout and logs
its row after it makes the session valid again (`Stragglers` in `OverForGood`); an
ACK found in the server's buffer is overwritten when two packets lie behind it, and
the packet that overwrote it is judged in its place (`FoundAckKept` is a property of
the client only). That packet is then in the buffer twice: a request is answered by
two handlers, on two sockets, with one number and one session, and the ACK of the
one response is credited to the other, which is why `AckSoundness` leaves responses
out. A query that fails inside getNotifications leaves `notifications_generated`
true with pointers that were freed or never set, and the destructor deletes them
(`FlagGuardsSet` holds only as long as the thread runs).

## The proofs

Every invariant, action property and refinement that a passing run checks is also a
theorem, for every value of the constants. The proof modules assume only what the
modules name (`HandoffAssumption`, `TransportAssumption`, `FramingAssumption`,
`HandlersAssumption`, `WallTalkAssumption`): bounds are natural numbers, the special
values are not members of the sets, there is a user, a descriptor, a socket,
finitely many threads in `Transport`, where a process is a client or a server and
each handler has its own socket (`RolesAssumption`), and no more clients than
descriptors in `WallTalk`. One further assumption is a hypothesis of the theorems
that need it: `OneEach` of `KeepsFoundAck` and `HandsOnce`, which speak of the
client: one socket, one thread that writes to it and one that reads, as
client_main.cpp starts them. `NotifyHandoffProofs`, `HandlersProofs` and
`WallTalkProofs` each have an inductive invariant `IInv`, one lemma for each of its
parts with a step for every action, and the properties as corollaries.

*NotifyHandoff.* Next to the properties, `IInv` says what a sweep knows: no row
ahead of the cursor is read and none is the current one (`ISweep`), which
`NeverResent` needs; marking follows an acknowledgement (`IAcked`); a thread
numbers its posts (`INumbered`), so that a new post's rows are new; and every
unread row is accounted for (`IOffered`): its user is offline or came online
since the last query, or its last write failed, or the sweep was cut, or it is
newer than the last query, or still ahead of the cursor. When the thread sleeps
the last two cases are gone, which is `QuietMeansOffered`.
`NoticeBoardImplemented` maps initial states to initial states and each step to a
step of the board or a stutter.

*Transport.* `TypeCorrect` includes the bound on `bufferPkts`, for which
`RemoveAtProperties` says what taking a packet out does. `AckSound` is for the
client and the server alike, with any tags. The code leaves `sessionId` of a NOTIFY
uninitialised, and if the stack happens to hold the session of a client, and the
lengths agree too, it cannot tell the ACKs apart: `AckSoundness` speaks of
notifications with another tag, and of requests, and says nothing of that case. The
invariant `AckInv` follows the ACK backwards: what a thread judges, or has in its
hands to keep, or finds in the buffer or on a socket is, if an ACK, one a peer sent,
and has a peer's tag otherwise (`HeardRight`); and there is a set of packets with
pairwise different numbers that, with the responses, contains all that is being
written, is under way, has been acknowledged or was credited (`Numbered`: a step
keeps the set or adds the packet it has just numbered). An ACK of the right number
and tag is thus of the right packet. `Roles` says that a thread in read_socket has
no result of 0 to lose and numbers no packets. `HandlersInTime` follows a handler
through one `write_socket`: from SetTimeout to the end of the read no other thread
is in `read_socket` on its socket, so the timeout is on when the read begins
(`Timed`).

`TransportFlowProofs` counts copies. A packet of a peer is on its socket, in the
buffer, in the hands of a thread or among the delivered; there is a lemma for
every action that says that a packet with a copy before the step has one after it,
or was dropped, or the process has ended (`Survives`), and that the step makes no
copy as long as an ACK found is still in `ackPkt` (`InPlace`). `LosesNothing`
holds of every process, client or server.

`TransportClientProofs` has the two properties of the client. The invariant
`Newest` follows the ACK of the newest packet, which is the one the writer waits
for: when it has arrived nothing more is on its way to the peer, no ACK comes or
is kept after it, and in the buffer it is the last, or the last but one with a
packet behind it that write_socket has just put there (`Path`). So one packet at
most can take its place when it is found, and the loop ends with that turn
(`Doing`): this is `KeepsFoundAck`. For `HandsOnce`, `TwiceInv` adds that
KeepAck has an ACK in its hands (`AcksKept`), that the server answers a request
once and sends no packet twice (`Fresh`), and that there is one copy of a packet
at most (`Single`), which the lemmas about copies preserve, since `InPlace`
follows from `Newest`.

*Framing.* What the peer writes is honest: a packet states the length of its own
text, whatever that text is (`Honest`). `TypeInv` says so of all that the peer has
written or is yet to acknowledge. `StepInv` gives every packet the peer has written
the offset at which it starts, and says of the stream, the packets taken and the
pieces a reader holds where they are by these offsets, as long as packets are read
in one go; `KeepsStep` follows. `ContentsInv` calls a packet good when it was parsed
into a variable in use or the peer wrote it; all that is judged, kept in the buffer
or delivered is good, and what the process writes states its length or was reused,
whence `ReadsAsSent` and `StatesTrueLength`. The parser's searches return the least
member of a set of positions (`FindFirst`), and `ParsedHonest` says that in the text
of an honest packet, followed by whatever the memory held, they find the packet's
length, and its fields if its text does not hold the label that ends a field; if it
does, the bytes are split at another place and remain the same. `ReceiverKeeps` and
`RequesterKeeps` are stated for any set of packets, and are used once for the types
and once for the contents.

*Handlers.* `SocketsExclusive` holds on because an owner of a descriptor is the
handler that accepted it and no other (`ISockets`); `RowsFromLogins` because what
a thread carries from `CheckLog` to its insert was a row (`ILog`);
`SuccessesDistinct` because a key is fresh in Notifications when a thread gets
past its insert, and stays that thread's (`IPosts`); `OwnPostUnlessDisturbed`
because an insert by anybody else marks the threads that have yet to read their
key (`IKeys`). `OverForGood` needs no more than the types: only a straggler
inserts a row of a session in the log. `SessionsImplemented` needs the types too:
a handler has at most one permit, which it gets (`GetsPermit`) by a query that
found a live row, in the step that takes it to an insert (`CheckAllows`), uses up
with that insert (`InsertEnters`) and loses otherwise (`ForgetsPermit`), while the
permits of the others stay as they are (`PermitStays`).

*WallTalk.* A connection at work owns its descriptor, and a client that runs has a
connection (`ISockets`). A LOGIN that is served or in the buffer is its connection's
own, or its client's is astray (`IRequests`); so every row of the log, and a user's
latest, has the socket of the connection it was served on and goes back to its own
client or to one astray (`IRows`). A number that no two logins drew at once is, while
one is about to insert it, in no row and no other's hands, and once told to a client it
stays in the log for that client's connection, since a row about to be inserted again
is of the same connection (`ITold`): from these `SessionsOwnUser` and
`SessionReachesClient`. The LOGIN of a client that has no number yet is on its way, is
served on its connection, or has an answer on its way back, unless it is astray
(`IWait`), which is `WaitsOnlyIfAstray`. A row of the sweep's result set is unread, the
only one of its notice, and as right as the row of the log it is from, which stays so
when that is overwritten; a row to be marked has been acknowledged (`ISweep`, which
contains `StraysOnlyAfterClose`): from this the refinement of `NoticeBoard`, in which a
crash is a stutter, and so is every statement of a post but the insert of its notices.

Only model-checked: the three liveness properties (`SignalCausesQuery`,
`EventuallyOffered`, `GoneClientIsDropped`), since reasoning about fairness and ENABLED
is beyond the prover. The properties that fail are TLC's counterexamples.

## Not modelled, and why

* The statement and result-set pointers `pstmt`, `stmt` and `res` that handler
  threads share in one object (mysql_lib.h 38-39 asks for one interface per
  thread). To use one that another thread has deleted is undefined behaviour of a
  library outside the repository, of which a model could only choose the effects
  at will. `Handlers` lets each thread have its own, so what it shows is what goes
  wrong even then. Statements are taken to be atomic.
* That the notification thread's `write_socket` returns. `Transport` has both outcomes
  of a read; the liveness properties name the case as an exception (see Fairness).
  `WallTalk` has it as a thread that stays in its step, for it states no liveness.
* SIGPIPE at the write that raises it: `Transport` and `NotifyHandoff` take the
  error return that networking.h documents; the end of the process is `Crash` in
  `WallTalk`, at any moment.
* What follows a packet that is torn between two readers, is cut off, or whose first
  `read()` is shorter than its head: `Framing` goes on with it as the code does, but
  nothing is claimed from then on. Text with a label in it is modelled and split as the
  code splits it; that its fields come out as they were sent is not claimed.
* A packet longer than MAX_PACKET_LEN (networking.cpp 138-159 writes past the end of
  an array) and a length that is no number, on which `stoi` throws.
* Two rows of a user in the same second: the query takes the latest by a timestamp of
  one second and might find two; the models' rows have an order.
* A writeThread that has ended on an error and leaves its client deaf: in `WallTalk`
  one that never comes to read.
* The widths of the keys (a smallint runs out after 65535 rows): reached by
  counting alone.
* A LOGIN sent twice on a connection, and command codes no client sends.
* The text of posts, walls and lists; menus and prompts; debug output, with
  getResults and printResults; creating the listening socket; the log file
  write_socket appends to.

## What is left

`WallTalk` with the errors of SQL statements and the excuses of `QuietMeansOffered`, and
a server of three connections, where a buffered request has two handlers to choose from.
