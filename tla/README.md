# TelegramQt in TLA+

A specification of TelegramQt (the client library in `src/TelegramQt`) and of
its test server (`src/server`), model-checked with TLC and, in part, proved
with TLAPS.

## 1. The system

TelegramQt is an implementation of MTProto over TCP. Client and server share
the base classes of the layers; each side runs in one thread around a Qt event
loop, so a slot runs to its end before the next one starts. The concurrency is
between the two processes, between the connections of one session, between the
sessions of one user, and between posted events, timers and socket events
inside one process.

| Component | State | Operations | Properties that make it correct | Module |
|---|---|---|---|---|
| RPC session (`ClientRpcLayer`, `ServerRpcLayer`, `RpcLayer`, `CTelegramTransport`) | ids -> operations and messages, message counter, salt, ids to acknowledge; on the server the session, replies to confirm, queued operations | send, resend, acknowledge, answer, push updates, lose and resume a connection | a reply reaches its operation; nothing runs twice; nobody waits for nothing | `RpcSession` |
| Server salts (`Session`) | list of salts, the old salt | get, check, generate ahead | a salt that was given out is accepted until it expires | `SessionSalts` |
| Connection management (`ConnectionApi`, `Connection`, `ClientBackend`) | status, initial and main connection, queued attempt, connect operation, config operation, connections to extra DCs | connect, disconnect, check in, sign in, reconnect, export and import the authorization | the status tells the truth; the client goes on trying; the pointers are valid | `ConnectionApi`, `FilesApi` |
| Authentication (`ClientAuthOperation`) | the step it is at | requests and replies of check-in and sign-in | it ends, and with the right status | `ConnectionApi` |
| Pending operations (`PendingOperation`) | finished, succeeded | start, runAfter, finish | finished once | in those that use it |
| Files (`FilesApi`, `FileOperation`, `FileRequestDescriptor`) | queue, current request, offset, device | request, chunk, retry | each byte once, in order; the queue moves on | `FilesApi` |
| Server sessions and users (`TelegramServer`, `TelegramServerUser`, `AuthService`) | sessions, their connections, keys, users, online times | bind, unbind, authorize, set online | a session's connection lives; online means connected | `ServerSessions` |
| Server messaging (`TelegramServer`, `MessageService`, `messages.*` calls) | post boxes, pts, unread counters, dialog lists | send, read, page, notify | counters agree with the messages; each session hears of everything once | `ServerMessaging` |
| Client messaging (`MessagingApi`, `DataStorage`, `UpdatesLayer`) | synchronization state of each dialog, messages held back, saved state | sync, receive, send, save, restore | each message given once, in order, none missed | `MessageSync` |
| TL types and streams (`Stream`, `TLTypes`, the RPC layers of the client, the operation factories and stream operators of the server) | none | write, dispatch, read | the reader reads what the writer wrote | `TlWire` |
| Key exchange (`DhLayer`, client and server) | state of the exchange, nonces, keys | five requests and answers | both sides end with the same key, or fail | - |
| Keep-alive (`ClientPingOperation`) | ping in flight, timers | ping, pong, disconnect | only a dead connection is closed | - |
| Framing (`CTcpTransport`) | expected length, read buffer | read, write | the packets sent are the packets read | - |
| Contacts and lists (`ContactsApi`, `DialogList`, `ContactList`) | lists of ids | fetch, add, remove | - | - |

Interactions. `ConnectionApi` creates `Connection` objects and reacts to their
status changes by direct signal connections: a status change runs, before
`setStatus` returns, the failure of the connection's RPCs
(`RpcLayer::onConnectionLost`), the handlers of the operations that own them,
and `onConnectionStatusChanged`. Operations are started by posted calls
(`startLater`). `FilesApi` asks `ConnectionApi` for connections to other DCs and
listens to their status. `RpcLayer` and `Session` share the salts and the last
sequence number on the server; the servers of a `LocalCluster` call each other
directly. `AccountStorage` and `DataStorage` carry the key, the message counter
and the state of the dialogs from one process to the next.

What is hard: messages ignored by the server and sent again under new ids;
connections lost at any point and resumed with stored values; a server that
still holds the old connection while the new one works; late replies; handlers
that call each other in the middle of a status change; messages that arrive
both as an update and in a fetched history; lists that change between two pages;
applications that connect and disconnect at any moment; and some hundred
generated readers and writers that must agree. `PROJECT.json` lists each such
hazard at its line.

## 2. Modules

| Module | Models |
|---|---|
| `RpcSession`, `MCRpcSession` | the RPC exchange of one session, both sides, over several connections |
| `RpcCall` | what that exchange promises to the caller of an RPC (abstract) |
| `SessionSalts` | the salts of a server session with time |
| `ConnectionApi`, `MCConnectionApi` | connection management and the authentication operation of the client |
| `FilesApi`, `MCFilesApi` | downloads, with the connections to other DCs and their authorization |
| `ServerSessions`, `MCServerSessions` | connections, sessions, keys, users and online status on the server |
| `ServerMessaging`, `MCServerMessaging` | messages, dialogs and updates on the servers of a cluster, and the paging of the dialog list by a client |
| `MessageSync`, `MCMessageSync` | the synchronization of the messages by a client that restarts |
| `TlStream` | how values are written to and read from a stream |
| `TlStructs` | the members and flags of each TL struct (`TLTypes.hpp`) |
| `TlReaders` | the layout each `operator>>` of `Stream.cpp` reads |
| `TlWriters` | the layout each `operator<<` of `StreamExtraOperators.cpp` writes |
| `TlCalls` | what each function of the client's RPC layers writes and expects |
| `TlRequests` | the arguments of each function and what the server reads of them |
| `TlOperations` | the factories of the server: functions, operations, replies |
| `TlWire` | a call end to end over these tables |
| `RpcSessionProofs`, `RpcOnceProofs`, `SaltProofs`, `ConnectionProofs`, `ServerSessionsProofs`, `MessagingProofs`, `SyncProofs`, `FilesProofs` | proofs, section 4 |

Operators named with a "fault" comment are deliberately wrong variants of the
definition that follows them; they document which mistake a property detects
and are not used by the specifications.

### RpcSession

Client state: `operations`, `messages`, `content`, `serverSalt`,
`messagesToAck` are the members of `Client::RpcLayer` with the same names
(`content` is `m_contentRelatedMessages`); `opState` is the state of the
`PendingRpcOperation`; `stored` is the counter in the account storage, and
`unsaved` remembers that a connection ended without it being stored, by a
process death or by a loss before the connection was Signed.
Server state: `session` is `Server::Session` (current and old salt, last
sequence number, layer, user), `bound`, `sContent` and `toConfirm` belong to the
`RpcLayer` of the living connection, and `started` holds operations whose
`start()` is queued. `toServer[e]` is a queue per connection, because the
server may read a connection the client has already given up; `toClient` is
only of the living connection, because a dead client end reads nothing.

Actions are the handlers: `SendRpc` (`sendRpc`), `AcknowledgeMessages`,
`ProcessRpcResult`, `ProcessPong`, `ProcessUpdates`,
`ProcessIgnoredMessageNotification` with the resending it does,
`ConnectionLost`, `Resume`; on the server `IgnoreMessage`
(`sendIgnoredMessageNotification`), `ProcessPing`, `ProcessMessageAck`,
`RejectUnauthorized`, `StartOperation`, `NotProcessed`, `RunOperation`,
`SendUpdates`. Each of the receiving ones includes the checks of
`processMessageHeader` and what it assigns.

Abstractions. A salt is the number of its rotation, 0 is "unknown"; the time is
in `SessionSalts`, here rotation and expiry happen at any moment. A message id
is a counter with the code's low two bits on the client's side. Sequence
numbers are kept as they are, since both sides compute with them. A message
names its operation; payloads, encryption, gzip and containers are left out.
The server's check for too high sequence numbers is compiled out of the code
and so is not there. A process death (`ClientCrash`) happens between two
handlers, and nothing is written by it.

### SessionSalts

A salt is named by its `validSince`; `served` remembers what `getServerSalt`
returned. The code's values are a rotation of one hour and an overlap of five
minutes; the proofs need twice the overlap not to exceed the rotation.

### ConnectionApi

The client is one record `s`, and each function of the code is an operator from
a record to the next one, so that the chain of calls behind a status change is
composed as in the code. A step applies one handler to `s`. `posted` is Qt's
queue of posted events. Socket and timer events are handled only when it is
empty: Qt's event dispatchers send the posted events before they look at
timers and sockets again, and in the order of posting.

Abstractions. The address tried, proxy settings and DC ids are left out: an
attempt connects or it does not. `keyed` are the connections that use the stored
key, `known` says whether the server (external) knows that key. An RPC sent
over a connection without encryption gets no answer. `crashed` records that the
code followed a null pointer: `m_initialConnectOperation` in `onGotDcConfig`, or
the main connection in `onConnectionStatusChanged`. `disconnectFromServer` calls
`deleteLater` of `m_initialConnectOperation` without looking whether it is null
(`ConnectionApi.cpp:130`), which is undefined behaviour; the outcome in the Qt 5
the project builds with (`src/CMakeLists.txt:83`) is a warning about an event
without a receiver, so that `DisconnectFromServer` goes on. `stalled` is an
operation that nothing will continue.

`disconnectFromServer` keeps the transports of the connections it forgets;
such an orphan stays in `conn` and can still send signals. Names of orphans are
reused once they are Disconnected.

### FilesApi

`queue`, `cur` and `offset` are `m_fileRequests`, `m_currentOperation` and the
descriptor's offset; `written` is the content of each device. `net.conn[d]` is
what `ConnectionApi` keeps for the DC `d`: the connect operation, the status of
its connection, and who listens to each; `net.child` is `m_childOperation`,
`net.rpc` and `net.exporting` are calls under way, `posted` a queued
`processCurrentRequest`. Actions: `DownloadFile`; what the network does
(`HasDhKey`, `ConnectFails`, `ErrorPacket`, `Disconnected`); the replies
(`ExportAnswered`, `ExportFails`, `ImportAnswered`, `ImportFails`,
`GetFileAnswered`); the queued retry (`RunPosted`), and the delayed failure of an
operation without a connection (`FinishWithoutConnection`), which follows a null
pointer: `crashed` becomes TRUE and nothing happens any more. A loss includes what
happens in its signals: the calls fail, `onGetFileResult` posts the retry,
`ConnectionApi` deletes operation and connection, and `processConnectionStatus`
asks for a new one. `ProcessNextRequest` contains the recursion of the code over
files that fail at once.

Abstractions. The bytes of a file are 0, 1, 2, ..., so that a byte in the wrong
place is seen; the server's part of `getFile` is `ReadFile`. `disturbed` marks
what the code does not recover from (see the observations): a connection goes
while the current download has no call in it, or the last call that could
authorize a connection fails (`NeverSigned`).

### ServerSessions

The variables are the members named beside them in the module. `told` remembers
the last status that the contacts of a user were sent. The actions are a new
connection, the end of its key exchange (`KeyExchanged`, its content is
external), a first packet with a known or unknown key
(`BindClientConnectionSession`, `KeyRefused`), the end of a connection
(`Disconnected`), the calls that bind a user (`SignIn`, `CheckPassword`,
`SignUp`, `ImportAuthorization`), `ExportAuthorization` on another server,
`UpdateStatus`, and the clock. A call is one step, because the server runs the
posted operation before it reads a socket again. Phone numbers and codes are
taken as right, wrong ones change nothing. `signIn`, `checkPassword` and `signUp` do
not ask whether the session has a user already, so a session can be taken over by
another user: it is then in the lists of both (`userSessions`), and `userId` is the
last one.

### ServerMessaging

`messages` is the message service shared by the cluster, with the id a message
has in each post box (`ref`); `box`, `pts`, `unread`, `order` and `dialog` are
members of `PostBox` and `LocalUser`. `view` is what a connected session has been
told, and `paging` the `DialogList` operation of a client that pages.
`SendMessage` is `sendMessage`, `processMessage`, the dialogs of both users and
the updates; `ReadHistory` is `readHistory` with the report to the sender
(`reportMessageRead`), for any id the application may ask for: `maxId` is the larger
of that id and the top message, perhaps the id of a message of another dialog.
`ReadHistoryAgain` is a call that finds everything read, `ReadHistoryUnknown` one
with an id the post box lacks, which crashes the server (`crashed`). `view` keeps the
last pts and marks a session was told of and the highest ones, because a sender on
another DC than the reader is told twice (`OutboxRepeated`). `GetDialogs` and
`GetMoreDialogs` are a page and the client's handling of it. Dates increase
strictly in the code, so the number of a message stands for its date.
`SyncDialogsOrder` is specified by its result, the permutation of the list that is
sorted by date, as `std::sort` is used.

### MessageSync

`state` is `DialogState` for each peer, `sync` and `jobs` the members of
`MessagingApi`, `saved` what `saveState` wrote. Server and client exchange
requests, replies and updates in order (`requests`, `wire`). The actions are the
server's (`NewMessage`, `HandleRequest`), the receipt of each kind of packet
(`ReceiveNewMessage`, `ReceiveSent`, `ReceiveDialogs`, `ReceiveHistory`), the
application's (`Start`, `SyncPeers`, `Send`, `Save`, `Restart`), and the
loss and return of the connection. `delivered` is what the application has and,
after a restart, what it had when it saved. `disturbed` marks what the
synchronization does not make up for: sending during it, a failed `getHistory`,
messages while disconnected, a limit that cuts. `SyncPeers` takes any set of peers,
all, some or none. `omitted` are the dialogs this run has left out, `forgone` those
that some run has left out before they had a mark: the next message of such a dialog
puts its mark past what came before. A list that names a peer twice (two requests
for one history, and each message twice) and a call of `syncPeers` before the dialog
list has been received (the top messages are then unknown, and restored dialogs would
finish at once with nothing) are not modelled: the documentation of `MessagingApi`
has the dialog list fetched first. `NewestFirst` is the order in
which `runGetHistory` walks through a post box, and `Newer` the loop over a
received list that stops at the first message that is not newer than the mark.

### TlWire

The tables are derived from the generated and hand-written code member by
member: every struct, `operator>>`, `operator<<`, layer function, function
struct and operation has its own definition, mapped to its lines. A layout is
the sequence of the members an operator reads or writes, each with the flags it
tests. `TlStream` says how a member of a type becomes items (a vector has a
constructor and a count, a pointer and a nested value are one item checked by
itself, a byte array has its length and padding). A behaviour of `TlWire` is one
call (`SendRequest`, `ProcessRpcCall`, `SendRpcReply`, `ProcessReply`), one
value of any type (`WriteAny`, `ReadAny`), or one byte array (`CopyBytes`). The
contents of the members are names, so a member read in another's place is seen.

## 3. Runs

| Run | Question | Result |
|---|---|---|
| `rpc_session` | three connections, a crash, a salt rotation, three kinds of calls | all properties hold, every operation finishes under fairness, and the session implements `RpcCall` |
| `rpc_one_connection` | pings, pushed updates, calls nobody accepts, two rotations | `PendingIsUnderWay` holds |
| `session_salts` | four rotations with messages and silences in any pattern | the salts are linked and accepted until they expire |
| `connection_check_in` | an application that checks in, with losses | the status is true, no crash, and the check-in ends |
| `connection_any_order` | connecting and disconnecting at any moment | the attempt goes on |
| `server_sessions` | overlapping connections of two sessions, users signing in in every way, also over each other's sessions, time | no dangling connection; who is gone is offline unless a session of his was taken over, and nobody was told otherwise |
| `definitely_offline` | is a user set offline only when no connection is left? | no, see the findings |
| `server_messaging` | two users on two DCs, three sessions, messages, reading up to any id, paging | counters, order and updates are right, paging skips nothing |
| `message_sync` | four messages before, during and after a synchronization, with a restart, losses and any list of peers | each is given once, in order, none is missed, and the synchronization ends |
| `message_held` | are messages held only during a synchronization? | no, see the findings |
| `downloads` | five files, two DCs, two failures anywhere | devices are exact, one transfer at a time, and the downloads end unless something is lost that no code makes up for |
| `tl_wire` | every call and every type | what is written is read |

### Bounds

`rpc_session`: `auth.signIn`, `account.updateStatus` and one more call are what
it takes to become Signed and to resume with a pending call; three connections
give an old and a new one, and a resumed one that is lost before it is Signed
again, after which the stored counter is old; one crash gives an old counter too,
two salts give a message with an unknown and one with an old salt. The sequence
number can then be wrong by more than one step, so that several rounds of
notifications happen. `rpc_one_connection` has the kinds of calls the first run
lacks, and a third salt, so that a message can be two salts behind.

`session_salts`: a rotation of 4 and an overlap of 2 is the extreme the
assumption allows, and the clock runs long enough for eight successive salts.

Connection runs: three losses are enough to lose the initial connection, the
main one and the one that replaces it; three calls of the application let an
operation end and another one start, twice. Four connection objects are enough
for an initial and a main connection and the orphans that two disconnections
leave; the intervals 0 and 5 are an immediate and a delayed attempt. In `Polite`
runs the application connects only when the status is Disconnected, as the
test-suite and the example clients do.

`server_sessions`: three connections let a session have an old, a new and a
newer one, or two sessions of one user overlap; one user has a password, one
comes from another DC. The timeout of 1 and the times 0 to 2 let a status be
current, expired and renewed. One key is enough for both sessions, as the sessions
of one device share it; the violation run has two. Connections, sessions and keys
are symmetric; the violation run, whose property is an action property, has no
symmetry.

`server_messaging`: user `a` has two sessions and `b` one. Three messages and a
slice of one dialog give a second page and a dialog that moves in between (a
user has a dialog with himself, too, so that an id beyond the top of one dialog is
that of a message of the other). The users are on different DCs (`Dc`), so that reads
are reported both within a DC and across. Two bounds leave out what the rest covers
already: the second session of `a` only reads and `b` writes to `a` only (`Writes`),
and only the session that pages loses its connection (`Unstable`).

`message_sync`: two peers, pages of one message, four messages: a dialog whose
history takes several pages while the other one is finished; limits 0 (none) and
2; one save, so that a restart finds an old state. Each run synchronizes any of the
four sets of peers.

`downloads`: one file of unknown size whose last part is a multiple of the unit,
one of known size, one shorter than announced, one the server lacks, one of an
unknown DC; chunks of 4 and a unit of 2, so that a last part may be a multiple
of the unit or not. Two failures hit an attempt and its retry, or the export and the
import of one authorization.

`tl_wire`: vectors of up to two elements, at most two flags at a time and all
together (no layout tests more than one flag for a member), lengths on both
sides of 253/254, of the padding and of two bytes, and the greatest three bytes
hold.

Deadlock is checked in `tl_wire` only: elsewhere an application that calls
nothing more, or a client whose transports are gone, may stop.

### Fairness

`RpcSession!Fairness`: each event loop handles what it has received and what is
queued, and TCP delivers while the connection lasts. Nothing forces the
application, the loss of a connection, its resumption, or the rotation of a
salt. Salts are rotated at most `MaxSalt` times, as a session that rotates its
salt between any two messages would never accept one; in the code a rotation
comes every 55 minutes. `ConnectionApi!Fairness`: posted events and timers run,
an open connection makes progress (connects, ends the key exchange, or learns
that its key is refused) and an encrypted connection answers, unless it is
closed. `MessageSync!FairSpec`: the server handles requests and the client
reads what arrives. `FilesApi!FairSpec`: connections and the server go on and
posted calls run. The number of losses is bounded: without an end of the losses
no check-in and no download needs to end.

### Findings

Each is a violation run; the property is a sentence of the repository.

1. `definitely_offline`: when a client has resumed its session over a new
   connection before the server notices the end of the old one,
   `onClientConnectionStatusChanged` takes the connection from the session, and
   the user is set offline and gets no updates although the new connection lives
   ("The user has no connected devices. Definitely offline.",
   `TelegramServer.cpp:237`).
2. `message_held`: after the user has sent the first message of a new dialog the
   state of the dialog counts as valid but not as synced, and every message of it
   is held in `pendingIds` although no synchronization will release it
   (`MessagingApi.cpp:322` and `:719` say otherwise). The same happens to a dialog
   with a stored mark that the list given to `syncPeers` leaves out.

### Observations

Behaviour the models reach which no run asserts. It is recorded because the
properties are stated around it.

* Connections. The status is Disconnected while a transport lives
  (`ConnectionApi.cpp:900`); a loss during the check-in RPC fails the check-in
  (`:982`); WaitForAuthentication without encryption (`:603`, `:908`); the failed
  connect operation of a sign-in is used again (`:785`); a late synchronisation
  reply makes a disconnected client Ready (`:763`); a redirect to a DC that is
  not in the configuration, followed by a loss, uses a deleted connect operation
  (`:141`), so `NoCrash` is checked for check-ins only; with no usable DC option
  two functions call each other without end (`:792`); the ping operation keeps
  its layer over a reconnection (`:675`). An RPC without a connection is dropped
  and never finishes (`ClientBackend.cpp:54`); `requestAuthCode` may return
  without a continuation (`ClientAuthOperation.cpp:144`).
* Message counter. It is stored when a connection becomes Signed and when a Signed
  one is lost (`ConnectionApi.cpp:700`). A resumed connection that is lost before
  it is Signed again leaves the stored counter behind what the server has seen,
  like a process death does, and the next first message is rejected as too low
  and sent again; `CounterNotBehind` is stated without these cases.
* Salts. `getServerSalt` moves one salt per call: after a silence of more than two
  rotations the first messages are sent with an expired salt (`Session.cpp:51`).
* Server messaging. A reader whose newest message in the dialog is his own gets
  his own outbox marked, and the peer is told nothing. A sender on another DC is told of
  a read twice, the second time with pts 0 and perhaps of a mark older than his own
  (`TelegramServer.cpp:893`, `:901`): `SessionsUpToDate` therefore speaks of the
  highest pts and marks a session was told of, and allows a last one that is older
  only there. `readHistory` marks everything up to the top as read, whatever smaller
  id was asked for; an id of another dialog beyond the top marks this dialog read and
  reports the message of the other one (`MessagesOperationFactory.cpp:1454`, `:1502`),
  the case `ReadIsReported` excludes; an id the post box lacks follows a null pointer
  (`:1503`). The fall-back of the paging compares a 64-bit date with seconds and
  yields an empty page whose `last()` the client takes; `setUserOnline(false)`
  announces the status Online with a time that has passed; typing is not delivered
  across DCs.
* Server sessions. A user who signs in over the session of another one leaves it in
  the list of the first (`TelegramServer.cpp:461`); when the connection ends
  `onUserSessionStatusChanged` looks at the second user only, and the first stays
  online until the timeout without a connection: `OfflineWhenGone` excludes users
  whose session was taken over (`KeepsSessions`). The same user signing in again is in
  the list twice, and every update of his is sent twice over that session
  (`TelegramServerUser.cpp:165`; the lists of the model are sets).
* Synchronization. A dialog with a stored mark that is not in the list given to
  `syncPeers` counts as valid and not synced: its messages are held to the end of the
  run (`MessagingApi.cpp:710`, against `:322`), `HeldOnlyWhileSyncing` excludes it.
  One without a mark takes the next message as its mark, and what came before is not
  fetched by any later run; `NothingMissed` excludes it. Sending before or during
  a synchronization loses older messages ("TODO: Check the correctess",
  `MessagingApi.cpp:200`); a failed `getHistory` counts as fetched; messages that
  come while the client is disconnected are not fetched.
* Downloads. A file of an unknown DC crashes the program, a null pointer is followed
  (`FilesApi.cpp:311`); no download ends then, and `DownloadsEnd` names this crash, and
  no other, among its exceptions. A connection that times out, or goes while the
  download waits for its authorization, and a failed export or import
  (`ConnectionApi.cpp:800`, `:836`) leave the download and the queue behind it waiting,
  the last one also every later download over that connection; a failed connect
  operation is used again until its connection is disconnected, so that a download
  can be finished before `downloadFile` returns.
* TL. Methods the server does not implement answer a default value of their
  type; a value with an unknown constructor leaves the reader in its middle;
  `runImportAuthorization` answers twice when the session has a user already;
  lengths from 2^24 on are cut to three bytes.

## 4. Proofs

All theorems hold for every value of the constants that satisfies the named
assumptions of the modules.

* `RpcSessionProofs!TypeCorrect`: `Spec => []TypeOK`. TypeOK is inductive; one
  step per action.
* `RpcSessionProofs!RepliesMatch` and `PendingTracked`. Neither property is
  inductive: a reply is right because the request it answers was right, perhaps
  on its way through a lost connection. The inductive invariant `Owned` says
  that an id, once given out, belongs to one operation for ever, and that
  requests of all connections (`RequestsOwned`), started operations
  (`StartedOwned`) and replies (`RepliesOwned`) name the owner of their id;
  that the two maps of the client agree (`MapsAgree`); and that the pending
  operations are the range of one of them (`PendingOwned`). The key lemma,
  `OwnerKept`, is that no step gives an old id to an operation; it rests on
  `NewMessageId` being greater than all ids before.
* `RpcSessionProofs!SignedAuthorized`. `SignedKept` adds that an `account.updateStatus`
  the server has queued, and a positive answer to one under way, belong to an
  authorized session; the authorization is never taken back.
* `RpcSessionProofs!CounterAhead`. `CounterKept`: unless something was `unsaved`, no
  message that was sent over any connection or is kept for resending, and so none
  the server has accepted, is ahead of the client's counter, and without a
  connection the stored counter is the last one.
* `RpcSessionProofs!LayerKnownFirst`. `LayerKept`: until the server knows the layer it
  has read nothing, and the first packet of the first connection carries
  InitConnection, the salt of the key exchange and the first id, so that the server
  cannot ignore it.
* `RpcOnceProofs!RunAtMostOnce`, by the inductive invariant `Tokens`: an operation is
  represented by one request in the queue of some connection, or one queued
  operation of the server, or one notification, or one answer, never by two of
  them, and only the first two are compatible with not having run. A notification
  turns the token back into a request, a run never does. `Tokens` needs `Owned`,
  because a notification names an id and not an operation.
* `RpcOnceProofs!SessionKeepsPromise`: the refinement, `Spec => CallSpec`. Each action
  is a step of `RpcCall` or a stutter; `Tokens` gives that an answer that succeeds
  comes after the run, and that a failed call has no later success.
* `RpcOnceProofs!NothingForgotten`: `PendingIsUnderWay` is inductive with `Owned`. A
  step is described by where it moves a message id (`Moves`): from the queue to the
  server, from there to the answers, and from a notification to a new id.
* `RpcOnceProofs!ConfirmedOnlyWhenRead`, an action property. `Alive` says that what
  the living connection carries is about operations the client still waits for, so
  that an answer that is read finishes its operation. `Confirms` says that the keys of
  `m_operationsToConfirm` are ids the server gave out, that a tracked reply on the
  wire is the one tracked, and that an id the client will acknowledge, has in a
  message to be sent again, or has sent was read.
* `SaltProofs!AlwaysLinked` and `ServedAccepted`. The invariant `SaltInv` adds
  that every salt served is the current one, the old one, or expired
  (`OlderServed`). The step that matters is a rotation: the salt
  that is dropped has expired because two overlaps fit into a rotation.
* `ServerSessionsProofs`: `TypeCorrect`, `NoDangling`, `GoneIsOffline` and
  `NotMisled`. The inductive invariant `SessionsInv` adds to the three properties
  that the session of a connection or of a user is one the server made
  (`SessionsMade`), that a session is in the list of the user it is bound to
  (`SessionsListed`; it may be in those of earlier users as well), and that
  nobody is online for longer than the timeout (`OnlineBounded`), without which
  the renewal of a status could contradict what was told before. `GoneIsOffline` is
  about the users none of whose sessions was taken over.
* `MessagingProofs`: all six properties of `ServerMessaging` (`UnreadExact`,
  `DialogsInOrder`, `ToldExactlyOnce`, `NoSessionBehind`, `ReadsReported`,
  `NothingSkipped`), for any users, sessions, slice and number of messages. They
  are proved together by `MessagingInv`, since each needs others. Besides the
  types it says that a message is in the boxes of its two users at the ids it
  refers to, and a box is in the order of sending (`Filed`); that a dialog names
  its newest message and its read mark is an id of the post box, perhaps beyond the
  newest message (`TopsRight`); that the
  dialog list has the dialogs with a message by strictly descending date
  (`Ordered`); and that a session that pages knows its offset and everything newer
  unless the offset dialog has moved, which cannot be undone (`PagesRight`). The
  lemmas are of two sorts. `SendEffect` and its like say what an action does
  to one user or one session, so that the invariant is shown user by user. The
  others are about the operators: the counters are cardinalities, so a new
  message and a moved read mark, to whatever id, are facts about finite sets; and
  `SyncDialogsOrder` returns a sorted permutation. That one exists
  (`SortExists`) is shown without induction over lists: the list before is
  sorted and one dialog has got the newest date, so the list with that dialog
  moved to its front is a witness.
* `FilesProofs`: `FilesTypeCorrect`, `DevicesExact` and `OneTransferAtATime`.
  `FilesInv` says that the only call under way is the current file's, over the
  signed connection of its DC, for the bytes from its offset on (`CallsOK`); that a
  connection waits for an authorization only when its operation has succeeded
  (`ConnOK`); that, while a retry is queued, the connection `FilesApi` listens to
  has failed, so that nothing else starts the transfer (`PostedOK`); that a file
  is the current one or in the list once and not finished (`QueueOK`); and that the
  offset of an unfinished file is what its device holds (`OffsetsOK`). The lemmas
  `NextRequestFacts` and `ReadFacts` are about the two operators that matter:
  the next request from the list, and the part the server returns. That chunks are
  a multiple of the unit (`FilesAssumption`) is what makes a part that is none the
  last one.

* `ConnectionProofs`: `ConnectionTypeCorrect` and `AttemptGoesOn` for any use of
  the library, by `ConnInv`: besides the types (`Sound`), an attempt that is not
  over has a connection under way, a timer or a posted call that continues it
  (`GoesOn`). The state is one record and a handler an operator on it, so there is
  one lemma per handler, and the lemmas are composed as the code composes the calls.
* `ConnectionProofs!SignedInConnected` and `NoNullDereferenced`, for an application
  that only checks in and does so when it is disconnected (`OnlyCheckIn`, the
  setting of `connection_check_in`; redirects and disconnections break them, see
  the observations). `PhaseInv` says that such a client is in one of four phases:
  at rest, trying to connect, asking the server about its key, or signed in
  (`AtRest`, `Trying`, `Asking`, `SignedIn`), each with the connections, operations
  and posted events that may exist in it. A late reply or a loss is then a step
  from a known phase.
* `SyncProofs`: `SyncGivenOnce`, `SyncNothingMissed`, `SyncHeldOnlyWhileSyncing`,
  `SyncOneRequestPerDialog` and the action property `SyncGivenInOrder`, for any
  peers, portion, limits, messages, saves and losses. None is inductive. `SyncInv`
  has two halves. `Base` always holds: what a dialog holds is in descending order,
  newer than what it has given and not newer than its top message (`Dialogs`,
  `Given`); updates on the wire are newer than top message and mark (`News`) and in
  the server's order, also relative to a dialog list (`Order`); a dialog with a
  request or answer under way is unsynchronized, holds something, and the request
  or answer goes on from its oldest message (`Asks`); the jobs are counted
  (`Counted`). `Whole` holds until something disturbs the synchronization: every
  message of the post box is not newer than the mark, or held, or on the wire, or
  older than what a dialog that still asks holds (`DialogsWhole`), with the same for
  a list of dialogs and a part of a history under way. An end of a synchronization
  moves the mark over messages that `Whole` accounts for and `News` tells from those
  on the wire: that is `NothingMissed`. A dialog that the list leaves out asks
  nothing and, unless it has no mark, keeps it (`LeftOut`, `MarksGiven`), so that it can
  catch up in a later run. The lemmas on lists (`NewestFirstFacts`,
  `NewerFacts`, `JoinFacts`) rest on the least element of a set of numbers instead
  of an induction; `ProcessBase` and `ProcessWhole` treat `processNewSyncMessages`
  for a set of dialogs, so that `syncPeers` and the receipt of a history are two uses
  of them, and `Settles` covers the loss of a connection too.

Only model-checked: liveness (`OperationFinishes`, `CheckInFinishes`, `SyncEnds`,
`DownloadsEnd`), because fairness and ENABLED are beyond the prover; the two
violation runs; and `TlWire`, whose tables are finite, so that TLC's run is
exhaustive up to the lengths of the vectors (layouts are read by folds over
sequences, which the prover cannot reason about without induction).

## 5. Not modelled, and the plan

Not modelled on purpose: cryptography and the arithmetic of the key exchange,
file and JSON formats, debug output (`TLTypesDebug`, `TLRpcDebug`), the code
generator (what it has generated is checked instead), the QML plugin and the
applications. Contacts, stickers, channels and most other server calls are
single steps without state of their own beyond their arguments and replies,
which `TlWire` has.

Planned modules, in this order:

1. `DhExchange`: both sides of the key exchange with messages delivered out of
   turn, retry and failure answers. `HasDhKey` on the client implies the same
   key on the server. `ConnectionApi` uses its result.
2. `TcpFraming`: packets cut and joined anywhere, the obfuscated and abridged
   headers, and the state kept between two reads.
3. `KeepAlive`: the two timers of the ping operation.
4. Contacts, typing notifications and media of the server.

Every safety property of the modules other than `TlWire` is proved; a planned
module comes with its own theorems: that both ends of `DhExchange` have the same
key, and that `TcpFraming` returns the packets sent.
