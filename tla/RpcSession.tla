----------------------------- MODULE RpcSession -----------------------------
(***************************************************************************)
(* The encrypted RPC exchange of one client session with one server:       *)
(* Client::RpcLayer, Server::RpcLayer and the part of Server::Session they *)
(* share, over TCP connections that may be lost and resumed.               *)
(*                                                                         *)
(* A client message is ignored by the server when its salt has expired or  *)
(* its sequence number is behind; the server then sends a notification and *)
(* the client sends the message again under a new id.  The client stores   *)
(* its message counter when it signs in and when it loses the connection,  *)
(* and resumes the session from the stored value.                          *)
(***************************************************************************)
EXTENDS Integers, Sequences, FiniteSets, Functions

CONSTANTS
  Ops,        \* RPC operations the application may start, each of them once
  NoOp,       \* "no operation": the operation of a MsgsAck message
  Kind,       \* [Ops -> Kinds]
  MaxSalt,    \* bound: number of salts the server goes through
  MaxEpoch,   \* bound: number of connections of the session
  MaxCrash,   \* bound: number of client process deaths
  MaxUpdates  \* bound: number of updates the server pushes

(***************************************************************************)
(* "sign"    auth.signIn: allowed for everybody, authorizes the session    *)
(* "status"  account.updateStatus, whose reply makes the client Signed     *)
(* "rpc"     any other call that needs an authorized session               *)
(* "unknown" a call that no operation factory of the server accepts        *)
(* "ping"    Ping / PingDelayDisconnect, not content related               *)
(***************************************************************************)
Kinds == {"sign", "status", "rpc", "unknown", "ping"}

ASSUME OpsAssumption   == NoOp \notin Ops /\ Kind \in [Ops -> Kinds]
ASSUME BoundAssumption == /\ MaxSalt \in Nat \ {0}
                          /\ MaxEpoch \in Nat \ {0}
                          /\ MaxCrash \in Nat
                          /\ MaxUpdates \in Nat

VARIABLES
  \* the connection
  up,             \* the client's transport is connected
  epoch,          \* number of the current (or last) connection
  toServer,       \* toServer[e]: bytes of connection e the server has not read
  toClient,       \* what the client has not read from the current connection
  \* Client::RpcLayer of the current connection
  operations,     \* m_operations: message id -> operation
  messages,       \* m_messages: message id -> message
  content,        \* m_contentRelatedMessages
  serverSalt,     \* m_serverSalt, 0 when unknown
  messagesToAck,  \* m_messagesToAck; acknowledgeMessages is queued iff it is not empty
  lastId,         \* the last message id given out
  \* the rest of the client
  opState,        \* the PendingRpcOperation of every operation
  signed,         \* the connection has the status Signed
  stored,         \* contentRelatedMessagesNumber in the account storage, 0 for no session
  crashes,
  unsaved,        \* history: a connection ended without its counter being stored
  \* Server::Session
  session,        \* [salt, oldSalt, lastSeq, layer, user]
  \* Server::RpcLayer of the current connection
  bound,          \* m_session is set
  sContent,       \* m_contentRelatedMessages
  sLastId,
  toConfirm,      \* m_operationsToConfirm: reply id -> operation
  \* server operations, of any connection
  started,        \* operations with a queued start()
  executed,       \* how often the run method of an operation was called
  updates         \* number of updates pushed

client  == <<operations, messages, content, serverSalt, messagesToAck, lastId>>
account == <<opState, signed, stored, crashes, unsaved>>
sLayer  == <<bound, sContent, sLastId, toConfirm>>
vars    == <<up, epoch, toServer, toClient, client, account, session, sLayer,
             started, executed, updates>>

OpStates == {"idle", "pending", "succeeded", "failed", "lost"}
ErrorCodes == {"none", "IncorrectServerSalt", "SequenceNumberTooLow",
               "IncorrectTwoLowerOrderMessageIdBits"}

Message == [seq : Nat, op : Ops \cup {NoOp}, init : BOOLEAN, ids : SUBSET Nat]
ClientPacket == [id : Nat, salt : Nat, m : Message]
ServerPacket ==
  [id : Nat, seq : Nat, salt : Nat, kind : {"result", "pong", "notice", "update"},
   re : Nat, op : Ops \cup {NoOp}, ok : BOOLEAN, code : ErrorCodes]
Session == [salt : Nat, oldSalt : Nat, lastSeq : Nat, layer : BOOLEAN, user : BOOLEAN]
Started == [epoch : 1..MaxEpoch, id : Nat, op : Ops]

Epochs == 1..MaxEpoch
IsContent(o) == Kind[o] # "ping"
\* BaseTransport::getNewMessageId: greater than the last one, divisible by four.
NewMessageIdRepeated(last) == IF last = 0 THEN 4 ELSE last   \* fault: ids repeat
NewMessageId(last) == last + 4

\* The message that carries InitConnection.
NeedsInitEven(seq) == seq = 0                                \* fault: off by one
NeedsInit(seq) == seq = 1

\* PendingRpcOperation::setFinishedWithReplyData
FinishedStateBlind(ok) == "succeeded"                        \* fault: RpcError not looked at
FinishedState(ok) == IF ok THEN "succeeded" ELSE "failed"


\* QHash::insert and QHash::take
Insert(f, k, v) == [x \in DOMAIN f \cup {k} |-> IF x = k THEN v ELSE f[x]]
Drop(f, k) == Restrict(f, DOMAIN f \ {k})
-----------------------------------------------------------------------------
(***************************************************************************)
(* Client: sending.                                                        *)
(***************************************************************************)

\* BaseRpcLayer::sendPacket(message): the salt is the one known right now.
Packet(id, salt, m) == [id |-> id, salt |-> salt, m |-> m]
SendPacket(p) == toServer' = [toServer EXCEPT ![epoch] = Append(@, p)]

RpcSeq(o) == IF IsContent(o) THEN 2 * content + 1 ELSE 2 * content
RpcMessage(o) ==
  [seq |-> RpcSeq(o), op |-> o, init |-> NeedsInit(RpcSeq(o)), ids |-> {}]

SendRpc(o) ==
  /\ up
  /\ opState[o] = "idle"
  /\ IsContent(o) \/ content > 0   \* "First message should be content related!"
  /\ content' = IF IsContent(o) THEN content + 1 ELSE content
  /\ operations' = Insert(operations, NewMessageId(lastId), o)
  /\ messages' = Insert(messages, NewMessageId(lastId), RpcMessage(o))
  /\ lastId' = NewMessageId(lastId)
  /\ SendPacket(Packet(NewMessageId(lastId), serverSalt, RpcMessage(o)))
  /\ opState' = [opState EXCEPT ![o] = "pending"]
  /\ UNCHANGED <<up, epoch, toClient, serverSalt, messagesToAck, signed, stored,
                 crashes, unsaved, session, sLayer, started, executed, updates>>

AckMessage == [seq |-> 2 * content, op |-> NoOp, init |-> FALSE, ids |-> messagesToAck]

AcknowledgeMessages ==
  /\ up
  /\ messagesToAck # {}
  /\ messagesToAck' = {}
  /\ messages' = Insert(messages, NewMessageId(lastId), AckMessage)
  /\ lastId' = NewMessageId(lastId)
  /\ SendPacket(Packet(NewMessageId(lastId), serverSalt, AckMessage))
  /\ UNCHANGED <<up, epoch, toClient, operations, content, serverSalt, account,
                 session, sLayer, started, executed, updates>>
-----------------------------------------------------------------------------
(***************************************************************************)
(* Client: receiving.  processMessageHeader adopts the salt of every       *)
(* packet, and a message with an odd sequence number is to be acknowledged.*)
(***************************************************************************)
Received == Head(toClient)

ReceivePacket(kind) ==
  /\ up
  /\ toClient # <<>>
  /\ Received.kind = kind
  /\ toClient' = Tail(toClient)
  /\ serverSalt' = Received.salt
  /\ messagesToAck' = IF Received.seq % 2 = 1 THEN messagesToAck \cup {Received.id}
                                              ELSE messagesToAck

ProcessUpdates ==
  /\ ReceivePacket("update")
  /\ UNCHANGED <<up, epoch, toServer, operations, messages, content, lastId, account,
                 session, sLayer, started, executed, updates>>

\* processRpcResult; the reply to account.updateStatus makes the connection
\* Signed, which stores the session (Backend::syncAccountToStorage).
ProcessRpcResult ==
  LET re    == Received.re
      known == re \in DOMAIN operations
  IN  /\ ReceivePacket("result")
      /\ operations' = Drop(operations, re)
      /\ opState' = IF known
                    THEN [opState EXCEPT ![operations[re]] = FinishedState(Received.ok)]
                    ELSE opState
      /\ LET signedNow == known /\ Received.ok /\ Kind[operations[re]] = "status"
         IN  /\ signed' = (signed \/ signedNow)
             /\ stored' = IF signedNow /\ ~signed THEN content ELSE stored
      /\ UNCHANGED <<up, epoch, toServer, messages, content, lastId, crashes, unsaved,
                     session, sLayer, started, executed, updates>>

ProcessPong ==
  LET re    == Received.re
      known == re \in DOMAIN operations
  IN  /\ ReceivePacket("pong")
      /\ operations' = Drop(operations, re)
      /\ opState' = IF known THEN [opState EXCEPT ![operations[re]] = "succeeded"]
                             ELSE opState
      /\ UNCHANGED <<up, epoch, toServer, messages, content, lastId, signed, stored,
                     crashes, unsaved, session, sLayer, started, executed, updates>>

\* The sequence number and the counter after a notification about a message.
\* (The server's check for SequenceNumberTooHigh is compiled out.)
NoticedSeqReduced(code, seq) ==                  \* fault: reduced instead of increased
  IF code = "SequenceNumberTooLow" THEN seq - 2 ELSE seq

NoticedSeq(code, seq) == IF code = "SequenceNumberTooLow" THEN seq + 2 ELSE seq

NoticedContent(code, seq) ==
  IF code = "SequenceNumberTooLow" /\ content <= seq \div 2 THEN seq \div 2 + 1
                                                            ELSE content

ResentMessage(code, m) == [m EXCEPT !.seq = NoticedSeq(code, @)]

\* resendIgnoredMessage
Resend(old, m) ==
  /\ operations' = Insert(Drop(operations, old), NewMessageId(lastId), operations[old])
  /\ messages' = Insert(Drop(messages, old), NewMessageId(lastId), m)
  /\ lastId' = NewMessageId(lastId)
  /\ SendPacket(Packet(NewMessageId(lastId), Received.salt, m))

\* processIgnoredMessageNotification.  A message without an operation (a
\* MsgsAck) is forgotten instead of sent again.
ProcessIgnoredMessageNotification ==
  LET old == Received.re
      m   == ResentMessage(Received.code, messages[old])
  IN  /\ ReceivePacket("notice")
      /\ content' = IF old \in DOMAIN messages THEN NoticedContent(Received.code, m.seq)
                                                ELSE content
      /\ IF old \in DOMAIN messages /\ old \in DOMAIN operations
         THEN Resend(old, m)
         ELSE /\ messages' = Drop(messages, old)
              /\ UNCHANGED <<toServer, operations, lastId>>
      /\ UNCHANGED <<up, epoch, account, session, sLayer, started, executed, updates>>
-----------------------------------------------------------------------------
(***************************************************************************)
(* The connection: loss, death of the client process, resumption.          *)
(***************************************************************************)
NoneById == [x \in {} |-> NoOp]

\* The end of the client's RpcLayer and of the server's RpcLayer for the
\* connection.  What the client sent may still be read by the server.
LayersGone ==
  /\ up' = FALSE
  /\ toClient' = <<>>
  /\ operations' = NoneById
  /\ messages' = NoneById
  /\ messagesToAck' = {}
  /\ signed' = FALSE
  /\ bound' = FALSE
  /\ sContent' = 0
  /\ sLastId' = 0
  /\ toConfirm' = NoneById

\* fault: the operations are cleared but not failed
ConnectionLostSilently ==
  /\ up
  /\ LayersGone
  /\ opState' = opState
  /\ stored' = IF signed THEN content ELSE stored
  /\ unsaved' = (unsaved \/ ~signed)
  /\ UNCHANGED <<epoch, toServer, content, serverSalt, lastId, crashes, session,
                 started, executed, updates>>

\* fault: the counter is not saved
ConnectionLostUnsaved ==
  /\ up
  /\ LayersGone
  /\ opState' = [o \in Ops |-> IF o \in Range(operations) THEN "failed" ELSE opState[o]]
  /\ unsaved' = (unsaved \/ ~signed)
  /\ UNCHANGED <<epoch, toServer, content, serverSalt, lastId, stored, crashes, session,
                 started, executed, updates>>

\* BaseConnection::setStatus(Disconnected) calls RpcLayer::onConnectionLost,
\* and a Signed main connection saves its counter (onMainConnectionLost).
ConnectionLost ==
  /\ up
  /\ LayersGone
  /\ opState' = [o \in Ops |-> IF o \in Range(operations) THEN "failed" ELSE opState[o]]
  /\ stored' = IF signed THEN content ELSE stored
  /\ unsaved' = (unsaved \/ ~signed)
  /\ UNCHANGED <<epoch, toServer, content, serverSalt, lastId, crashes, session,
                 started, executed, updates>>

\* The client process dies: nothing is saved, its operations are gone.
ClientCrash ==
  /\ up
  /\ crashes < MaxCrash
  /\ crashes' = crashes + 1
  /\ unsaved' = TRUE
  /\ LayersGone
  /\ opState' = [o \in Ops |-> IF o \in Range(operations) THEN "lost" ELSE opState[o]]
  /\ UNCHANGED <<epoch, toServer, content, serverSalt, lastId, stored, session,
                 started, executed, updates>>

\* A new connection resumes the stored session; the salt is not stored.
Resume ==
  /\ ~up
  /\ stored > 0
  /\ epoch < MaxEpoch
  /\ up' = TRUE
  /\ epoch' = epoch + 1
  /\ content' = stored
  /\ serverSalt' = 0
  /\ UNCHANGED <<toServer, toClient, operations, messages, messagesToAck, lastId,
                 account, session, sLayer, started, executed, updates>>

\* The server notices that an old connection is gone.
ServerDropsConnection(e) ==
  /\ e < epoch \/ ~up
  /\ toServer[e] # <<>>
  /\ toServer' = [toServer EXCEPT ![e] = <<>>]
  /\ UNCHANGED <<up, epoch, toClient, client, account, session, sLayer, started,
                 executed, updates>>
-----------------------------------------------------------------------------
(***************************************************************************)
(* Server: the session's salts (Session::getServerSalt rotates them when   *)
(* they are asked for; module SessionSalts has the times).                 *)
(***************************************************************************)
SessionExists == bound \/ epoch > 1

RotateSalt ==
  /\ SessionExists
  /\ session.salt < MaxSalt
  /\ session' = [session EXCEPT !.salt = @ + 1, !.oldSalt = session.salt]
  /\ UNCHANGED <<up, epoch, toServer, toClient, client, account, sLayer, started,
                 executed, updates>>

ExpireOldSalt ==
  /\ session.oldSalt # 0
  /\ session' = [session EXCEPT !.oldSalt = 0]
  /\ UNCHANGED <<up, epoch, toServer, toClient, client, account, sLayer, started,
                 executed, updates>>

CheckSalt(salt) == salt # 0 /\ (salt = session.salt \/ salt = session.oldSalt)
-----------------------------------------------------------------------------
(***************************************************************************)
(* Server: receiving.                                                      *)
(***************************************************************************)

\* The notification processMessageHeader sends about a packet, if any.
HeaderError(p) ==
  IF ~CheckSalt(p.salt)               THEN "IncorrectServerSalt"
  ELSE IF p.m.seq < session.lastSeq   THEN "SequenceNumberTooLow"
  ELSE IF p.id % 4 # 0                THEN "IncorrectTwoLowerOrderMessageIdBits"
  ELSE "none"

Current(e) == up /\ e = epoch

ReplyPacket(related, kind, re, o, ok, code) ==
  [id |-> sLastId + 1, seq |-> IF related THEN 2 * sContent + 1 ELSE 2 * sContent,
   salt |-> session'.salt, kind |-> kind, re |-> re, op |-> o, ok |-> ok, code |-> code]

\* sendPacket(buffer, mode, type) of the RpcLayer of connection e: a reply on
\* a lost connection goes nowhere.
Reply(e, related, kind, re, o, ok, code) ==
  IF Current(e)
  THEN /\ toClient' = Append(toClient, ReplyPacket(related, kind, re, o, ok, code))
       /\ sLastId' = sLastId + 1
       /\ sContent' = IF related THEN sContent + 1 ELSE sContent
  ELSE UNCHANGED <<toClient, sLastId, sContent>>

NoReply == UNCHANGED <<toClient, sLastId, sContent>>

\* The server reads the next packet of connection e.
Incoming(e) == Head(toServer[e])

Read(e) ==
  /\ toServer[e] # <<>>
  /\ toServer' = [toServer EXCEPT ![e] = Tail(@)]
  /\ bound' = (bound \/ Current(e))
  /\ UNCHANGED <<up, epoch, client, account, updates>>

\* processMessageHeader accepts the packet, processInitConnection the layer.
Accept(p) ==
  /\ HeaderError(p) = "none"
  /\ session' = [session EXCEPT !.lastSeq = p.m.seq, !.layer = @ \/ p.m.init]

\* fault: account.updateStatus in the list of RPCs for unregistered users
AllowedStatus(o) == Kind[o] \in {"sign", "status"} \/ session.user

\* c_unregisteredUserAllowedRpcList and isAuthorized
Allowed(o) == Kind[o] = "sign" \/ session.user

\* fault: the header is refused but the message is processed all the same
IgnoreMessageThrough(e) == LET p == Incoming(e) IN
  /\ Read(e)
  /\ HeaderError(p) # "none"
  /\ started' = IF p.m.op = NoOp THEN started
                 ELSE started \cup {[epoch |-> e, id |-> p.id, op |-> p.m.op]}
  /\ UNCHANGED <<session, toConfirm, executed>>
  /\ Reply(e, FALSE, "notice", p.id, NoOp, FALSE, HeaderError(p))

\* fault: no notification about a too low sequence number
IgnoreMessageSilently(e) == LET p == Incoming(e) IN
  /\ Read(e)
  /\ HeaderError(p) # "none"
  /\ UNCHANGED <<session, toConfirm, started, executed>>
  /\ IF HeaderError(p) = "SequenceNumberTooLow"
     THEN NoReply
     ELSE Reply(e, FALSE, "notice", p.id, NoOp, FALSE, HeaderError(p))

\* sendIgnoredMessageNotification
IgnoreMessage(e) == LET p == Incoming(e) IN
  /\ Read(e)
  /\ HeaderError(p) # "none"
  /\ UNCHANGED <<session, toConfirm, started, executed>>
  /\ Reply(e, FALSE, "notice", p.id, NoOp, FALSE, HeaderError(p))

ProcessPing(e) == LET p == Incoming(e) IN
  /\ Read(e)
  /\ p.m.op # NoOp /\ Kind[p.m.op] = "ping"
  /\ Accept(p)
  /\ executed' = [executed EXCEPT ![p.m.op] = @ + 1]
  /\ Reply(e, FALSE, "pong", p.id, p.m.op, TRUE, "none")
  /\ UNCHANGED <<toConfirm, started>>

\* fault: an acknowledgement confirms every reply
ProcessMessageAckAll(e) == LET p == Incoming(e) IN
  /\ Read(e)
  /\ p.m.op = NoOp
  /\ Accept(p)
  /\ toConfirm' = NoneById
  /\ NoReply
  /\ UNCHANGED <<started, executed>>

ProcessMessageAck(e) == LET p == Incoming(e) IN
  /\ Read(e)
  /\ p.m.op = NoOp
  /\ Accept(p)
  /\ toConfirm' = IF Current(e) THEN Restrict(toConfirm, DOMAIN toConfirm \ p.m.ids)
                                ELSE toConfirm
  /\ NoReply
  /\ UNCHANGED <<started, executed>>

\* AuthKeyUnregistered, sent at once.
RejectUnauthorized(e) == LET p == Incoming(e) IN
  /\ Read(e)
  /\ p.m.op # NoOp /\ Kind[p.m.op] # "ping" /\ ~Allowed(p.m.op)
  /\ Accept(p)
  /\ Reply(e, TRUE, "result", p.id, p.m.op, FALSE, "none")
  /\ UNCHANGED <<toConfirm, started, executed>>

StartOperation(e) == LET p == Incoming(e) IN
  /\ Read(e)
  /\ p.m.op # NoOp /\ Kind[p.m.op] \in {"sign", "status", "rpc"} /\ Allowed(p.m.op)
  /\ Accept(p)
  /\ started' = started \cup {[epoch |-> e, id |-> p.id, op |-> p.m.op]}
  /\ NoReply
  /\ UNCHANGED <<toConfirm, executed>>

\* "is not processed!": no reply at all.
NotProcessed(e) == LET p == Incoming(e) IN
  /\ Read(e)
  /\ p.m.op # NoOp /\ Kind[p.m.op] = "unknown" /\ Allowed(p.m.op)
  /\ Accept(p)
  /\ NoReply
  /\ UNCHANGED <<toConfirm, started, executed>>

\* RpcOperation::start runs the method, which replies with a result or an
\* error; the reply is tracked until the client acknowledges it.
RunOperation(s, ok) ==
  /\ s \in started
  /\ started' = started \ {s}
  /\ executed' = [executed EXCEPT ![s.op] = @ + 1]
  /\ session' = [session EXCEPT !.user = @ \/ (Kind[s.op] = "sign" /\ ok)]
  /\ Reply(s.epoch, TRUE, "result", s.id, s.op, ok, "none")
  /\ toConfirm' = IF Current(s.epoch) THEN Insert(toConfirm, sLastId', s.op) ELSE toConfirm
  /\ UNCHANGED <<up, epoch, toServer, client, account, bound, updates>>

\* RpcLayer::sendUpdates on an active session of an authorized user.
SendUpdates ==
  /\ bound /\ up /\ session.user
  /\ updates < MaxUpdates
  /\ updates' = updates + 1
  /\ UNCHANGED session
  /\ Reply(epoch, TRUE, "update", 0, NoOp, FALSE, "none")
  /\ UNCHANGED <<up, epoch, toServer, client, account, bound, toConfirm, started, executed>>
-----------------------------------------------------------------------------
Init ==
  /\ up = TRUE
  /\ epoch = 1
  /\ toServer = [e \in Epochs |-> <<>>]
  /\ toClient = <<>>
  /\ operations = NoneById
  /\ messages = NoneById
  /\ content = 0
  /\ serverSalt = 1           \* agreed in the key exchange
  /\ messagesToAck = {}
  /\ lastId = 0
  /\ opState = [o \in Ops |-> "idle"]
  /\ signed = FALSE
  /\ stored = 0
  /\ crashes = 0
  /\ unsaved = FALSE
  /\ session = [salt |-> 1, oldSalt |-> 0, lastSeq |-> 0, layer |-> FALSE, user |-> FALSE]
  /\ bound = FALSE
  /\ sContent = 0
  /\ sLastId = 0
  /\ toConfirm = NoneById
  /\ started = {}
  /\ executed = [o \in Ops |-> 0]
  /\ updates = 0

ClientReceive == ProcessUpdates \/ ProcessRpcResult \/ ProcessPong
                   \/ ProcessIgnoredMessageNotification

ServerReceive(e) ==
  \/ IgnoreMessage(e) \/ ProcessPing(e) \/ ProcessMessageAck(e)
  \/ RejectUnauthorized(e) \/ StartOperation(e) \/ NotProcessed(e)

Next ==
  \/ \E o \in Ops : SendRpc(o)
  \/ AcknowledgeMessages
  \/ ClientReceive
  \/ ConnectionLost \/ ClientCrash \/ Resume
  \/ \E e \in Epochs : ServerDropsConnection(e) \/ ServerReceive(e)
  \/ RotateSalt \/ ExpireOldSalt
  \/ \E s \in started, ok \in BOOLEAN : RunOperation(s, ok)
  \/ SendUpdates

Spec == Init /\ [][Next]_vars

\* Both event loops keep running; the network delivers what it has accepted as
\* long as the connection lasts.  Nothing is assumed of the application, of
\* failures or of time.
Fairness ==
  /\ WF_vars(ClientReceive)
  /\ WF_vars(AcknowledgeMessages)
  /\ WF_vars(\E e \in Epochs : ServerReceive(e))
  /\ WF_vars(\E s \in started, ok \in BOOLEAN : RunOperation(s, ok))

FairSpec == Spec /\ Fairness
-----------------------------------------------------------------------------
(***************************************************************************)
(* Properties.                                                             *)
(***************************************************************************)

IsMap(f, V) == DOMAIN f \subseteq Nat /\ f \in [DOMAIN f -> V]

\* Every variable keeps its type.
TypeOK ==
  /\ up \in BOOLEAN /\ epoch \in Epochs
  /\ toServer \in [Epochs -> Seq(ClientPacket)]
  /\ toClient \in Seq(ServerPacket)
  /\ IsMap(operations, Ops)
  /\ IsMap(messages, Message)
  /\ content \in Nat /\ serverSalt \in Nat /\ lastId \in Nat
  /\ messagesToAck \in SUBSET Nat
  /\ opState \in [Ops -> OpStates]
  /\ signed \in BOOLEAN /\ stored \in Nat /\ crashes \in Nat /\ unsaved \in BOOLEAN
  /\ session \in Session
  /\ bound \in BOOLEAN /\ sContent \in Nat /\ sLastId \in Nat
  /\ IsMap(toConfirm, Ops)
  /\ started \in SUBSET Started
  /\ executed \in [Ops -> Nat]
  /\ updates \in Nat

\* A reply is delivered to the operation it answers: the message id of a
\* reply under way never belongs to another operation, although ignored
\* messages are sent again under new ids (processRpcResult looks the
\* operation up by the id of the reply alone).
ReplyMatchesOperation ==
  \A i \in 1..Len(toClient) :
    /\ toClient[i].kind \in {"result", "pong"}
    /\ toClient[i].re \in DOMAIN operations
    => operations[toClient[i].re] = toClient[i].op

\* The run method of an operation is called at most once however often its
\* message is ignored and sent again (processMessageHeader must not let an
\* ignored message through, the client must not resend an accepted one).
ExecutedAtMostOnce == \A o \in Ops : executed[o] <= 1

\* An operation the client waits for is the operation of exactly one message
\* of the living connection; a lost connection leaves nobody waiting
\* (onConnectionLost, resendIgnoredMessage).
PendingIsTracked ==
  /\ \A o \in Ops : opState[o] = "pending" <=> (up /\ o \in Range(operations))
  /\ \A i, j \in DOMAIN operations : operations[i] = operations[j] => i = j
  /\ DOMAIN operations \subseteq DOMAIN messages

\* Something under way will finish or resend the operation with message id i.
UnderWay(i) ==
  \/ \E k \in 1..Len(toServer[epoch]) : toServer[epoch][k].id = i
  \/ \E s \in started : s.epoch = epoch /\ s.id = i
  \/ \E k \in 1..Len(toClient) : toClient[k].kind # "update" /\ toClient[k].re = i

\* No operation is forgotten on the way: the request, the server's operation,
\* the reply or the notification about it is under way.  The exception is a
\* request that no factory accepts, which the server drops without a reply.
PendingIsUnderWay ==
  \A i \in DOMAIN operations : Kind[operations[i]] # "unknown" => UnderWay(i)

\* As long as every connection was Signed when it ended, the counter the client
\* resumes from is not behind the server's lastSequenceNumber: a first
\* transmission is not rejected with SequenceNumberTooLow (onMainConnectionLost
\* saves the counter).  The counter may be behind after a process death, and
\* after the loss of a resumed connection that was not yet Signed again.
CounterNotBehind == ~unsaved /\ up => session.lastSeq <= 2 * content

\* The server runs no operation before it knows the client's layer: the message
\* with InitConnection is accepted before any other content related message.
InitConnectionFirst ==
  (started # {} \/ \E o \in Ops : executed[o] > 0) => session.layer

\* A Signed client connection belongs to a session the server has authorized.
SignedIsAuthorized == signed => session.user

\* On a living connection the server forgets a tracked reply only after the
\* client's operation has finished (processMessageAck, acknowledgeMessages).
ConfirmedWasReceived ==
  [][\A r \in DOMAIN toConfirm :
       up' /\ epoch' = epoch /\ r \notin DOMAIN toConfirm'
         => opState[toConfirm[r]] \in {"succeeded", "failed"}]_vars

\* Every operation finishes unless no factory accepts it: it is answered, or it
\* fails with the connection, also when salts expire under way and when the
\* client resumes with an old counter.
OperationFinishes ==
  \A o \in {x \in Ops : Kind[x] # "unknown"} :
    opState[o] = "pending" ~> opState[o] # "pending"

(***************************************************************************)
(* The promise to the application: see RpcCall.                            *)
(***************************************************************************)
Abstract == INSTANCE RpcCall WITH call <- opState, ran <- executed
CallSpec == Abstract!Spec
=============================================================================
