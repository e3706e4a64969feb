-------------------------- MODULE RpcSessionProofs --------------------------
(***************************************************************************)
(* Proofs about RpcSession for every set of operations and every bound.    *)
(***************************************************************************)
EXTENDS RpcSession, TLAPS

(***************************************************************************)
(* Sequences used as queues, functions used as maps.                       *)
(***************************************************************************)

\* What is in a queue after a packet was sent.
LEMMA AppendFacts ==
  ASSUME NEW S, NEW s \in Seq(S), NEW x \in S
  PROVE  /\ Append(s, x) \in Seq(S)
         /\ \A i \in 1..Len(Append(s, x)) :
              (i \in 1..Len(s) /\ Append(s, x)[i] = s[i]) \/ Append(s, x)[i] = x
OBVIOUS

\* What is in a queue after its first packet was taken.
LEMMA TailFacts ==
  ASSUME NEW S, NEW s \in Seq(S), s # <<>>
  PROVE  /\ Tail(s) \in Seq(S)
         /\ Head(s) \in S
         /\ 1 \in 1..Len(s) /\ Head(s) = s[1]
         /\ \A i \in 1..Len(Tail(s)) : i + 1 \in 1..Len(s) /\ Tail(s)[i] = s[i + 1]
OBVIOUS

\* Insertion into a map.
LEMMA InsertFacts ==
  ASSUME NEW V, NEW f, IsMap(f, V), NEW k \in Nat, NEW v \in V
  PROVE  /\ IsMap(Insert(f, k, v), V)
         /\ DOMAIN Insert(f, k, v) = DOMAIN f \cup {k}
         /\ Insert(f, k, v)[k] = v
         /\ \A j \in DOMAIN f : j # k => Insert(f, k, v)[j] = f[j]
BY DEF Insert, IsMap

\* Removal from a map.
LEMMA DropFacts ==
  ASSUME NEW V, NEW f, IsMap(f, V), NEW k
  PROVE  /\ IsMap(Drop(f, k), V)
         /\ DOMAIN Drop(f, k) = DOMAIN f \ {k}
         /\ \A j \in DOMAIN f \ {k} : Drop(f, k)[j] = f[j]
BY DEF Drop, Restrict, IsMap

\* The empty map.
LEMMA NoneFacts ==
  ASSUME NEW V
  PROVE  IsMap(NoneById, V) /\ DOMAIN NoneById = {}
BY DEF NoneById, IsMap
-----------------------------------------------------------------------------
(***************************************************************************)
(* Type correctness.                                                       *)
(***************************************************************************)

\* The fields of a message.
LEMMA MessageFacts ==
  ASSUME NEW m \in Message
  PROVE  /\ m.seq \in Nat /\ m.op \in Ops \cup {NoOp}
         /\ m.init \in BOOLEAN /\ m.ids \in SUBSET Nat
         /\ \A code : /\ ResentMessage(code, m) \in Message
                      /\ ResentMessage(code, m).op = m.op
                      /\ ResentMessage(code, m).seq \in Nat
BY DEF Message, ResentMessage, NoticedSeq

\* Message ids grow.
LEMMA IdFacts ==
  ASSUME TypeOK
  PROVE  NewMessageId(lastId) \in Nat /\ NewMessageId(lastId) > lastId
BY DEF TypeOK, NewMessageId

\* The messages the client builds.
LEMMA BuiltMessages ==
  ASSUME TypeOK
  PROVE  /\ \A o \in Ops : RpcMessage(o) \in Message /\ RpcMessage(o).op = o
         /\ AckMessage \in Message /\ AckMessage.op = NoOp
<1>1. content \in Nat /\ messagesToAck \in SUBSET Nat
  BY DEF TypeOK
<1>2. ASSUME NEW o \in Ops PROVE RpcMessage(o) \in Message /\ RpcMessage(o).op = o
  <2>1. RpcSeq(o) \in Nat
    BY <1>1 DEF RpcSeq
  <2> QED BY <2>1 DEF RpcMessage, Message, NeedsInit
<1>3. AckMessage \in Message /\ AckMessage.op = NoOp
  BY <1>1 DEF AckMessage, Message
<1> QED BY <1>2, <1>3

\* A packet added to the client's end of the current connection.
LEMMA SendType ==
  ASSUME TypeOK, NEW id \in Nat, NEW salt \in Nat, NEW m \in Message,
         SendPacket(Packet(id, salt, m))
  PROVE  toServer' \in [Epochs -> Seq(ClientPacket)]
<1>1. Packet(id, salt, m) \in ClientPacket
  BY DEF Packet, ClientPacket
<1>2. toServer \in [Epochs -> Seq(ClientPacket)] /\ epoch \in Epochs
  BY DEF TypeOK
<1>3. Append(toServer[epoch], Packet(id, salt, m)) \in Seq(ClientPacket)
  BY <1>1, <1>2, AppendFacts
<1> QED BY <1>2, <1>3 DEF SendPacket

\* Receiving a packet keeps the types of what the header changes.
LEMMA ReceiveType ==
  ASSUME TypeOK, NEW kind, ReceivePacket(kind)
  PROVE  /\ Received \in ServerPacket /\ Received.salt \in Nat
         /\ toClient' \in Seq(ServerPacket)
         /\ serverSalt' \in Nat
         /\ messagesToAck' \in SUBSET Nat
<1>1. toClient \in Seq(ServerPacket) /\ toClient # <<>> /\ messagesToAck \in SUBSET Nat
  BY DEF TypeOK, ReceivePacket
<1>2. Received \in ServerPacket /\ Tail(toClient) \in Seq(ServerPacket)
  BY <1>1, TailFacts DEF Received
<1>3. Received.salt \in Nat /\ Received.id \in Nat
  BY <1>2 DEF ServerPacket
<1> QED BY <1>1, <1>2, <1>3 DEF ReceivePacket

\* The steps of the client keep the types.
LEMMA ClientTypes ==
  ASSUME TypeOK,
         \/ \E o \in Ops : SendRpc(o)
         \/ AcknowledgeMessages
         \/ ClientReceive
         \/ ConnectionLost \/ ClientCrash \/ Resume
  PROVE  TypeOK'
<1> USE OpsAssumption, BoundAssumption
<1>1. ASSUME NEW o \in Ops, SendRpc(o) PROVE TypeOK'
  <2>1. toServer' \in [Epochs -> Seq(ClientPacket)]
    <3>1. serverSalt \in Nat
      BY DEF TypeOK
    <3> QED BY <1>1, <3>1, IdFacts, BuiltMessages, SendType DEF SendRpc
  <2>2. IsMap(operations', Ops) /\ IsMap(messages', Message)
    <3>1. IsMap(operations, Ops) /\ IsMap(messages, Message)
      BY DEF TypeOK
    <3> QED BY <1>1, <3>1, IdFacts, BuiltMessages, InsertFacts DEF SendRpc
  <2>3. lastId' \in Nat
    BY <1>1, IdFacts DEF SendRpc
  <2>4. opState' \in [Ops -> OpStates]
    BY <1>1 DEF SendRpc, TypeOK, OpStates
  <2>5. content' \in Nat
    BY <1>1 DEF SendRpc, TypeOK
  <2> QED BY <1>1, <2>1, <2>2, <2>3, <2>4, <2>5 DEF SendRpc, TypeOK, sLayer
<1>2. ASSUME AcknowledgeMessages PROVE TypeOK'
  <2>1. toServer' \in [Epochs -> Seq(ClientPacket)]
    <3>1. serverSalt \in Nat
      BY DEF TypeOK
    <3> QED BY <1>2, <3>1, IdFacts, BuiltMessages, SendType DEF AcknowledgeMessages
  <2>2. IsMap(messages', Message)
    <3>1. IsMap(messages, Message)
      BY DEF TypeOK
    <3> QED BY <1>2, <3>1, IdFacts, BuiltMessages, InsertFacts DEF AcknowledgeMessages
  <2>3. lastId' \in Nat
    BY <1>2, IdFacts DEF AcknowledgeMessages
  <2> QED BY <1>2, <2>1, <2>2, <2>3 DEF AcknowledgeMessages, TypeOK, sLayer, account
<1>3. ASSUME ProcessUpdates PROVE TypeOK'
  <2>1. toClient' \in Seq(ServerPacket) /\ serverSalt' \in Nat /\ messagesToAck' \in SUBSET Nat
    BY <1>3, ReceiveType DEF ProcessUpdates
  <2> QED BY <1>3, <2>1 DEF ProcessUpdates, TypeOK, sLayer, account
<1>4. ASSUME ProcessRpcResult PROVE TypeOK'
  <2>1. toClient' \in Seq(ServerPacket) /\ serverSalt' \in Nat /\ messagesToAck' \in SUBSET Nat
    BY <1>4, ReceiveType DEF ProcessRpcResult
  <2>2. IsMap(operations', Ops)
    <3>1. IsMap(operations, Ops)
      BY DEF TypeOK
    <3> QED BY <1>4, <3>1, DropFacts DEF ProcessRpcResult
  <2>3. opState' \in [Ops -> OpStates]
    BY <1>4 DEF ProcessRpcResult, TypeOK, OpStates, FinishedState
  <2>4. signed' \in BOOLEAN /\ stored' \in Nat
    BY <1>4 DEF ProcessRpcResult, TypeOK
  <2> QED BY <1>4, <2>1, <2>2, <2>3, <2>4 DEF ProcessRpcResult, TypeOK, sLayer
<1>5. ASSUME ProcessPong PROVE TypeOK'
  <2>1. toClient' \in Seq(ServerPacket) /\ serverSalt' \in Nat /\ messagesToAck' \in SUBSET Nat
    BY <1>5, ReceiveType DEF ProcessPong
  <2>2. IsMap(operations', Ops)
    <3>1. IsMap(operations, Ops)
      BY DEF TypeOK
    <3> QED BY <1>5, <3>1, DropFacts DEF ProcessPong
  <2>3. opState' \in [Ops -> OpStates]
    BY <1>5 DEF ProcessPong, TypeOK, OpStates
  <2> QED BY <1>5, <2>1, <2>2, <2>3 DEF ProcessPong, TypeOK, sLayer
<1>6. ASSUME ProcessIgnoredMessageNotification PROVE TypeOK'
  <2> DEFINE old == Received.re
             m   == ResentMessage(Received.code, messages[old])
  <2>1. /\ toClient' \in Seq(ServerPacket) /\ serverSalt' \in Nat
        /\ messagesToAck' \in SUBSET Nat /\ Received.salt \in Nat
    BY <1>6, ReceiveType DEF ProcessIgnoredMessageNotification
  <2>2. IsMap(operations, Ops) /\ IsMap(messages, Message) /\ content \in Nat
    BY DEF TypeOK
  <2>3. ASSUME old \in DOMAIN messages PROVE m \in Message /\ m.seq \in Nat
    <3>1. messages[old] \in Message
      BY <2>2, <2>3 DEF IsMap
    <3> QED BY <3>1, MessageFacts
  <2>4. content' \in Nat
    <3>1. CASE old \in DOMAIN messages
      <4>1. content' = NoticedContent(Received.code, m.seq)
        BY <1>6, <3>1 DEF ProcessIgnoredMessageNotification
      <4>2. m.seq \in Nat
        BY <2>3, <3>1
      <4> HIDE DEF m
      <4>3. m.seq \div 2 + 1 \in Nat
        BY <4>2
      <4> QED BY <2>2, <4>1, <4>3 DEF NoticedContent
    <3>2. CASE old \notin DOMAIN messages
      BY <1>6, <2>2, <3>2 DEF ProcessIgnoredMessageNotification
    <3> QED BY <3>1, <3>2
  <2>5. /\ toServer' \in [Epochs -> Seq(ClientPacket)]
        /\ IsMap(operations', Ops) /\ IsMap(messages', Message) /\ lastId' \in Nat
    <3>1. CASE old \in DOMAIN messages /\ old \in DOMAIN operations
      <4>1. Resend(old, m) /\ m \in Message
        BY <1>6, <2>3, <3>1 DEF ProcessIgnoredMessageNotification
      <4> HIDE DEF m, old
      <4>2. toServer' \in [Epochs -> Seq(ClientPacket)]
        BY <2>1, <4>1, IdFacts, SendType DEF Resend
      <4>3. operations[old] \in Ops
        BY <2>2, <3>1 DEF IsMap
      <4>4. IsMap(Drop(operations, old), Ops) /\ IsMap(Drop(messages, old), Message)
        BY <2>2, DropFacts
      <4>5. IsMap(operations', Ops)
        BY <4>1, <4>3, <4>4, IdFacts, InsertFacts DEF Resend
      <4>6. IsMap(messages', Message)
        BY <4>1, <4>4, IdFacts, InsertFacts DEF Resend
      <4> QED BY <4>1, <4>2, <4>5, <4>6, IdFacts DEF Resend
    <3>2. CASE ~(old \in DOMAIN messages /\ old \in DOMAIN operations)
      <4>1. messages' = Drop(messages, old) /\ UNCHANGED <<toServer, operations, lastId>>
        BY <1>6, <3>2 DEF ProcessIgnoredMessageNotification
      <4> QED BY <2>2, <4>1, DropFacts DEF TypeOK
    <3> QED BY <3>1, <3>2
  <2> QED BY <1>6, <2>1, <2>4, <2>5
          DEF ProcessIgnoredMessageNotification, TypeOK, sLayer, account
<1>7. ASSUME ConnectionLost PROVE TypeOK'
  <2>1. opState' \in [Ops -> OpStates] /\ stored' \in Nat
    BY <1>7 DEF ConnectionLost, TypeOK, OpStates
  <2>2. toClient' \in Seq(ServerPacket) /\ sLastId' \in Nat /\ sContent' \in Nat
    BY <1>7 DEF ConnectionLost, LayersGone
  <2> QED BY <1>7, <2>1, <2>2, NoneFacts DEF ConnectionLost, LayersGone, TypeOK
<1>8. ASSUME ClientCrash PROVE TypeOK'
  <2>1. opState' \in [Ops -> OpStates] /\ crashes' \in Nat
    BY <1>8 DEF ClientCrash, TypeOK, OpStates
  <2>2. toClient' \in Seq(ServerPacket) /\ sLastId' \in Nat /\ sContent' \in Nat
    BY <1>8 DEF ClientCrash, LayersGone
  <2> QED BY <1>8, <2>1, <2>2, NoneFacts DEF ClientCrash, LayersGone, TypeOK
<1>9. ASSUME Resume PROVE TypeOK'
  <2>1. epoch' \in Epochs
    BY <1>9 DEF Resume, TypeOK, Epochs
  <2> QED BY <1>9, <2>1 DEF Resume, TypeOK, account, sLayer
<1> QED BY <1>1, <1>2, <1>3, <1>4, <1>5, <1>6, <1>7, <1>8, <1>9 DEF ClientReceive

\* A reply keeps the types of the variables it changes.
LEMMA ReplyType ==
  ASSUME TypeOK, session'.salt \in Nat,
         NEW e, NEW related \in BOOLEAN,
         NEW kind \in {"result", "pong", "notice", "update"}, NEW re \in Nat,
         NEW o \in Ops \cup {NoOp}, NEW ok \in BOOLEAN, NEW code \in ErrorCodes,
         Reply(e, related, kind, re, o, ok, code)
  PROVE  /\ toClient' \in Seq(ServerPacket)
         /\ sLastId' \in Nat /\ sContent' \in Nat
<1>0. toClient \in Seq(ServerPacket) /\ sLastId \in Nat /\ sContent \in Nat
  BY DEF TypeOK
<1>1. CASE Current(e)
  <2>1. ReplyPacket(related, kind, re, o, ok, code) \in ServerPacket
    <3>1. (IF related THEN 2 * sContent + 1 ELSE 2 * sContent) \in Nat
      BY <1>0
    <3> QED BY <1>0, <3>1 DEF ReplyPacket, ServerPacket
  <2>2. toClient' \in Seq(ServerPacket)
    BY <1>0, <1>1, <2>1, AppendFacts DEF Reply
  <2>3. sLastId' \in Nat /\ sContent' \in Nat
    BY <1>0, <1>1 DEF Reply
  <2> QED BY <2>2, <2>3
<1>2. CASE ~Current(e)
  BY <1>0, <1>2 DEF Reply
<1> QED BY <1>1, <1>2

\* The packet the server reads is a client packet, and so are the others.
LEMMA ReadType ==
  ASSUME TypeOK, NEW e \in Epochs, Read(e)
  PROVE  /\ Incoming(e) \in ClientPacket
         /\ Incoming(e).id \in Nat /\ Incoming(e).m \in Message
         /\ toServer' \in [Epochs -> Seq(ClientPacket)]
         /\ bound' \in BOOLEAN
<1>1. toServer \in [Epochs -> Seq(ClientPacket)] /\ toServer[e] # <<>>
  BY DEF TypeOK, Read
<1>2. Incoming(e) \in ClientPacket /\ Tail(toServer[e]) \in Seq(ClientPacket)
  BY <1>1, TailFacts DEF Incoming
<1>3. toServer' \in [Epochs -> Seq(ClientPacket)]
  BY <1>1, <1>2 DEF Read
<1>4. bound' \in BOOLEAN
  BY DEF Read, TypeOK
<1> QED BY <1>2, <1>3, <1>4 DEF ClientPacket

\* The session after a packet was accepted.
LEMMA AcceptType ==
  ASSUME TypeOK, NEW p \in ClientPacket, Accept(p)
  PROVE  session' \in Session /\ session'.salt \in Nat
<1>1. session \in Session
  BY DEF TypeOK
<1>2. p.m.seq \in Nat /\ p.m.init \in BOOLEAN
  BY MessageFacts DEF ClientPacket
<1> QED BY <1>1, <1>2 DEF Accept, Session

\* The steps of the server keep the types.
LEMMA ServerTypes ==
  ASSUME TypeOK,
         \/ \E e \in Epochs : ServerDropsConnection(e) \/ ServerReceive(e)
         \/ RotateSalt \/ ExpireOldSalt
         \/ \E s \in started, ok \in BOOLEAN : RunOperation(s, ok)
         \/ SendUpdates
  PROVE  TypeOK'
<1> USE OpsAssumption, BoundAssumption
<1>0. session \in Session /\ session.salt \in Nat
  BY DEF TypeOK, Session
<1>00. session.salt + 1 \in Nat
  BY <1>0
<1>1. ASSUME NEW e \in Epochs, ServerDropsConnection(e) PROVE TypeOK'
  <2>1. toServer' \in [Epochs -> Seq(ClientPacket)]
    BY <1>1 DEF ServerDropsConnection, TypeOK
  <2> QED BY <1>1, <2>1 DEF ServerDropsConnection, TypeOK, client, account, sLayer
<1>2. ASSUME NEW e \in Epochs, IgnoreMessage(e) PROVE TypeOK'
  <2>1. HeaderError(Incoming(e)) \in ErrorCodes
    BY DEF HeaderError, ErrorCodes
  <2>2. toClient' \in Seq(ServerPacket) /\ sLastId' \in Nat /\ sContent' \in Nat
    BY <1>0, <1>2, <2>1, ReadType, ReplyType DEF IgnoreMessage
  <2> QED BY <1>2, <2>2, ReadType DEF IgnoreMessage, Read, TypeOK, client, account
<1>3. ASSUME NEW e \in Epochs, ProcessPing(e) PROVE TypeOK'
  <2>0. Read(e) /\ Accept(Incoming(e)) /\ Incoming(e) \in ClientPacket /\ Incoming(e).id \in Nat
    BY <1>3, ReadType DEF ProcessPing
  <2>1. session' \in Session /\ session'.salt \in Nat
    BY <2>0, AcceptType
  <2>2. Incoming(e).m.op \in Ops \cup {NoOp}
    BY <2>0, ReadType, MessageFacts
  <2>3. "none" \in ErrorCodes
    BY DEF ErrorCodes
  <2>4. toClient' \in Seq(ServerPacket) /\ sLastId' \in Nat /\ sContent' \in Nat
    BY <1>3, <2>0, <2>1, <2>2, <2>3, ReplyType DEF ProcessPing
  <2>5. executed' \in [Ops -> Nat]
    BY <1>3, <2>2 DEF ProcessPing, TypeOK
  <2> QED BY <1>3, <2>0, <2>1, <2>4, <2>5, ReadType
          DEF ProcessPing, Read, TypeOK, client, account
<1>4. ASSUME NEW e \in Epochs, ProcessMessageAck(e) PROVE TypeOK'
  <2>0. Read(e) /\ Accept(Incoming(e)) /\ Incoming(e) \in ClientPacket
    BY <1>4, ReadType DEF ProcessMessageAck
  <2>1. session' \in Session
    BY <2>0, AcceptType
  <2>2. IsMap(toConfirm', Ops)
    <3>1. IsMap(toConfirm, Ops)
      BY DEF TypeOK
    <3> QED BY <1>4, <3>1 DEF ProcessMessageAck, IsMap, Restrict
  <2> QED BY <1>4, <2>0, <2>1, <2>2, ReadType
          DEF ProcessMessageAck, NoReply, Read, TypeOK, client, account
<1>5. ASSUME NEW e \in Epochs, RejectUnauthorized(e) PROVE TypeOK'
  <2>0. Read(e) /\ Accept(Incoming(e)) /\ Incoming(e) \in ClientPacket /\ Incoming(e).id \in Nat
    BY <1>5, ReadType DEF RejectUnauthorized
  <2>1. session' \in Session /\ session'.salt \in Nat
    BY <2>0, AcceptType
  <2>2. Incoming(e).m.op \in Ops \cup {NoOp}
    BY <2>0, ReadType, MessageFacts
  <2>3. "none" \in ErrorCodes
    BY DEF ErrorCodes
  <2>4. toClient' \in Seq(ServerPacket) /\ sLastId' \in Nat /\ sContent' \in Nat
    BY <1>5, <2>0, <2>1, <2>2, <2>3, ReplyType DEF RejectUnauthorized
  <2> QED BY <1>5, <2>0, <2>1, <2>4, ReadType
          DEF RejectUnauthorized, Read, TypeOK, client, account
<1>6. ASSUME NEW e \in Epochs, StartOperation(e) PROVE TypeOK'
  <2>0. Read(e) /\ Accept(Incoming(e)) /\ Incoming(e) \in ClientPacket /\ Incoming(e).id \in Nat
    BY <1>6, ReadType DEF StartOperation
  <2>1. session' \in Session
    BY <2>0, AcceptType
  <2>2. Incoming(e).m.op \in Ops
    BY <1>6, <2>0, ReadType, MessageFacts DEF StartOperation
  <2>3. started' \in SUBSET Started
    <3>1. started \in SUBSET Started
      BY DEF TypeOK
    <3>2. [epoch |-> e, id |-> Incoming(e).id, op |-> Incoming(e).m.op] \in Started
      BY <2>0, <2>2 DEF Started, Epochs
    <3> QED BY <1>6, <3>1, <3>2 DEF StartOperation
  <2> QED BY <1>6, <2>0, <2>1, <2>3, ReadType
          DEF StartOperation, NoReply, Read, TypeOK, client, account
<1>7. ASSUME NEW e \in Epochs, NotProcessed(e) PROVE TypeOK'
  <2>0. Read(e) /\ Accept(Incoming(e)) /\ Incoming(e) \in ClientPacket
    BY <1>7, ReadType DEF NotProcessed
  <2>1. session' \in Session
    BY <2>0, AcceptType
  <2> QED BY <1>7, <2>0, <2>1, ReadType
          DEF NotProcessed, NoReply, Read, TypeOK, client, account
<1>8. ASSUME RotateSalt PROVE TypeOK'
  <2>1. session' \in Session
    <3>1. session' = [session EXCEPT !.salt = session.salt + 1, !.oldSalt = session.salt]
      BY <1>8 DEF RotateSalt
    <3> QED BY <1>0, <1>00, <3>1 DEF Session
  <2> QED BY <1>8, <2>1 DEF RotateSalt, TypeOK, client, account, sLayer
<1>9. ASSUME ExpireOldSalt PROVE TypeOK'
  <2>1. session' \in Session
    BY <1>0, <1>9 DEF ExpireOldSalt, Session
  <2> QED BY <1>9, <2>1 DEF ExpireOldSalt, TypeOK, client, account, sLayer
<1>10. ASSUME NEW s \in started, NEW ok \in BOOLEAN, RunOperation(s, ok) PROVE TypeOK'
  <2>0. s \in Started /\ started \in SUBSET Started
    BY DEF TypeOK
  <2>1. s.id \in Nat /\ s.op \in Ops /\ s.op \in Ops \cup {NoOp} /\ s.epoch \in Epochs
    BY <2>0 DEF Started, Epochs
  <2>2. session' \in Session /\ session'.salt \in Nat
    BY <1>0, <1>10 DEF RunOperation, Session
  <2>3. "none" \in ErrorCodes
    BY DEF ErrorCodes
  <2>4. toClient' \in Seq(ServerPacket) /\ sLastId' \in Nat /\ sContent' \in Nat
    <3>1. Reply(s.epoch, TRUE, "result", s.id, s.op, ok, "none")
      BY <1>10 DEF RunOperation
    <3>2. CASE ok = TRUE
      BY <2>1, <2>2, <2>3, <3>1, <3>2, ReplyType
    <3>3. CASE ok = FALSE
      BY <2>1, <2>2, <2>3, <3>1, <3>3, ReplyType
    <3> QED BY <3>2, <3>3
  <2>5. IsMap(toConfirm', Ops)
    <3>1. IsMap(toConfirm, Ops)
      BY DEF TypeOK
    <3> QED BY <1>10, <2>1, <2>4, <3>1, InsertFacts DEF RunOperation
  <2>6. executed' \in [Ops -> Nat] /\ started' \in SUBSET Started
    <3>1. executed \in [Ops -> Nat]
      BY DEF TypeOK
    <3> QED BY <1>10, <2>0, <2>1, <3>1 DEF RunOperation
  <2> QED BY <1>10, <2>2, <2>4, <2>5, <2>6 DEF RunOperation, TypeOK, client, account
<1>11. ASSUME SendUpdates PROVE TypeOK'
  <2>1. "none" \in ErrorCodes
    BY DEF ErrorCodes
  <2>2. toClient' \in Seq(ServerPacket) /\ sLastId' \in Nat /\ sContent' \in Nat
    BY <1>0, <1>11, <2>1, ReplyType DEF SendUpdates
  <2>3. updates' \in Nat
    BY <1>11 DEF SendUpdates, TypeOK
  <2> QED BY <1>11, <2>2, <2>3 DEF SendUpdates, TypeOK, client, account
<1> QED BY <1>1, <1>2, <1>3, <1>4, <1>5, <1>6, <1>7, <1>8, <1>9, <1>10, <1>11
        DEF ServerReceive

\* The initial state has the types.
LEMMA InitTypes ==
  ASSUME Init
  PROVE  TypeOK
<1>1. toServer \in [Epochs -> Seq(ClientPacket)] /\ toClient \in Seq(ServerPacket)
  BY DEF Init
<1>2. session \in Session /\ epoch \in Epochs
  BY BoundAssumption DEF Init, Session, Epochs
<1>3. opState \in [Ops -> OpStates] /\ executed \in [Ops -> Nat]
  BY DEF Init, OpStates
<1> QED BY <1>1, <1>2, <1>3, NoneFacts DEF Init, TypeOK

\* Every step keeps the types.
LEMMA StepTypes ==
  ASSUME TypeOK, [Next]_vars
  PROVE  TypeOK'
<1>1. CASE Next
  BY <1>1, ClientTypes, ServerTypes DEF Next
<1>2. CASE UNCHANGED vars
  BY <1>2 DEF vars, client, account, sLayer, TypeOK
<1> QED BY <1>1, <1>2

\* Every variable keeps its type, however many operations, salts, connections
\* and crashes there are.
THEOREM TypeCorrect == Spec => []TypeOK
<1>1. Init => TypeOK
  BY InitTypes
<1>2. TypeOK /\ [Next]_vars => TypeOK'
  BY StepTypes
<1> QED BY <1>1, <1>2, PTL DEF Spec
-----------------------------------------------------------------------------
(***************************************************************************)
(* What the steps do to the queues.                                        *)
(***************************************************************************)

\* sendPacket adds one packet to the current connection.
LEMMA SentFacts ==
  ASSUME TypeOK, NEW id \in Nat, NEW salt \in Nat, NEW m \in Message,
         SendPacket(Packet(id, salt, m))
  PROVE  \A e \in Epochs : \A k \in 1..Len(toServer'[e]) :
           \/ \E j \in 1..Len(toServer[e]) : toServer'[e][k] = toServer[e][j]
           \/ toServer'[e][k].id = id /\ toServer'[e][k].m = m
<1>1. Packet(id, salt, m) \in ClientPacket /\ Packet(id, salt, m).id = id
      /\ Packet(id, salt, m).m = m
  BY DEF Packet, ClientPacket
<1>2. toServer \in [Epochs -> Seq(ClientPacket)] /\ epoch \in Epochs
  BY DEF TypeOK
<1>3. /\ toServer'[epoch] = Append(toServer[epoch], Packet(id, salt, m))
      /\ \A e \in Epochs : e # epoch => toServer'[e] = toServer[e]
  BY <1>2 DEF SendPacket
<1>4. \A k \in 1..Len(toServer'[epoch]) :
        \/ k \in 1..Len(toServer[epoch]) /\ toServer'[epoch][k] = toServer[epoch][k]
        \/ toServer'[epoch][k] = Packet(id, salt, m)
  BY <1>1, <1>2, <1>3, AppendFacts
<1> SUFFICES ASSUME NEW e \in Epochs, NEW k \in 1..Len(toServer'[e])
             PROVE  \/ \E j \in 1..Len(toServer[e]) : toServer'[e][k] = toServer[e][j]
                    \/ toServer'[e][k].id = id /\ toServer'[e][k].m = m
  OBVIOUS
<1>5. CASE e = epoch
  BY <1>1, <1>4, <1>5
<1>6. CASE e # epoch
  BY <1>3, <1>6
<1> QED BY <1>5, <1>6

\* The client takes the first packet of its queue.
LEMMA ReceivedFacts ==
  ASSUME TypeOK, NEW kind, ReceivePacket(kind)
  PROVE  /\ 1 \in 1..Len(toClient) /\ Received = toClient[1]
         /\ \A k \in 1..Len(toClient') :
              \E j \in 1..Len(toClient) : toClient'[k] = toClient[j]
<1>1. toClient \in Seq(ServerPacket) /\ toClient # <<>> /\ toClient' = Tail(toClient)
  BY DEF TypeOK, ReceivePacket
<1>2. \A i \in 1..Len(Tail(toClient)) :
         i + 1 \in 1..Len(toClient) /\ Tail(toClient)[i] = toClient[i + 1]
  BY <1>1, TailFacts
<1>3. 1 \in 1..Len(toClient) /\ Received = toClient[1]
  BY <1>1, TailFacts DEF Received
<1> QED BY <1>1, <1>2, <1>3

\* The server takes the first packet of a connection's queue.
LEMMA ReadFacts ==
  ASSUME TypeOK, NEW e \in Epochs, Read(e)
  PROVE  /\ 1 \in 1..Len(toServer[e]) /\ Incoming(e) = toServer[e][1]
         /\ \A f \in Epochs : \A k \in 1..Len(toServer'[f]) :
              \E j \in 1..Len(toServer[f]) : toServer'[f][k] = toServer[f][j]
<1>1. toServer \in [Epochs -> Seq(ClientPacket)] /\ toServer[e] # <<>>
  BY DEF TypeOK, Read
<1>2. /\ toServer'[e] = Tail(toServer[e])
      /\ \A f \in Epochs : f # e => toServer'[f] = toServer[f]
  BY <1>1 DEF Read
<1>3. toServer[e] \in Seq(ClientPacket)
  BY <1>1
<1>4. \A i \in 1..Len(Tail(toServer[e])) :
         i + 1 \in 1..Len(toServer[e]) /\ Tail(toServer[e])[i] = toServer[e][i + 1]
  BY <1>1, <1>3, TailFacts
<1>5. 1 \in 1..Len(toServer[e]) /\ Incoming(e) = toServer[e][1]
  BY <1>1, <1>3, TailFacts DEF Incoming
<1>6. ASSUME NEW f \in Epochs, NEW k \in 1..Len(toServer'[f])
      PROVE  \E j \in 1..Len(toServer[f]) : toServer'[f][k] = toServer[f][j]
  <2>1. CASE f = e
    BY <1>2, <1>4, <2>1
  <2>2. CASE f # e
    BY <1>2, <2>2
  <2> QED BY <2>1, <2>2
<1> QED BY <1>5, <1>6
-----------------------------------------------------------------------------
(***************************************************************************)
(* The counter.  As long as every connection was Signed when it ended, no  *)
(* message that was sent or is kept for resending, and so none the server  *)
(* has accepted, is ahead of the client's counter; and when there is no    *)
(* connection the stored counter is the last one.                          *)
(***************************************************************************)
SentSeq ==
  \A e \in Epochs : \A k \in 1..Len(toServer[e]) : toServer[e][k].m.seq <= 2 * content

KeptSeq == \A i \in DOMAIN messages : messages[i].seq <= 2 * content

CounterSaved ==
  /\ SentSeq /\ KeptSeq
  /\ session.lastSeq <= 2 * content
  /\ ~up => stored = content

CounterKept == ~unsaved => CounterSaved

\* The values the counters are compared with.
LEMMA SeqTypes ==
  ASSUME TypeOK
  PROVE  /\ content \in Nat /\ session.lastSeq \in Nat
         /\ \A e \in Epochs : \A k \in 1..Len(toServer[e]) :
              toServer[e][k] \in ClientPacket /\ toServer[e][k].m.seq \in Nat
         /\ \A i \in DOMAIN messages : messages[i] \in Message /\ messages[i].seq \in Nat
<1>1. content \in Nat /\ session.lastSeq \in Nat
  BY DEF TypeOK, Session
<1>2. ASSUME NEW e \in Epochs, NEW k \in 1..Len(toServer[e])
      PROVE  toServer[e][k] \in ClientPacket /\ toServer[e][k].m.seq \in Nat
  <2>1. toServer[e] \in Seq(ClientPacket)
    BY DEF TypeOK
  <2>2. toServer[e][k] \in ClientPacket
    BY <2>1
  <2>3. toServer[e][k].m \in Message
    BY <2>2 DEF ClientPacket
  <2> QED BY <2>2, <2>3, MessageFacts
<1>3. ASSUME NEW i \in DOMAIN messages
      PROVE  messages[i] \in Message /\ messages[i].seq \in Nat
  <2>1. messages[i] \in Message
    BY DEF TypeOK, IsMap
  <2> QED BY <2>1, MessageFacts
<1> QED BY <1>1, <1>2, <1>3

\* The sequence numbers a step adds are not ahead of the counter it leaves.
LEMMA SeqKept ==
  ASSUME TypeOK, TypeOK', CounterSaved, content <= content',
         \A e \in Epochs : \A k \in 1..Len(toServer'[e]) :
           \/ \E j \in 1..Len(toServer[e]) : toServer'[e][k] = toServer[e][j]
           \/ toServer'[e][k].m.seq <= 2 * content',
         \A i \in DOMAIN messages' :
           \/ i \in DOMAIN messages /\ messages'[i] = messages[i]
           \/ messages'[i].seq <= 2 * content',
         session'.lastSeq <= 2 * content' \/ session'.lastSeq = session.lastSeq,
         ~up' => stored' = content'
  PROVE  CounterSaved'
<1>1. content \in Nat /\ content' \in Nat /\ session.lastSeq \in Nat
  BY SeqTypes DEF TypeOK
<1>2. SentSeq'
  <2> SUFFICES ASSUME NEW e \in Epochs, NEW k \in 1..Len(toServer'[e]),
                      NEW j \in 1..Len(toServer[e]), toServer'[e][k] = toServer[e][j]
               PROVE  toServer'[e][k].m.seq <= 2 * content'
    BY DEF SentSeq
  <2>1. toServer[e][j].m.seq \in Nat /\ toServer[e][j].m.seq <= 2 * content
    BY SeqTypes DEF CounterSaved, SentSeq
  <2> QED BY <1>1, <2>1
<1>3. KeptSeq'
  <2> SUFFICES ASSUME NEW i \in DOMAIN messages, messages'[i] = messages[i]
               PROVE  messages'[i].seq <= 2 * content'
    BY DEF KeptSeq
  <2>1. messages[i].seq \in Nat /\ messages[i].seq <= 2 * content
    BY SeqTypes DEF CounterSaved, KeptSeq
  <2> QED BY <1>1, <2>1
<1>4. session'.lastSeq <= 2 * content'
  BY <1>1 DEF CounterSaved
<1> QED BY <1>2, <1>3, <1>4 DEF CounterSaved

\* What the steps of the server leave alone.
LEMMA ServerCounter ==
  ASSUME TypeOK, TypeOK', CounterSaved,
         UNCHANGED <<up, content, messages, stored>>,
         \A e \in Epochs : \A k \in 1..Len(toServer'[e]) :
           \E j \in 1..Len(toServer[e]) : toServer'[e][k] = toServer[e][j],
         session'.lastSeq <= 2 * content \/ session'.lastSeq = session.lastSeq
  PROVE  CounterSaved'
<1>1. content \in Nat
  BY DEF TypeOK
<1>2. ~up' => stored' = content'
  BY DEF CounterSaved
<1> QED BY <1>1, <1>2, SeqKept

\* An accepted packet moves lastSequenceNumber to a number that was sent.
LEMMA AcceptCounter ==
  ASSUME TypeOK, TypeOK', CounterSaved, NEW e \in Epochs, Read(e),
         UNCHANGED session \/ Accept(Incoming(e))
  PROVE  CounterSaved'
<1>1. UNCHANGED <<up, content, messages, stored>>
  BY DEF Read, client, account
<1>2. session'.lastSeq <= 2 * content \/ session'.lastSeq = session.lastSeq
  <2>1. CASE Accept(Incoming(e))
    <3>1. session'.lastSeq = Incoming(e).m.seq
      BY <2>1 DEF Accept, TypeOK, Session
    <3>2. Incoming(e).m.seq <= 2 * content
      BY ReadFacts DEF CounterSaved, SentSeq
    <3> QED BY <3>1, <3>2
  <2> QED BY <2>1
<1> QED BY <1>1, <1>2, ReadFacts, ServerCounter

\* The steps of the server keep the counter ahead.
LEMMA ServerKeepsCounter ==
  ASSUME TypeOK, TypeOK', CounterSaved,
         \/ \E e \in Epochs : ServerDropsConnection(e) \/ ServerReceive(e)
         \/ RotateSalt \/ ExpireOldSalt
         \/ \E s \in started, ok \in BOOLEAN : RunOperation(s, ok)
         \/ SendUpdates
  PROVE  CounterSaved'
<1>1. ASSUME NEW e \in Epochs, ServerDropsConnection(e) PROVE CounterSaved'
  <2>1. toServer \in [Epochs -> Seq(ClientPacket)]
    BY DEF TypeOK
  <2>2. \A f \in Epochs : toServer'[f] = IF f = e THEN <<>> ELSE toServer[f]
    BY <1>1, <2>1 DEF ServerDropsConnection
  <2>3. UNCHANGED <<up, content, messages, stored, session>>
    BY <1>1 DEF ServerDropsConnection, client, account
  <2>4. \A f \in Epochs : \A k \in 1..Len(toServer'[f]) :
          \E j \in 1..Len(toServer[f]) : toServer'[f][k] = toServer[f][j]
    BY <2>1, <2>2
  <2> QED BY <2>3, <2>4, ServerCounter
<1>2. ASSUME NEW e \in Epochs, ServerReceive(e) PROVE CounterSaved'
  <2>1. Read(e) /\ (UNCHANGED session \/ Accept(Incoming(e)))
    BY <1>2 DEF ServerReceive, IgnoreMessage, ProcessPing, ProcessMessageAck,
                RejectUnauthorized, StartOperation, NotProcessed
  <2> QED BY <2>1, AcceptCounter
<1>3. ASSUME \/ RotateSalt \/ ExpireOldSalt
             \/ \E s \in started, ok \in BOOLEAN : RunOperation(s, ok)
             \/ SendUpdates
      PROVE  CounterSaved'
  <2>1. UNCHANGED <<up, content, messages, stored, toServer>>
    BY <1>3 DEF RotateSalt, ExpireOldSalt, RunOperation, SendUpdates, client, account
  <2>2. session'.lastSeq = session.lastSeq
    BY <1>3 DEF RotateSalt, ExpireOldSalt, RunOperation, SendUpdates, TypeOK, Session
  <2> QED BY <2>1, <2>2, ServerCounter
<1> QED BY <1>1, <1>2, <1>3

\* The number of a new message is not ahead of the counter after it is sent.
LEMMA SendCounter ==
  ASSUME TypeOK, TypeOK', CounterSaved, NEW salt \in Nat, NEW m \in Message,
         content <= content', m.seq <= 2 * content',
         SendPacket(Packet(NewMessageId(lastId), salt, m)),
         \A i \in DOMAIN messages' :
           \/ i \in DOMAIN messages /\ messages'[i] = messages[i]
           \/ messages'[i] = m,
         up, UNCHANGED <<up, session>>
  PROVE  CounterSaved'
<1>1. \A e \in Epochs : \A k \in 1..Len(toServer'[e]) :
        \/ \E j \in 1..Len(toServer[e]) : toServer'[e][k] = toServer[e][j]
        \/ toServer'[e][k].m = m
  BY IdFacts, SentFacts
<1> QED BY <1>1, SeqKept

\* The messages kept after one was inserted under a new id.
LEMMA InsertedMessages ==
  ASSUME NEW f, NEW k, NEW m, NEW g, g = Insert(f, k, m)
  PROVE  \A i \in DOMAIN g : (i \in DOMAIN f /\ g[i] = f[i]) \/ g[i] = m
BY DEF Insert

\* sendRpc and acknowledgeMessages.
LEMMA SendKeepsCounter ==
  ASSUME TypeOK, TypeOK', CounterSaved,
         (\E o \in Ops : SendRpc(o)) \/ AcknowledgeMessages
  PROVE  CounterSaved'
<1>1. content \in Nat /\ serverSalt \in Nat
  BY DEF TypeOK
<1>2. ASSUME NEW o \in Ops, SendRpc(o) PROVE CounterSaved'
  <2>1. /\ up /\ UNCHANGED <<up, session>>
        /\ messages' = Insert(messages, NewMessageId(lastId), RpcMessage(o))
        /\ SendPacket(Packet(NewMessageId(lastId), serverSalt, RpcMessage(o)))
    BY <1>2 DEF SendRpc
  <2>2. RpcMessage(o) \in Message
    BY BuiltMessages
  <2>3. content <= content' /\ RpcMessage(o).seq <= 2 * content'
    BY <1>1, <1>2 DEF SendRpc, RpcMessage, RpcSeq
  <2> QED BY <1>1, <2>1, <2>2, <2>3, InsertedMessages, SendCounter
<1>3. ASSUME AcknowledgeMessages PROVE CounterSaved'
  <2>1. /\ up /\ UNCHANGED <<up, session, content>>
        /\ messages' = Insert(messages, NewMessageId(lastId), AckMessage)
        /\ SendPacket(Packet(NewMessageId(lastId), serverSalt, AckMessage))
    BY <1>3 DEF AcknowledgeMessages
  <2>2. AckMessage \in Message
    BY BuiltMessages
  <2>3. content <= content' /\ AckMessage.seq <= 2 * content'
    BY <1>1, <2>1 DEF AckMessage
  <2> QED BY <1>1, <2>1, <2>2, <2>3, InsertedMessages, SendCounter
<1> QED BY <1>2, <1>3

\* A notification moves the counter past the number of the message.
LEMMA NoticedCounter ==
  ASSUME NEW code, NEW seq \in Nat, content \in Nat, seq <= 2 * content \/ code = "SequenceNumberTooLow"
  PROVE  content <= NoticedContent(code, seq) /\ seq <= 2 * NoticedContent(code, seq)
<1>1. seq \div 2 \in Nat /\ seq <= 2 * (seq \div 2) + 1
  OBVIOUS
<1> DEFINE half == seq \div 2
<1> HIDE DEF half
<1> QED BY <1>1 DEF NoticedContent

\* processIgnoredMessageNotification.
LEMMA NoticeKeepsCounter ==
  ASSUME TypeOK, TypeOK', CounterSaved, ProcessIgnoredMessageNotification
  PROVE  CounterSaved'
<1> DEFINE old == Received.re
           m   == ResentMessage(Received.code, messages[old])
<1>1. /\ up /\ UNCHANGED <<up, session, stored>> /\ ReceivePacket("notice")
      /\ content \in Nat /\ Received.salt \in Nat
  <2>1. up /\ UNCHANGED <<up, session, stored>> /\ ReceivePacket("notice")
    BY DEF ProcessIgnoredMessageNotification, ReceivePacket, account
  <2> QED BY <2>1, ReceiveType DEF TypeOK
<1>2. CASE old \in DOMAIN messages
  <2>1. /\ messages[old] \in Message /\ messages[old].seq \in Nat
        /\ messages[old].seq <= 2 * content
    BY <1>2, SeqTypes DEF CounterSaved, KeptSeq
  <2>2. m \in Message /\ m.seq \in Nat
    BY <2>1, MessageFacts
  <2>3. m.seq = NoticedSeq(Received.code, messages[old].seq)
    BY <2>1 DEF ResentMessage, Message
  <2>4. m.seq <= 2 * content \/ Received.code = "SequenceNumberTooLow"
    BY <2>1, <2>3 DEF NoticedSeq
  <2>5. content' = NoticedContent(Received.code, m.seq)
    BY <1>2 DEF ProcessIgnoredMessageNotification
  <2>6. \/ Resend(old, m)
        \/ messages' = Drop(messages, old) /\ UNCHANGED toServer
    BY DEF ProcessIgnoredMessageNotification
  <2> HIDE DEF m, old
  <2>7. content <= content' /\ m.seq <= 2 * content'
    BY <1>1, <2>2, <2>4, <2>5, NoticedCounter
  <2>8. \A i \in DOMAIN Drop(messages, old) :
          i \in DOMAIN messages /\ Drop(messages, old)[i] = messages[i]
    BY DEF Drop, Restrict
  <2>9. CASE Resend(old, m)
    <3>1. /\ messages' = Insert(Drop(messages, old), NewMessageId(lastId), m)
          /\ SendPacket(Packet(NewMessageId(lastId), Received.salt, m))
      BY <2>9 DEF Resend
    <3>2. \A i \in DOMAIN messages' :
            (i \in DOMAIN messages /\ messages'[i] = messages[i]) \/ messages'[i] = m
      BY <2>8, <3>1, InsertedMessages
    <3> QED BY <1>1, <2>2, <2>7, <3>1, <3>2, SendCounter
  <2>10. CASE messages' = Drop(messages, old) /\ UNCHANGED toServer
    BY <1>1, <2>7, <2>8, <2>10, SeqKept
  <2> QED BY <2>6, <2>9, <2>10
<1>3. CASE old \notin DOMAIN messages
  <2>1. /\ UNCHANGED <<content, toServer>> /\ messages' = Drop(messages, old)
    BY <1>3 DEF ProcessIgnoredMessageNotification
  <2>2. \A i \in DOMAIN messages' : i \in DOMAIN messages /\ messages'[i] = messages[i]
    BY <2>1 DEF Drop, Restrict
  <2> QED BY <1>1, <2>1, <2>2, SeqKept
<1> QED BY <1>2, <1>3

\* The counter invariant is inductive.
LEMMA StepCounter ==
  ASSUME TypeOK, TypeOK', CounterKept, [Next]_vars
  PROVE  CounterKept'
<1> SUFFICES ASSUME ~unsaved' PROVE CounterSaved'
  BY DEF CounterKept
<1>1. CASE ClientCrash
  BY <1>1 DEF ClientCrash
<1>2. CASE ConnectionLost
  <2>1. /\ ~unsaved /\ stored' = content /\ DOMAIN messages' = {}
        /\ UNCHANGED <<content, toServer, session>>
    BY <1>2, NoneFacts DEF ConnectionLost, LayersGone
  <2> QED BY <2>1 DEF CounterKept, CounterSaved, SentSeq, KeptSeq
<1>3. CASE Resume
  <2>1. /\ unsaved' = unsaved /\ content' = stored /\ ~up /\ up'
        /\ UNCHANGED <<messages, toServer, session>>
    BY <1>3 DEF Resume, account
  <2> QED BY <2>1 DEF CounterKept, CounterSaved, SentSeq, KeptSeq
<1>4. ASSUME \/ \E o \in Ops : SendRpc(o)
             \/ AcknowledgeMessages \/ ClientReceive
             \/ \E e \in Epochs : ServerDropsConnection(e) \/ ServerReceive(e)
             \/ RotateSalt \/ ExpireOldSalt
             \/ \E s \in started, ok \in BOOLEAN : RunOperation(s, ok)
             \/ SendUpdates
      PROVE  CounterSaved'
  <2>1. UNCHANGED unsaved
    BY <1>4 DEF SendRpc, AcknowledgeMessages, ClientReceive, ProcessUpdates, ProcessRpcResult,
       ProcessPong, ProcessIgnoredMessageNotification, ServerDropsConnection, ServerReceive,
       IgnoreMessage, ProcessPing, ProcessMessageAck, RejectUnauthorized, StartOperation,
       NotProcessed, Read, RotateSalt, ExpireOldSalt, RunOperation, SendUpdates, account
  <2>2. CounterSaved
    BY <2>1 DEF CounterKept
  <2>3. CASE ProcessUpdates \/ ProcessRpcResult \/ ProcessPong
    <3>1. up /\ UNCHANGED <<up, content, messages, session, toServer>>
      BY <2>3 DEF ProcessUpdates, ProcessRpcResult, ProcessPong, ReceivePacket
    <3> QED BY <2>2, <3>1 DEF CounterSaved, SentSeq, KeptSeq
  <2> QED BY <1>4, <2>2, <2>3, SendKeepsCounter, NoticeKeepsCounter, ServerKeepsCounter
          DEF ClientReceive
<1>5. CASE UNCHANGED vars
  BY <1>5 DEF vars, client, account, CounterKept, CounterSaved, SentSeq, KeptSeq
<1> QED BY <1>1, <1>2, <1>3, <1>4, <1>5 DEF Next

\* As long as every connection was Signed when it ended, the counter the client
\* resumes from is not behind the server's lastSequenceNumber, however many
\* connections, operations and resent messages there are.
THEOREM CounterAhead == Spec => []CounterNotBehind
<1>1. Init => CounterKept
  <2> SUFFICES ASSUME Init PROVE CounterKept
    OBVIOUS
  <2>1. /\ toServer = [e \in Epochs |-> <<>>] /\ DOMAIN messages = {} /\ up
        /\ content = 0 /\ session.lastSeq = 0
    BY NoneFacts DEF Init
  <2> QED BY <2>1 DEF CounterKept, CounterSaved, SentSeq, KeptSeq
<1>2. TypeOK /\ TypeOK' /\ CounterKept /\ [Next]_vars => CounterKept'
  BY StepCounter
<1>3. CounterKept => CounterNotBehind
  BY DEF CounterKept, CounterSaved, CounterNotBehind
<1> QED BY <1>1, <1>2, <1>3, TypeCorrect, PTL DEF Spec
-----------------------------------------------------------------------------
(***************************************************************************)
(* InitConnection.  Until the server knows the client's layer it has read  *)
(* nothing: the first packet of the first connection carries               *)
(* InitConnection, the salt of the key exchange and the first id, so that  *)
(* the server cannot ignore it.                                            *)
(***************************************************************************)

\* The packet that introduces the client.
Introduction(p) == p.id = 4 /\ p.salt = 1 /\ p.m.seq = 1 /\ p.m.init /\ p.m.op \in Ops

NothingRun == started = {} /\ \A o \in Ops : executed[o] = 0

NothingAnswered ==
  /\ epoch = 1 /\ stored = 0 /\ ~signed /\ ~bound
  /\ toClient = <<>> /\ messagesToAck = {} /\ serverSalt = 1
  /\ session.salt = 1 /\ session.lastSeq = 0

IntroductionFirst ==
  /\ \A e \in Epochs : toServer[e] # <<>> => e = 1
  /\ up /\ content = 0 => lastId = 0 /\ toServer[1] = <<>>
  /\ up /\ content # 0 => toServer[1] # <<>>
  /\ toServer[1] # <<>> => Introduction(Head(toServer[1]))

FirstContact == NothingRun /\ NothingAnswered /\ IntroductionFirst

LayerKept == session.layer \/ FirstContact

\* The first packet of a queue stays the first one when another is sent.
LEMMA AppendHead ==
  ASSUME NEW S, NEW s \in Seq(S), NEW x \in S
  PROVE  /\ Append(s, x) # <<>>
         /\ s # <<>> => Head(Append(s, x)) = Head(s)
         /\ s = <<>> => Head(Append(s, x)) = x
OBVIOUS

\* The first call of a session carries InitConnection.
LEMMA SendIntroduction ==
  ASSUME TypeOK, TypeOK', FirstContact, NEW o \in Ops, SendRpc(o)
  PROVE  FirstContact'
<1> DEFINE p == Packet(NewMessageId(lastId), serverSalt, RpcMessage(o))
<1>1. /\ toServer \in [Epochs -> Seq(ClientPacket)] /\ content \in Nat /\ epoch = 1
      /\ 1 \in Epochs /\ up /\ up' /\ serverSalt = 1
  BY DEF TypeOK, FirstContact, NothingAnswered, SendRpc
<1>2. p \in ClientPacket /\ p.m = RpcMessage(o) /\ p.id = NewMessageId(lastId) /\ p.salt = 1
  <2>1. NewMessageId(lastId) \in Nat /\ RpcMessage(o) \in Message
    BY IdFacts, BuiltMessages
  <2> QED BY <1>1, <2>1 DEF Packet, ClientPacket
<1>3. toServer' = [toServer EXCEPT ![1] = Append(toServer[1], p)]
  BY <1>1 DEF SendRpc, SendPacket
<1>4. content = 0 => p.id = 4 /\ p.m.seq = 1 /\ p.m.init /\ p.m.op \in Ops
  <2> SUFFICES ASSUME content = 0
               PROVE  p.id = 4 /\ p.m.seq = 1 /\ p.m.init /\ p.m.op \in Ops
    OBVIOUS
  <2>1. IsContent(o) /\ lastId = 0
    BY <1>1 DEF SendRpc, FirstContact, IntroductionFirst
  <2>2. RpcSeq(o) = 1
    BY <2>1 DEF RpcSeq
  <2>3. NeedsInit(RpcSeq(o)) = TRUE
    BY <2>2 DEF NeedsInit
  <2>4. RpcMessage(o) = [seq |-> 1, op |-> o, init |-> TRUE, ids |-> {}]
    BY <2>2, <2>3 DEF RpcMessage
  <2> QED BY <1>2, <2>1, <2>4 DEF NewMessageId
<1>5. content' # 0
  BY <1>1 DEF SendRpc
<1> HIDE DEF p
<1>6. /\ toServer'[1] = Append(toServer[1], p)
      /\ \A e \in Epochs : e # 1 => toServer'[e] = toServer[e]
  BY <1>1, <1>3
<1>7. toServer'[1] # <<>>
  BY <1>1, <1>2, <1>6, AppendHead
<1>8. Introduction(Head(toServer'[1]))
  <2>1. CASE content = 0
    <3>1. toServer[1] = <<>>
      BY <1>1, <2>1 DEF FirstContact, IntroductionFirst
    <3>2. Head(toServer'[1]) = p
      BY <1>1, <1>2, <1>6, <3>1, AppendHead
    <3> QED BY <1>2, <1>4, <2>1, <3>2 DEF Introduction
  <2>2. CASE content # 0
    <3>1. toServer[1] # <<>> /\ Introduction(Head(toServer[1]))
      BY <1>1, <2>2 DEF FirstContact, IntroductionFirst
    <3>2. Head(toServer'[1]) = Head(toServer[1])
      BY <1>1, <1>2, <1>6, <3>1, AppendHead
    <3> QED BY <3>1, <3>2 DEF Introduction
  <2> QED BY <2>1, <2>2
<1>9. IntroductionFirst'
  <2>1. \A e \in Epochs : toServer'[e] # <<>> => e = 1
    BY <1>6 DEF FirstContact, IntroductionFirst
  <2>2. Introduction(Head(toServer[1]))'
    BY <1>8 DEF Introduction
  <2> QED BY <1>1, <1>5, <1>7, <2>1, <2>2 DEF IntroductionFirst
<1>10. NothingRun' /\ NothingAnswered'
  BY DEF SendRpc, FirstContact, NothingRun, NothingAnswered, sLayer
<1> QED BY <1>9, <1>10 DEF FirstContact

\* The server accepts the introduction.
LEMMA IntroductionAccepted ==
  ASSUME TypeOK, FirstContact, NEW e \in Epochs, ServerReceive(e)
  PROVE  session'.layer
<1>1. Read(e) /\ toServer[e] # <<>>
  BY DEF ServerReceive, IgnoreMessage, ProcessPing, ProcessMessageAck,
         RejectUnauthorized, StartOperation, NotProcessed, Read
<1>2. e = 1 /\ Introduction(Incoming(e))
  BY <1>1 DEF FirstContact, IntroductionFirst, Incoming
<1>3. HeaderError(Incoming(e)) = "none"
  <2>1. CheckSalt(Incoming(e).salt)
    BY <1>2 DEF FirstContact, NothingAnswered, Introduction, CheckSalt
  <2>2. ~(Incoming(e).m.seq < session.lastSeq)
    BY <1>2 DEF FirstContact, NothingAnswered, Introduction
  <2>3. Incoming(e).id % 4 = 0
    BY <1>2 DEF Introduction
  <2> QED BY <2>1, <2>2, <2>3 DEF HeaderError
<1>4. Accept(Incoming(e))
  BY <1>3 DEF ServerReceive, IgnoreMessage, ProcessPing, ProcessMessageAck,
              RejectUnauthorized, StartOperation, NotProcessed
<1>5. session \in Session
  BY DEF TypeOK
<1>6. session'.layer = (session.layer \/ Incoming(e).m.init)
  BY <1>4, <1>5 DEF Accept, Session
<1> QED BY <1>2, <1>6 DEF Introduction

\* The server does not forget the layer, and not the user either.
LEMMA SessionGrows ==
  ASSUME TypeOK, [Next]_vars
  PROVE  (session.layer => session'.layer) /\ (session.user => session'.user)
<1>1. session \in Session
  BY DEF TypeOK
<1>2. UNCHANGED session \/ RotateSalt \/ ExpireOldSalt \/ (\E p : Accept(p))
        \/ (\E s \in started, ok \in BOOLEAN : RunOperation(s, ok))
  BY DEF Next, SendRpc, AcknowledgeMessages, ClientReceive, ProcessUpdates, ProcessRpcResult,
     ProcessPong, ProcessIgnoredMessageNotification, ConnectionLost, ClientCrash, Resume,
     ServerDropsConnection, ServerReceive, IgnoreMessage, ProcessPing, ProcessMessageAck,
     RejectUnauthorized, StartOperation, NotProcessed, SendUpdates, vars
<1>3. CASE RotateSalt \/ ExpireOldSalt
  BY <1>1, <1>3 DEF RotateSalt, ExpireOldSalt, Session
<1>4. ASSUME NEW p, Accept(p)
      PROVE  (session.layer => session'.layer) /\ (session.user => session'.user)
  <2>1. session'.layer = (session.layer \/ p.m.init) /\ session'.user = session.user
    BY <1>1, <1>4 DEF Accept, Session
  <2> QED BY <2>1
<1>5. ASSUME NEW s \in started, NEW ok \in BOOLEAN, RunOperation(s, ok)
      PROVE  (session.layer => session'.layer) /\ (session.user => session'.user)
  <2>1. /\ session'.layer = session.layer
        /\ session'.user = (session.user \/ (Kind[s.op] = "sign" /\ ok))
    BY <1>1, <1>5 DEF RunOperation, Session
  <2> QED BY <2>1
<1> QED BY <1>2, <1>3, <1>4, <1>5

contactVars == <<up, epoch, toServer, toClient, content, lastId, bound, started, executed>>

\* A step that leaves the exchange alone.
LEMMA ContactUnchanged ==
  ASSUME FirstContact, session'.salt = session.salt, session'.lastSeq = session.lastSeq,
         UNCHANGED <<contactVars, serverSalt, messagesToAck, stored, signed>>
  PROVE  FirstContact'
<1>1. NothingRun'
  BY DEF FirstContact, NothingRun, contactVars
<1>2. NothingAnswered'
  BY DEF FirstContact, NothingAnswered, contactVars
<1>3. UNCHANGED <<up, toServer, content, lastId>>
  BY DEF contactVars
<1>4. IntroductionFirst'
  BY <1>3 DEF FirstContact, IntroductionFirst, Introduction
<1> QED BY <1>1, <1>2, <1>4 DEF FirstContact

\* Nothing else happens before the introduction is read.
LEMMA FirstContactKept ==
  ASSUME TypeOK, TypeOK', FirstContact, [Next]_vars
  PROVE  LayerKept'
<1> USE DEF FirstContact
<1>1. ASSUME NEW o \in Ops, SendRpc(o) PROVE FirstContact'
  BY <1>1, SendIntroduction
<1>2. ASSUME NEW e \in Epochs, ServerReceive(e) PROVE session'.layer
  BY <1>2, IntroductionAccepted
<1>3. CASE AcknowledgeMessages \/ ClientReceive \/ Resume
  BY <1>3 DEF NothingAnswered, AcknowledgeMessages, ClientReceive, ProcessUpdates,
     ProcessRpcResult, ProcessPong, ProcessIgnoredMessageNotification, ReceivePacket, Resume
<1>4. CASE SendUpdates \/ RotateSalt \/ \E s \in started, ok \in BOOLEAN : RunOperation(s, ok)
  <2>1. ~bound /\ ~SessionExists /\ started = {}
    BY DEF NothingAnswered, NothingRun, SessionExists
  <2>2. ~SendUpdates /\ ~RotateSalt
    BY <2>1 DEF SendUpdates, RotateSalt
  <2> QED BY <1>4, <2>1, <2>2
<1>5. CASE ExpireOldSalt
  <2>1. session \in Session
    BY DEF TypeOK
  <2>2. session'.salt = session.salt /\ session'.lastSeq = session.lastSeq
    BY <1>5, <2>1 DEF ExpireOldSalt, Session
  <2>3. UNCHANGED <<contactVars, serverSalt, messagesToAck, stored, signed>>
    BY <1>5 DEF ExpireOldSalt, contactVars, client, account, sLayer
  <2> QED BY <2>2, <2>3, ContactUnchanged DEF LayerKept
<1>6. CASE ConnectionLost \/ ClientCrash
  <2>1. NothingRun' /\ NothingAnswered'
    BY <1>6 DEF ConnectionLost, ClientCrash, LayersGone, NothingRun, NothingAnswered
  <2>2. IntroductionFirst'
    <3>1. ~up' /\ UNCHANGED toServer
      BY <1>6 DEF ConnectionLost, ClientCrash, LayersGone
    <3> QED BY <3>1 DEF IntroductionFirst, Introduction
  <2> QED BY <2>1, <2>2 DEF LayerKept
<1>7. ASSUME NEW e \in Epochs, ServerDropsConnection(e) PROVE FirstContact'
  <2>1. toServer \in [Epochs -> Seq(ClientPacket)]
    BY DEF TypeOK
  <2>2. e = 1 /\ ~up /\ ~up'
    BY <1>7 DEF ServerDropsConnection, IntroductionFirst, NothingAnswered
  <2>3. toServer'[1] = <<>> /\ \A f \in Epochs : f # 1 => toServer'[f] = toServer[f]
    BY <1>7, <2>1, <2>2 DEF ServerDropsConnection
  <2>4. IntroductionFirst'
    BY <2>2, <2>3 DEF IntroductionFirst
  <2>5. NothingRun' /\ NothingAnswered'
    BY <1>7 DEF ServerDropsConnection, NothingRun, NothingAnswered, client, account, sLayer
  <2> QED BY <2>4, <2>5
<1>8. CASE UNCHANGED vars
  <2>1. UNCHANGED <<contactVars, serverSalt, messagesToAck, stored, signed, session>>
    BY <1>8 DEF vars, contactVars, client, account, sLayer
  <2> QED BY <2>1, ContactUnchanged DEF LayerKept
<1> QED BY <1>1, <1>2, <1>3, <1>4, <1>5, <1>6, <1>7, <1>8 DEF Next, LayerKept

\* The server runs no operation before it knows the client's layer, whatever
\* is lost, ignored and sent again.
THEOREM LayerKnownFirst == Spec => []InitConnectionFirst
<1>1. Init => LayerKept
  <2> SUFFICES ASSUME Init PROVE FirstContact
    BY DEF LayerKept
  <2>1. NothingRun /\ NothingAnswered
    BY DEF Init, NothingRun, NothingAnswered
  <2>2. IntroductionFirst
    BY BoundAssumption DEF Init, IntroductionFirst, Epochs
  <2> QED BY <2>1, <2>2 DEF FirstContact
<1>2. TypeOK /\ TypeOK' /\ LayerKept /\ [Next]_vars => LayerKept'
  BY SessionGrows, FirstContactKept DEF LayerKept
<1>3. LayerKept => InitConnectionFirst
  BY DEF LayerKept, FirstContact, NothingRun, InitConnectionFirst
<1> QED BY <1>1, <1>2, <1>3, TypeCorrect, PTL DEF Spec
-----------------------------------------------------------------------------
(***************************************************************************)
(* Every reply reaches the operation it answers, and every operation the   *)
(* application waits for is tracked by exactly one message, for every set  *)
(* of operations and every bound of RpcSession.                            *)
(*                                                                         *)
(* The argument: an id that was given out once belongs to one operation    *)
(* for ever.  Whatever is under way with an id (a request in any           *)
(* connection, an operation the server has started, a reply) names the     *)
(* owner of the id, and a resent message gets an id that is greater than   *)
(* all ids under way.                                                      *)
(***************************************************************************)

\* The id i was given out, and if the client still waits for it, then for o.
Owner(i, o) == i <= lastId /\ (i \in DOMAIN operations => operations[i] = o)

RequestsOwned ==
  \A e \in Epochs : \A k \in 1..Len(toServer[e]) :
    Owner(toServer[e][k].id, toServer[e][k].m.op)

StartedOwned == \A s \in started : Owner(s.id, s.op)

ReplyOwned(p) == p.re <= lastId /\ (p.kind \in {"result", "pong"} => Owner(p.re, p.op))

RepliesOwned == \A k \in 1..Len(toClient) : ReplyOwned(toClient[k])

MapsAgree ==
  \A i \in DOMAIN operations :
    i <= lastId /\ i \in DOMAIN messages /\ messages[i].op = operations[i]

PendingOwned ==
  /\ \A o \in Ops : opState[o] = "pending" <=> o \in Range(operations)
  /\ \A i, j \in DOMAIN operations : operations[i] = operations[j] => i = j
  /\ ~up => DOMAIN operations = {}

\* The inductive invariant.
Owned ==
  /\ TypeOK /\ RequestsOwned /\ StartedOwned /\ RepliesOwned
  /\ MapsAgree /\ PendingOwned
-----------------------------------------------------------------------------
\* What every step does to the ids given out before it: it takes some of them
\* out of m_operations and changes the operation of none.
OwnersKept ==
  /\ lastId <= lastId'
  /\ \A i \in DOMAIN operations' :
       i <= lastId => i \in DOMAIN operations /\ operations'[i] = operations[i]

\* The owner of an id that was given out does not change.
LEMMA OwnerKept ==
  ASSUME TypeOK, TypeOK', OwnersKept, NEW i \in Nat, NEW o, Owner(i, o)
  PROVE  Owner(i, o)'
<1>1. lastId \in Nat /\ lastId' \in Nat
  BY DEF TypeOK
<1> QED BY <1>1 DEF Owner, OwnersKept

\* Steps that leave the maps alone keep the owners.
LEMMA MapsUnchanged ==
  ASSUME TypeOK, UNCHANGED <<operations, lastId>>
  PROVE  OwnersKept
<1>1. lastId \in Nat
  BY DEF TypeOK
<1> QED BY <1>1 DEF OwnersKept

\* A packet in a queue of the client's end has an id and an operation.
LEMMA RequestTypes ==
  ASSUME TypeOK, NEW e \in Epochs, NEW k \in 1..Len(toServer[e])
  PROVE  toServer[e][k].id \in Nat
<1>1. toServer[e] \in Seq(ClientPacket)
  BY DEF TypeOK
<1>2. toServer[e][k] \in ClientPacket
  BY <1>1
<1> QED BY <1>2 DEF ClientPacket

\* A reply names a message id.
LEMMA ReplyTypes ==
  ASSUME TypeOK, NEW k \in 1..Len(toClient)
  PROVE  toClient[k].re \in Nat
<1>1. toClient[k] \in ServerPacket
  BY DEF TypeOK
<1> QED BY <1>1 DEF ServerPacket

\* Requests stay owned while no packet, or one with an owner, is added.
LEMMA RequestsKept ==
  ASSUME TypeOK, TypeOK', OwnersKept, RequestsOwned,
         \A e \in Epochs : \A k \in 1..Len(toServer'[e]) :
           \/ \E j \in 1..Len(toServer[e]) : toServer'[e][k] = toServer[e][j]
           \/ Owner(toServer[e][k].id, toServer[e][k].m.op)'
  PROVE  RequestsOwned'
<1> SUFFICES ASSUME NEW e \in Epochs, NEW k \in 1..Len(toServer'[e])
             PROVE  Owner(toServer[e][k].id, toServer[e][k].m.op)'
  BY DEF RequestsOwned
<1>1. ASSUME NEW j \in 1..Len(toServer[e]), toServer'[e][k] = toServer[e][j]
      PROVE  Owner(toServer[e][k].id, toServer[e][k].m.op)'
  <2>1. Owner(toServer[e][j].id, toServer[e][j].m.op) /\ toServer[e][j].id \in Nat
    BY RequestTypes DEF RequestsOwned
  <2>2. lastId \in Nat /\ lastId' \in Nat
    BY DEF TypeOK
  <2> QED BY <1>1, <2>1, <2>2 DEF Owner, OwnersKept
<1> QED BY <1>1

\* Started operations stay owned.
LEMMA StartedKept ==
  ASSUME TypeOK, TypeOK', OwnersKept, StartedOwned,
         \A s \in started' : s \in started \/ Owner(s.id, s.op)'
  PROVE  StartedOwned'
<1> SUFFICES ASSUME NEW s \in started', s \in started PROVE Owner(s.id, s.op)'
  BY DEF StartedOwned
<1>1. Owner(s.id, s.op)
  BY DEF StartedOwned
<1>2. s.id \in Nat
  BY DEF TypeOK, Started
<1> QED BY <1>1, <1>2, OwnerKept

\* Replies stay owned while no packet, or one with an owner, is added.
LEMMA RepliesKept ==
  ASSUME TypeOK, TypeOK', OwnersKept, RepliesOwned,
         \A k \in 1..Len(toClient') :
           \/ \E j \in 1..Len(toClient) : toClient'[k] = toClient[j]
           \/ ReplyOwned(toClient[k])'
  PROVE  RepliesOwned'
<1> SUFFICES ASSUME NEW k \in 1..Len(toClient'), NEW j \in 1..Len(toClient),
                    toClient'[k] = toClient[j]
             PROVE  ReplyOwned(toClient[k])'
  BY DEF RepliesOwned
<1>1. ReplyOwned(toClient[j]) /\ toClient[j].re \in Nat
  BY ReplyTypes DEF RepliesOwned
<1>2. lastId \in Nat /\ lastId' \in Nat
  BY DEF TypeOK
<1> QED BY <1>1, <1>2 DEF ReplyOwned, Owner, OwnersKept
-----------------------------------------------------------------------------
\* The client's queue holds what it held, and perhaps a reply to re for o.
OneMoreReply(kind, re, o) ==
  \A k \in 1..Len(toClient') :
    \/ \E j \in 1..Len(toClient) : toClient'[k] = toClient[j]
    \/ toClient'[k].re = re /\ toClient'[k].kind = kind /\ toClient'[k].op = o

\* A reply is added to the client's queue, or goes nowhere.
LEMMA RepliedFacts ==
  ASSUME TypeOK, NEW e, NEW related, NEW kind, NEW re, NEW o, NEW ok, NEW code,
         Reply(e, related, kind, re, o, ok, code)
  PROVE  OneMoreReply(kind, re, o)
<1> DEFINE p == ReplyPacket(related, kind, re, o, ok, code)
<1>1. toClient \in Seq(ServerPacket) /\ sLastId \in Nat /\ sContent \in Nat
  BY DEF TypeOK
<1>2. p.re = re /\ p.kind = kind /\ p.op = o
  BY DEF ReplyPacket
<1> HIDE DEF p
<1>3. CASE Current(e)
  <2>1. toClient' = Append(toClient, p)
    BY <1>3 DEF Reply, p
  <2>2. \A k \in 1..Len(Append(toClient, p)) :
          (k \in 1..Len(toClient) /\ Append(toClient, p)[k] = toClient[k])
          \/ Append(toClient, p)[k] = p
    BY <1>1
  <2> QED BY <1>2, <2>1, <2>2 DEF OneMoreReply
<1>4. CASE ~Current(e)
  <2>1. toClient' = toClient
    BY <1>4 DEF Reply
  <2> QED BY <2>1 DEF OneMoreReply
<1> QED BY <1>3, <1>4
-----------------------------------------------------------------------------
(***************************************************************************)
(* The server's steps.                                                     *)
(***************************************************************************)

\* The variables of the client's maps, which no step of the server changes.
clientMaps == <<up, operations, messages, lastId, opState>>

\* What a step of the server must show of the queues.
LEMMA ServerKeeps ==
  ASSUME Owned, TypeOK', UNCHANGED clientMaps,
         \A e \in Epochs : \A k \in 1..Len(toServer'[e]) :
           \E j \in 1..Len(toServer[e]) : toServer'[e][k] = toServer[e][j],
         \A s \in started' : s \in started \/ Owner(s.id, s.op),
         \A k \in 1..Len(toClient') :
           \/ \E j \in 1..Len(toClient) : toClient'[k] = toClient[j]
           \/ ReplyOwned(toClient'[k])
  PROVE  Owned'
<1>1. TypeOK /\ OwnersKept
  BY MapsUnchanged DEF Owned, clientMaps
<1>2. \A i, o : Owner(i, o) <=> Owner(i, o)'
  BY DEF Owner, clientMaps
<1>3. RequestsOwned'
  BY <1>1, RequestsKept DEF Owned
<1>4. StartedOwned'
  BY <1>1, <1>2, StartedKept DEF Owned
<1>5. RepliesOwned'
  <2>1. \A p : ReplyOwned(p) <=> ReplyOwned(p)'
    BY DEF ReplyOwned, Owner, clientMaps
  <2> QED BY <1>1, <2>1, RepliesKept DEF Owned
<1>6. MapsAgree' /\ PendingOwned'
  BY DEF Owned, MapsAgree, PendingOwned, clientMaps, Range
<1> QED BY <1>3, <1>4, <1>5, <1>6 DEF Owned

\* The packet the server reads names the owner of its id.
LEMMA IncomingOwned ==
  ASSUME Owned, NEW e \in Epochs, Read(e)
  PROVE  /\ Owner(Incoming(e).id, Incoming(e).m.op)
         /\ Incoming(e).id \in Nat /\ Incoming(e).m.op \in Ops \cup {NoOp}
         /\ Incoming(e) \in ClientPacket
         /\ UNCHANGED clientMaps
<1>1. TypeOK /\ RequestsOwned
  BY DEF Owned
<1>2. Owner(Incoming(e).id, Incoming(e).m.op)
  BY <1>1, ReadFacts DEF RequestsOwned
<1>3. Incoming(e).m.op \in Ops \cup {NoOp}
  BY <1>1, ReadType, MessageFacts
<1>4. UNCHANGED clientMaps
  BY DEF Read, clientMaps, client, account
<1> QED BY <1>1, <1>2, <1>3, <1>4, ReadType

\* Every packet the server reads and every operation it runs keeps the owners.
LEMMA ServerOwned ==
  ASSUME Owned, TypeOK',
         \/ \E e \in Epochs : ServerDropsConnection(e) \/ ServerReceive(e)
         \/ RotateSalt \/ ExpireOldSalt
         \/ \E s \in started, ok \in BOOLEAN : RunOperation(s, ok)
         \/ SendUpdates
  PROVE  Owned'
<1>0. /\ TypeOK /\ session.salt \in Nat /\ session'.salt \in Nat
      /\ "none" \in ErrorCodes /\ NoOp \in Ops \cup {NoOp}
      /\ StartedOwned /\ lastId \in Nat
  BY DEF Owned, TypeOK, Session, ErrorCodes
<1>1. ASSUME NEW e \in Epochs, ServerDropsConnection(e) PROVE Owned'
  <2>1. /\ \A f \in Epochs : \A k \in 1..Len(toServer'[f]) :
             \E j \in 1..Len(toServer[f]) : toServer'[f][k] = toServer[f][j]
    <3>1. toServer \in [Epochs -> Seq(ClientPacket)]
      BY <1>0 DEF TypeOK
    <3>2. \A f \in Epochs : toServer'[f] = IF f = e THEN <<>> ELSE toServer[f]
      BY <1>1, <3>1 DEF ServerDropsConnection
    <3> QED BY <3>1, <3>2
  <2>2. UNCHANGED clientMaps /\ UNCHANGED <<toClient, started>>
    BY <1>1 DEF ServerDropsConnection, clientMaps, client, account
  <2> QED BY <2>1, <2>2, ServerKeeps
<1>2. ASSUME NEW e \in Epochs, IgnoreMessage(e) PROVE Owned'
  <2>1. Read(e) /\ UNCHANGED started
    BY <1>2 DEF IgnoreMessage
  <2>2. HeaderError(Incoming(e)) \in ErrorCodes
    BY DEF HeaderError, ErrorCodes
  <2>3. OneMoreReply("notice", Incoming(e).id, NoOp)
    <3>1. Incoming(e).id \in Nat /\ Incoming(e).m.op \in Ops \cup {NoOp}
      BY <2>1, IncomingOwned
    <3>2. Reply(e, FALSE, "notice", Incoming(e).id, NoOp, FALSE, HeaderError(Incoming(e)))
      BY <1>2 DEF IgnoreMessage
    <3> QED BY <1>0, <2>2, <3>1, <3>2, RepliedFacts
  <2>4. \A k \in 1..Len(toClient') :
           \/ \E j \in 1..Len(toClient) : toClient'[k] = toClient[j]
           \/ ReplyOwned(toClient'[k])
    BY <2>1, <2>3, IncomingOwned DEF OneMoreReply, ReplyOwned, Owner
  <2> QED BY <1>0, <2>1, <2>4, ReadFacts, IncomingOwned, ServerKeeps
<1>3. ASSUME NEW e \in Epochs, ProcessPing(e) PROVE Owned'
  <2>1. Read(e) /\ UNCHANGED started
    BY <1>3 DEF ProcessPing
  <2>3. OneMoreReply("pong", Incoming(e).id, Incoming(e).m.op)
    <3>1. Incoming(e).id \in Nat /\ Incoming(e).m.op \in Ops \cup {NoOp}
      BY <2>1, IncomingOwned
    <3>2. Reply(e, FALSE, "pong", Incoming(e).id, Incoming(e).m.op, TRUE, "none")
      BY <1>3 DEF ProcessPing
    <3> QED BY <1>0, <3>1, <3>2, RepliedFacts
  <2>4. \A k \in 1..Len(toClient') :
           \/ \E j \in 1..Len(toClient) : toClient'[k] = toClient[j]
           \/ ReplyOwned(toClient'[k])
    BY <2>1, <2>3, IncomingOwned DEF OneMoreReply, ReplyOwned, Owner
  <2> QED BY <1>0, <2>1, <2>4, ReadFacts, IncomingOwned, ServerKeeps
<1>4. ASSUME NEW e \in Epochs, ProcessMessageAck(e) PROVE Owned'
  <2>1. Read(e) /\ UNCHANGED <<started, toClient>>
    BY <1>4 DEF ProcessMessageAck, NoReply
  <2> QED BY <1>0, <2>1, ReadFacts, IncomingOwned, ServerKeeps
<1>5. ASSUME NEW e \in Epochs, RejectUnauthorized(e) PROVE Owned'
  <2>1. Read(e) /\ UNCHANGED started
    BY <1>5 DEF RejectUnauthorized
  <2>3. OneMoreReply("result", Incoming(e).id, Incoming(e).m.op)
    <3>1. Incoming(e).id \in Nat /\ Incoming(e).m.op \in Ops \cup {NoOp}
      BY <2>1, IncomingOwned
    <3>2. Reply(e, TRUE, "result", Incoming(e).id, Incoming(e).m.op, FALSE, "none")
      BY <1>5 DEF RejectUnauthorized
    <3> QED BY <1>0, <3>1, <3>2, RepliedFacts
  <2>4. \A k \in 1..Len(toClient') :
           \/ \E j \in 1..Len(toClient) : toClient'[k] = toClient[j]
           \/ ReplyOwned(toClient'[k])
    BY <2>1, <2>3, IncomingOwned DEF OneMoreReply, ReplyOwned, Owner
  <2> QED BY <1>0, <2>1, <2>4, ReadFacts, IncomingOwned, ServerKeeps
<1>6. ASSUME NEW e \in Epochs, StartOperation(e) PROVE Owned'
  <2>1. /\ Read(e) /\ UNCHANGED toClient
        /\ started' = started \cup {[epoch |-> e, id |-> Incoming(e).id, op |-> Incoming(e).m.op]}
    BY <1>6 DEF StartOperation, NoReply
  <2>2. \A s \in started' : s \in started \/ Owner(s.id, s.op)
    BY <2>1, IncomingOwned
  <2> QED BY <1>0, <2>1, <2>2, ReadFacts, IncomingOwned, ServerKeeps
<1>7. ASSUME NEW e \in Epochs, NotProcessed(e) PROVE Owned'
  <2>1. Read(e) /\ UNCHANGED <<started, toClient>>
    BY <1>7 DEF NotProcessed, NoReply
  <2> QED BY <1>0, <2>1, ReadFacts, IncomingOwned, ServerKeeps
<1>8. ASSUME RotateSalt \/ ExpireOldSalt PROVE Owned'
  <2>1. UNCHANGED <<clientMaps, toServer, started, toClient>>
    BY <1>8 DEF RotateSalt, ExpireOldSalt, clientMaps, client, account
  <2> QED BY <2>1, ServerKeeps
<1>9. ASSUME NEW s \in started, NEW ok \in BOOLEAN, RunOperation(s, ok) PROVE Owned'
  <2>1. s.id \in Nat /\ s.op \in Ops \cup {NoOp} /\ Owner(s.id, s.op)
    BY <1>0 DEF TypeOK, Started, StartedOwned
  <2>2. UNCHANGED <<clientMaps, toServer>> /\ started' \subseteq started
    BY <1>9 DEF RunOperation, clientMaps, client, account
  <2>3. Reply(s.epoch, TRUE, "result", s.id, s.op, ok, "none")
    BY <1>9 DEF RunOperation
  <2>4. OneMoreReply("result", s.id, s.op)
    <3>1. CASE ok = TRUE
      BY <1>0, <2>1, <2>3, <3>1, RepliedFacts
    <3>2. CASE ok = FALSE
      BY <1>0, <2>1, <2>3, <3>2, RepliedFacts
    <3> QED BY <3>1, <3>2
  <2>5. \A k \in 1..Len(toClient') :
           \/ \E j \in 1..Len(toClient) : toClient'[k] = toClient[j]
           \/ ReplyOwned(toClient'[k])
    BY <2>1, <2>4 DEF OneMoreReply, ReplyOwned, Owner
  <2> QED BY <2>2, <2>5, ServerKeeps
<1>10. ASSUME SendUpdates PROVE Owned'
  <2>1. UNCHANGED <<clientMaps, toServer, started>>
    BY <1>10 DEF SendUpdates, clientMaps, client, account
  <2>2. OneMoreReply("update", 0, NoOp)
    <3>1. Reply(epoch, TRUE, "update", 0, NoOp, FALSE, "none")
      BY <1>10 DEF SendUpdates
    <3> QED BY <1>0, <3>1, RepliedFacts
  <2>3. \A k \in 1..Len(toClient') :
           \/ \E j \in 1..Len(toClient) : toClient'[k] = toClient[j]
           \/ ReplyOwned(toClient'[k])
    BY <1>0, <2>2 DEF OneMoreReply, ReplyOwned
  <2> QED BY <2>1, <2>3, ServerKeeps
<1> QED BY <1>1, <1>2, <1>3, <1>4, <1>5, <1>6, <1>7, <1>8, <1>9, <1>10
        DEF ServerReceive
-----------------------------------------------------------------------------
(***************************************************************************)
(* The client's steps.                                                     *)
(***************************************************************************)

\* A new message under a new id: nobody else owns the id.
LEMMA SendOwned ==
  ASSUME Owned, TypeOK', OwnersKept, NEW salt \in Nat, NEW m \in Message,
         SendPacket(Packet(NewMessageId(lastId), salt, m)),
         lastId' = NewMessageId(lastId),
         NewMessageId(lastId) \in DOMAIN operations' =>
           operations'[NewMessageId(lastId)] = m.op
  PROVE  RequestsOwned'
<1> DEFINE new == NewMessageId(lastId)
<1>1. TypeOK /\ RequestsOwned /\ new \in Nat /\ new = lastId'
  BY IdFacts DEF Owned
<1>2. \A e \in Epochs : \A k \in 1..Len(toServer'[e]) :
        \/ \E j \in 1..Len(toServer[e]) : toServer'[e][k] = toServer[e][j]
        \/ toServer'[e][k].id = new /\ toServer'[e][k].m = m
  BY <1>1, SentFacts
<1>3. new <= lastId' /\ (new \in DOMAIN operations' => operations'[new] = m.op)
  BY <1>1
<1> HIDE DEF new
<1>4. \A e \in Epochs : \A k \in 1..Len(toServer'[e]) :
        \/ \E j \in 1..Len(toServer[e]) : toServer'[e][k] = toServer[e][j]
        \/ Owner(toServer[e][k].id, toServer[e][k].m.op)'
  BY <1>2, <1>3 DEF Owner
<1> QED BY <1>1, <1>4, RequestsKept

\* Starting an operation.
LEMMA SendRpcOwned ==
  ASSUME Owned, TypeOK', NEW o \in Ops, SendRpc(o)
  PROVE  Owned'
<1> DEFINE new == NewMessageId(lastId)
<1>1. /\ TypeOK /\ IsMap(operations, Ops) /\ IsMap(messages, Message)
      /\ lastId \in Nat /\ new \in Nat /\ new > lastId /\ serverSalt \in Nat
      /\ RpcMessage(o) \in Message /\ RpcMessage(o).op = o
  BY IdFacts, BuiltMessages DEF Owned, TypeOK
<1>2. /\ operations' = Insert(operations, new, o) /\ messages' = Insert(messages, new, RpcMessage(o))
      /\ lastId' = new /\ UNCHANGED <<up, toClient, started>> /\ up
      /\ SendPacket(Packet(new, serverSalt, RpcMessage(o)))
      /\ opState' = [opState EXCEPT ![o] = "pending"] /\ opState[o] = "idle"
  BY DEF SendRpc
<1>3. /\ DOMAIN operations' = DOMAIN operations \cup {new} /\ operations'[new] = o
      /\ \A i \in DOMAIN operations : i # new => operations'[i] = operations[i]
  BY <1>2 DEF Insert
<1>4. /\ DOMAIN messages' = DOMAIN messages \cup {new} /\ messages'[new] = RpcMessage(o)
      /\ \A i \in DOMAIN messages : i # new => messages'[i] = messages[i]
  BY <1>2 DEF Insert
<1>5. RequestsOwned'
  <2>1. OwnersKept
    BY <1>1, <1>2, <1>3 DEF OwnersKept
  <2> QED BY <1>1, <1>2, <1>3, <2>1, SendOwned
<1> HIDE DEF new
<1>6. OwnersKept
  BY <1>1, <1>2, <1>3 DEF OwnersKept
<1>7. StartedOwned'
  BY <1>1, <1>2, <1>6, StartedKept DEF Owned
<1>8. RepliesOwned'
  BY <1>1, <1>2, <1>6, RepliesKept DEF Owned
<1>9. MapsAgree'
  <2>1. MapsAgree /\ DOMAIN operations \subseteq Nat
    BY <1>1 DEF Owned, IsMap
  <2> SUFFICES ASSUME NEW i \in DOMAIN operations'
               PROVE  (i <= lastId /\ i \in DOMAIN messages /\ messages[i].op = operations[i])'
    BY DEF MapsAgree
  <2>2. CASE i = new
    BY <1>1, <1>2, <1>3, <1>4, <2>2
  <2>3. CASE i # new
    <3>1. i \in DOMAIN operations /\ i \in Nat /\ i <= lastId
      BY <1>3, <2>1, <2>3 DEF MapsAgree
    <3> QED BY <1>1, <1>2, <1>3, <1>4, <2>1, <2>3, <3>1 DEF MapsAgree
  <2> QED BY <2>2, <2>3
<1>10. PendingOwned'
  <2>1. PendingOwned /\ MapsAgree /\ opState \in [Ops -> OpStates]
    BY DEF Owned, TypeOK
  <2>2. \A i \in DOMAIN operations : i # new /\ operations[i] # o
    <3>1. o \notin Range(operations)
      BY <1>2, <2>1 DEF PendingOwned
    <3> QED BY <1>1, <2>1, <3>1 DEF Range, MapsAgree
  <2>3. Range(operations') = Range(operations) \cup {o}
    BY <1>3, <2>2 DEF Range
  <2>4. \A q \in Ops : opState'[q] = "pending" <=> q \in Range(operations')
    BY <1>2, <2>1, <2>3 DEF PendingOwned
  <2>5. \A i, j \in DOMAIN operations' : operations'[i] = operations'[j] => i = j
    BY <1>3, <2>1, <2>2 DEF PendingOwned
  <2> QED BY <1>2, <2>4, <2>5 DEF PendingOwned
<1> QED BY <1>5, <1>7, <1>8, <1>9, <1>10 DEF Owned

\* An acknowledgement has an id nobody waits for.
LEMMA AckOwned ==
  ASSUME Owned, TypeOK', AcknowledgeMessages
  PROVE  Owned'
<1> DEFINE new == NewMessageId(lastId)
<1>1. /\ TypeOK /\ IsMap(messages, Message)
      /\ lastId \in Nat /\ new \in Nat /\ new > lastId /\ serverSalt \in Nat
      /\ AckMessage \in Message
  BY IdFacts, BuiltMessages DEF Owned, TypeOK
<1>2. /\ messages' = Insert(messages, new, AckMessage) /\ lastId' = new
      /\ UNCHANGED <<up, operations, toClient, started, opState>>
      /\ SendPacket(Packet(new, serverSalt, AckMessage))
  BY DEF AcknowledgeMessages, account
<1>3. \A i \in DOMAIN operations : i \in Nat /\ i # new /\ i <= lastId /\ i <= new
  <2>1. MapsAgree /\ DOMAIN operations \subseteq Nat
    BY <1>1 DEF Owned, TypeOK, IsMap
  <2> HIDE DEF new
  <2> QED BY <1>1, <2>1 DEF MapsAgree
<1>4. OwnersKept
  BY <1>1, <1>2, <1>3 DEF OwnersKept
<1>5. RequestsOwned'
  BY <1>1, <1>2, <1>3, <1>4, SendOwned
<1> HIDE DEF new
<1>6. /\ DOMAIN messages' = DOMAIN messages \cup {new}
      /\ \A i \in DOMAIN messages : i # new => messages'[i] = messages[i]
  BY <1>2 DEF Insert
<1>7. StartedOwned'
  BY <1>1, <1>2, <1>4, StartedKept DEF Owned
<1>8. RepliesOwned'
  BY <1>1, <1>2, <1>4, RepliesKept DEF Owned
<1>9. MapsAgree'
  BY <1>2, <1>3, <1>6 DEF Owned, MapsAgree
<1>10. PendingOwned'
  BY <1>2 DEF Owned, PendingOwned, Range
<1> QED BY <1>5, <1>7, <1>8, <1>9, <1>10 DEF Owned

\* A packet received without a change of the maps.
LEMMA UpdatesOwned ==
  ASSUME Owned, TypeOK', ProcessUpdates
  PROVE  Owned'
<1>1. TypeOK /\ UNCHANGED <<clientMaps, toServer, started>>
  BY DEF Owned, ProcessUpdates, clientMaps, account
<1>2. \A k \in 1..Len(toClient') : \E j \in 1..Len(toClient) : toClient'[k] = toClient[j]
  BY <1>1, ReceivedFacts DEF ProcessUpdates
<1> QED BY <1>1, <1>2, ServerKeeps

\* A reply finishes the operation of its message id and forgets the id.
LEMMA FinishOwned ==
  ASSUME Owned, TypeOK', NEW re \in Nat, NEW state \in OpStates \ {"pending"},
         operations' = Drop(operations, re),
         opState' = IF re \in DOMAIN operations
                    THEN [opState EXCEPT ![operations[re]] = state] ELSE opState,
         UNCHANGED <<up, messages, lastId, toServer, started>>,
         \A k \in 1..Len(toClient') : \E j \in 1..Len(toClient) : toClient'[k] = toClient[j]
  PROVE  Owned'
<1>1. /\ TypeOK /\ IsMap(operations, Ops) /\ opState \in [Ops -> OpStates] /\ lastId \in Nat
      /\ MapsAgree /\ PendingOwned
  BY DEF Owned, TypeOK
<1>2. /\ DOMAIN operations' = DOMAIN operations \ {re}
      /\ \A i \in DOMAIN operations' : operations'[i] = operations[i]
  BY <1>1 DEF Drop, Restrict, IsMap
<1>3. OwnersKept
  BY <1>1, <1>2 DEF OwnersKept
<1>4. RequestsOwned' /\ StartedOwned' /\ RepliesOwned'
  BY <1>1, <1>3, RequestsKept, StartedKept, RepliesKept DEF Owned
<1>5. MapsAgree'
  BY <1>1, <1>2 DEF MapsAgree
<1>6. PendingOwned'
  <2>1. CASE re \in DOMAIN operations
    <3>1. Range(operations') = Range(operations) \ {operations[re]}
      BY <1>1, <1>2, <2>1 DEF Range, PendingOwned
    <3>2. operations[re] \in Ops
      BY <1>1, <2>1 DEF IsMap
    <3>3. \A o \in Ops : opState'[o] = "pending" <=> o \in Range(operations')
      BY <1>1, <2>1, <3>1, <3>2 DEF PendingOwned
    <3> QED BY <1>1, <1>2, <3>3 DEF PendingOwned
  <2>2. CASE re \notin DOMAIN operations
    <3>1. Range(operations') = Range(operations)
      BY <1>2, <2>2 DEF Range
    <3> QED BY <1>1, <1>2, <2>2, <3>1 DEF PendingOwned
  <2> QED BY <2>1, <2>2
<1> QED BY <1>4, <1>5, <1>6 DEF Owned

\* processRpcResult and the pong.
LEMMA ResultOwned ==
  ASSUME Owned, TypeOK', ProcessRpcResult \/ ProcessPong
  PROVE  Owned'
<1>1. TypeOK
  BY DEF Owned
<1>2. CASE ProcessRpcResult
  <2>1. ReceivePacket("result")
    BY <1>2 DEF ProcessRpcResult
  <2>2. Received.re \in Nat
    BY <1>1, <2>1, ReceiveType DEF ServerPacket
  <2>3. FinishedState(Received.ok) \in OpStates \ {"pending"}
    BY DEF FinishedState, OpStates
  <2>4. /\ operations' = Drop(operations, Received.re)
        /\ opState' = IF Received.re \in DOMAIN operations
                      THEN [opState EXCEPT ![operations[Received.re]] = FinishedState(Received.ok)]
                      ELSE opState
        /\ UNCHANGED <<up, messages, lastId, toServer, started>>
    BY <1>2 DEF ProcessRpcResult
  <2>5. \A k \in 1..Len(toClient') : \E j \in 1..Len(toClient) : toClient'[k] = toClient[j]
    BY <1>1, <2>1, ReceivedFacts
  <2> QED BY <2>2, <2>3, <2>4, <2>5, FinishOwned
<1>3. CASE ProcessPong
  <2>1. ReceivePacket("pong")
    BY <1>3 DEF ProcessPong
  <2>2. Received.re \in Nat
    BY <1>1, <2>1, ReceiveType DEF ServerPacket
  <2>3. "succeeded" \in OpStates \ {"pending"}
    BY DEF OpStates
  <2>4. /\ operations' = Drop(operations, Received.re)
        /\ opState' = IF Received.re \in DOMAIN operations
                      THEN [opState EXCEPT ![operations[Received.re]] = "succeeded"]
                      ELSE opState
        /\ UNCHANGED <<up, messages, lastId, toServer, started>>
    BY <1>3 DEF ProcessPong
  <2>5. \A k \in 1..Len(toClient') : \E j \in 1..Len(toClient) : toClient'[k] = toClient[j]
    BY <1>1, <2>1, ReceivedFacts
  <2> QED BY <2>2, <2>3, <2>4, <2>5, FinishOwned
<1> QED BY <1>2, <1>3

\* The end of a connection: nobody waits for any id.
LEMMA LostOwned ==
  ASSUME Owned, TypeOK', ConnectionLost \/ ClientCrash
  PROVE  Owned'
<1>1. /\ TypeOK /\ PendingOwned /\ lastId \in Nat /\ opState \in [Ops -> OpStates]
  BY DEF Owned, TypeOK
<1>2. /\ DOMAIN operations' = {} /\ toClient' = <<>> /\ ~up'
      /\ UNCHANGED <<toServer, started, lastId>>
  BY NoneFacts DEF ConnectionLost, ClientCrash, LayersGone
<1>3. OwnersKept
  BY <1>1, <1>2 DEF OwnersKept
<1>4. RequestsOwned' /\ StartedOwned'
  BY <1>1, <1>2, <1>3, RequestsKept, StartedKept DEF Owned
<1>5. RepliesOwned' /\ MapsAgree'
  BY <1>2 DEF RepliesOwned, MapsAgree
<1>6. PendingOwned'
  <2>1. \A o \in Ops : opState'[o] # "pending"
    BY <1>1 DEF ConnectionLost, ClientCrash, PendingOwned
  <2>2. Range(operations') = {}
    BY <1>2 DEF Range
  <2> QED BY <1>2, <2>1, <2>2 DEF PendingOwned
<1> QED BY <1>4, <1>5, <1>6 DEF Owned

\* Resumption: the maps are empty already.
LEMMA ResumeOwned ==
  ASSUME Owned, TypeOK', Resume
  PROVE  Owned'
<1>1. TypeOK /\ UNCHANGED <<operations, messages, lastId, opState, toServer, toClient, started>>
  BY DEF Owned, Resume, account
<1>2. OwnersKept
  BY <1>1, MapsUnchanged
<1>3. RequestsOwned' /\ StartedOwned' /\ RepliesOwned'
  BY <1>1, <1>2, RequestsKept, StartedKept, RepliesKept DEF Owned
<1>4. MapsAgree' /\ PendingOwned'
  BY <1>1 DEF Owned, MapsAgree, PendingOwned, Resume, Range
<1> QED BY <1>3, <1>4 DEF Owned

\* resendIgnoredMessage moves the operation to a new id.
LEMMA ResendOwned ==
  ASSUME Owned, TypeOK', NEW old \in DOMAIN operations, NEW m \in Message,
         m.op = messages[old].op, Received.salt \in Nat, Resend(old, m),
         UNCHANGED <<up, opState, started>>,
         \A k \in 1..Len(toClient') : \E j \in 1..Len(toClient) : toClient'[k] = toClient[j]
  PROVE  Owned'
<1> DEFINE new == NewMessageId(lastId)
<1>1. /\ TypeOK /\ IsMap(operations, Ops) /\ lastId \in Nat /\ new \in Nat /\ new > lastId
      /\ MapsAgree /\ PendingOwned
  BY IdFacts DEF Owned, TypeOK
<1>2. /\ operations' = Insert(Drop(operations, old), new, operations[old])
      /\ messages' = Insert(Drop(messages, old), new, m)
      /\ lastId' = new
      /\ SendPacket(Packet(new, Received.salt, m))
  BY DEF Resend
<1>3. m.op = operations[old]
  BY <1>1 DEF MapsAgree
<1>4. /\ DOMAIN operations' = (DOMAIN operations \ {old}) \cup {new}
      /\ operations'[new] = operations[old]
      /\ \A i \in DOMAIN operations \ {old} : i # new => operations'[i] = operations[i]
  BY <1>2 DEF Insert, Drop, Restrict
<1>5. /\ DOMAIN messages' = (DOMAIN messages \ {old}) \cup {new}
      /\ messages'[new] = m
      /\ \A i \in DOMAIN messages \ {old} : i # new => messages'[i] = messages[i]
  BY <1>2 DEF Insert, Drop, Restrict
<1>6. RequestsOwned'
  <2>1. OwnersKept
    BY <1>1, <1>2, <1>4 DEF OwnersKept
  <2> QED BY <1>2, <1>3, <1>4, <2>1, SendOwned
<1> HIDE DEF new
<1>7. OwnersKept
  BY <1>1, <1>2, <1>4 DEF OwnersKept
<1>8. StartedOwned' /\ RepliesOwned'
  BY <1>1, <1>7, StartedKept, RepliesKept DEF Owned
<1>9. \A i \in DOMAIN operations : i \in Nat /\ i <= lastId /\ i # new /\ i <= new
  BY <1>1 DEF MapsAgree, IsMap
<1>10. MapsAgree'
  <2> SUFFICES ASSUME NEW i \in DOMAIN operations'
               PROVE  (i <= lastId /\ i \in DOMAIN messages /\ messages[i].op = operations[i])'
    BY DEF MapsAgree
  <2>1. CASE i = new
    BY <1>1, <1>2, <1>3, <1>4, <1>5, <2>1
  <2>2. CASE i # new
    <3>1. i \in DOMAIN operations \ {old}
      BY <1>4, <2>2
    <3> QED BY <1>1, <1>2, <1>4, <1>5, <1>9, <2>2, <3>1 DEF MapsAgree
  <2> QED BY <2>1, <2>2
<1>11. PendingOwned'
  <2>1. Range(operations') = Range(operations)
    BY <1>4, <1>9 DEF Range
  <2>2. \A i, j \in DOMAIN operations' : operations'[i] = operations'[j] => i = j
    BY <1>1, <1>4, <1>9 DEF PendingOwned
  <2>3. ~up => FALSE
    BY <1>1 DEF PendingOwned
  <2> QED BY <1>1, <2>1, <2>2, <2>3 DEF PendingOwned
<1> QED BY <1>6, <1>8, <1>10, <1>11 DEF Owned

\* processIgnoredMessageNotification.
LEMMA NoticeOwned ==
  ASSUME Owned, TypeOK', ProcessIgnoredMessageNotification
  PROVE  Owned'
<1> DEFINE old == Received.re
           m   == ResentMessage(Received.code, messages[old])
<1>1. TypeOK /\ IsMap(messages, Message) /\ MapsAgree /\ ReceivePacket("notice")
  BY DEF Owned, TypeOK, ProcessIgnoredMessageNotification
<1>2. \A k \in 1..Len(toClient') : \E j \in 1..Len(toClient) : toClient'[k] = toClient[j]
  BY <1>1, ReceivedFacts
<1>3. UNCHANGED <<up, opState, started>>
  BY DEF ProcessIgnoredMessageNotification, account
<1>4. CASE old \in DOMAIN messages /\ old \in DOMAIN operations
  <2>1. messages[old] \in Message
    BY <1>1, <1>4 DEF IsMap
  <2>2. m \in Message /\ m.op = messages[old].op
    BY <2>1, MessageFacts
  <2>3. Resend(old, m)
    BY <1>4 DEF ProcessIgnoredMessageNotification
  <2>4. Received.salt \in Nat
    BY <1>1, ReceiveType
  <2> HIDE DEF m, old
  <2> QED BY <1>2, <1>3, <1>4, <2>2, <2>3, <2>4, ResendOwned
<1>5. CASE ~(old \in DOMAIN messages /\ old \in DOMAIN operations)
  <2>1. messages' = Drop(messages, old) /\ UNCHANGED <<toServer, operations, lastId>>
    BY <1>5 DEF ProcessIgnoredMessageNotification
  <2>2. old \notin DOMAIN operations
    BY <1>1, <1>5 DEF MapsAgree
  <2> HIDE DEF old
  <2>3. MapsAgree'
    <3>1. /\ DOMAIN messages' = DOMAIN messages \ {old}
          /\ \A i \in DOMAIN messages' : messages'[i] = messages[i]
      BY <1>1, <2>1 DEF Drop, Restrict
    <3> QED BY <1>1, <2>1, <2>2, <3>1 DEF MapsAgree
  <2>4. PendingOwned'
    BY <1>3, <2>1 DEF Owned, PendingOwned, Range
  <2>5. OwnersKept
    BY <1>1, <2>1, MapsUnchanged
  <2>6. RequestsOwned' /\ StartedOwned' /\ RepliesOwned'
    BY <1>1, <1>2, <1>3, <2>1, <2>5, RequestsKept, StartedKept, RepliesKept DEF Owned
  <2> QED BY <2>3, <2>4, <2>6 DEF Owned
<1> QED BY <1>4, <1>5
-----------------------------------------------------------------------------
\* The invariant is inductive.
THEOREM OwnedInvariant == Spec => []Owned
<1>1. Init => Owned
  <2> SUFFICES ASSUME Init PROVE Owned
    OBVIOUS
  <2>1. TypeOK
    BY InitTypes
  <2>2. /\ DOMAIN operations = {} /\ toClient = <<>> /\ started = {}
        /\ toServer = [e \in Epochs |-> <<>>] /\ opState = [o \in Ops |-> "idle"]
    BY NoneFacts DEF Init
  <2>3. RequestsOwned /\ StartedOwned /\ RepliesOwned /\ MapsAgree
    BY <2>2 DEF RequestsOwned, StartedOwned, RepliesOwned, MapsAgree
  <2>4. PendingOwned
    BY <2>2 DEF PendingOwned, Range
  <2> QED BY <2>1, <2>3, <2>4 DEF Owned
<1>2. Owned /\ [Next]_vars => Owned'
  <2> SUFFICES ASSUME Owned, [Next]_vars PROVE Owned'
    OBVIOUS
  <2>1. TypeOK'
    BY StepTypes DEF Owned
  <2>2. CASE Next
    BY <2>1, <2>2, SendRpcOwned, AckOwned, UpdatesOwned, ResultOwned, NoticeOwned,
       LostOwned, ResumeOwned, ServerOwned DEF Next, ClientReceive
  <2>3. CASE UNCHANGED vars
    <3>1. UNCHANGED <<clientMaps, toServer, started, toClient>>
      BY <2>3 DEF vars, clientMaps, client, account
    <3> QED BY <2>1, <3>1, ServerKeeps
  <2> QED BY <2>2, <2>3
<1> QED BY <1>1, <1>2, PTL DEF Spec

\* A reply is delivered to the operation it answers, for any number of
\* operations, salts, connections and crashes.
THEOREM RepliesMatch == Spec => []ReplyMatchesOperation
<1>1. Owned => ReplyMatchesOperation
  BY DEF Owned, RepliesOwned, ReplyOwned, Owner, ReplyMatchesOperation
<1> QED BY <1>1, OwnedInvariant, PTL

\* An operation the client waits for is the operation of exactly one message
\* of the living connection; a lost connection leaves nobody waiting.
THEOREM PendingTracked == Spec => []PendingIsTracked
<1>1. Owned => PendingIsTracked
  <2> SUFFICES ASSUME Owned PROVE PendingIsTracked
    OBVIOUS
  <2>1. PendingOwned /\ MapsAgree
    BY DEF Owned
  <2>2. ~up => Range(operations) = {}
    BY <2>1 DEF PendingOwned, Range
  <2> QED BY <2>1, <2>2 DEF PendingOwned, MapsAgree, PendingIsTracked
<1> QED BY <1>1, OwnedInvariant, PTL
-----------------------------------------------------------------------------
(***************************************************************************)
(* Signed connections.  account.updateStatus is started only for an        *)
(* authorized session, and a session stays authorized; so the reply that   *)
(* makes the client Signed tells of an authorized session.                 *)
(***************************************************************************)

\* The reply p to account.updateStatus was sent for an authorized session.
Authorized(p) ==
  p.kind = "result" /\ p.ok /\ p.op \in Ops /\ Kind[p.op] = "status" => session.user

SignedKept ==
  /\ signed => session.user
  /\ \A s \in started : Kind[s.op] = "status" => session.user
  /\ \A k \in 1..Len(toClient) : Authorized(toClient[k])

\* The fields of a reply that was added to the client's queue.
LEMMA ReplyFields ==
  ASSUME TypeOK, NEW e, NEW related, NEW kind, NEW re, NEW o, NEW ok, NEW code,
         Reply(e, related, kind, re, o, ok, code)
  PROVE  \A k \in 1..Len(toClient') :
           \/ \E j \in 1..Len(toClient) : toClient'[k] = toClient[j]
           \/ toClient'[k].kind = kind /\ toClient'[k].op = o /\ toClient'[k].ok = ok
<1> DEFINE p == ReplyPacket(related, kind, re, o, ok, code)
<1>1. toClient \in Seq(ServerPacket)
  BY DEF TypeOK
<1>2. p.kind = kind /\ p.op = o /\ p.ok = ok
  BY DEF ReplyPacket
<1> HIDE DEF p
<1>3. CASE Current(e)
  <2>1. toClient' = Append(toClient, p)
    BY <1>3 DEF Reply, p
  <2>2. \A k \in 1..Len(Append(toClient, p)) :
          (k \in 1..Len(toClient) /\ Append(toClient, p)[k] = toClient[k])
          \/ Append(toClient, p)[k] = p
    BY <1>1
  <2> QED BY <1>2, <2>1, <2>2
<1>4. CASE ~Current(e)
  BY <1>4 DEF Reply
<1> QED BY <1>3, <1>4

\* A reply is authorized when what it is made of is.
LEMMA ReplyAuthorized ==
  ASSUME TypeOK, NEW e, NEW related, NEW kind, NEW re, NEW o, NEW ok, NEW code,
         Reply(e, related, kind, re, o, ok, code),
         kind = "result" /\ ok /\ o \in Ops /\ Kind[o] = "status" => session'.user
  PROVE  \A k \in 1..Len(toClient') :
           \/ \E j \in 1..Len(toClient) : toClient'[k] = toClient[j]
           \/ Authorized(toClient[k])'
<1> SUFFICES ASSUME NEW k \in 1..Len(toClient'),
                    ~ \E j \in 1..Len(toClient) : toClient'[k] = toClient[j]
             PROVE  Authorized(toClient[k])'
  BY SMT
<1>1. toClient'[k].kind = kind /\ toClient'[k].op = o /\ toClient'[k].ok = ok
  BY ReplyFields
<1> QED BY <1>1, Zenon DEF Authorized

\* What a step has to show of the replies and the started operations.
LEMMA SignedStep ==
  ASSUME TypeOK, [Next]_vars, SignedKept,
         signed' => signed \/ session.user,
         \A s \in started' : s \in started \/ (Kind[s.op] = "status" => session'.user),
         \A k \in 1..Len(toClient') :
           \/ \E j \in 1..Len(toClient) : toClient'[k] = toClient[j]
           \/ Authorized(toClient[k])'
  PROVE  SignedKept'
<1>1. session.user => session'.user
  BY SessionGrows
<1>2. signed' => session'.user
  BY <1>1 DEF SignedKept
<1>3. \A s \in started' : Kind[s.op] = "status" => session'.user
  BY <1>1 DEF SignedKept
<1>4. \A k \in 1..Len(toClient') : Authorized(toClient[k])'
  <2> SUFFICES ASSUME NEW k \in 1..Len(toClient'), NEW j \in 1..Len(toClient),
                      toClient'[k] = toClient[j]
               PROVE  Authorized(toClient[k])'
    BY SMT
  <2>1. Authorized(toClient[j])
    BY DEF SignedKept
  <2> QED BY <1>1, <2>1 DEF Authorized
<1> QED BY <1>2, <1>3, <1>4 DEF SignedKept

\* The steps keep Signed connections authorized.
LEMMA SignedSteps ==
  ASSUME Owned, SignedKept, [Next]_vars
  PROVE  SignedKept'
<1>0. TypeOK /\ StartedOwned /\ RepliesOwned
  BY DEF Owned
<1>1. CASE \/ \E o \in Ops : SendRpc(o)
           \/ AcknowledgeMessages \/ Resume
           \/ \E e \in Epochs : ServerDropsConnection(e)
           \/ RotateSalt \/ ExpireOldSalt
           \/ UNCHANGED vars
  <2>1. UNCHANGED <<signed, started, toClient>>
    BY <1>1 DEF SendRpc, AcknowledgeMessages, Resume, ServerDropsConnection, RotateSalt,
       ExpireOldSalt, vars, account
  <2> QED BY <1>0, <2>1, SignedStep
<1>2. CASE ProcessUpdates \/ ProcessPong \/ ProcessIgnoredMessageNotification
  <2>1. UNCHANGED <<signed, started>> /\ \E kind : ReceivePacket(kind)
    BY <1>2 DEF ProcessUpdates, ProcessPong, ProcessIgnoredMessageNotification, account
  <2>2. \A k \in 1..Len(toClient') : \E j \in 1..Len(toClient) : toClient'[k] = toClient[j]
    BY <1>0, <2>1, ReceivedFacts
  <2> QED BY <1>0, <2>1, <2>2, SignedStep
<1>3. CASE ProcessRpcResult
  <2>1. ReceivePacket("result") /\ UNCHANGED started
    BY <1>3 DEF ProcessRpcResult
  <2>2. /\ 1 \in 1..Len(toClient) /\ Received = toClient[1] /\ Received.kind = "result"
        /\ \A k \in 1..Len(toClient') : \E j \in 1..Len(toClient) : toClient'[k] = toClient[j]
    BY <1>0, <2>1, ReceivedFacts DEF ReceivePacket
  <2>3. Received.re \in DOMAIN operations => operations[Received.re] = Received.op
    BY <1>0, <2>2 DEF RepliesOwned, ReplyOwned, Owner
  <2>4. Received.re \in DOMAIN operations => operations[Received.re] \in Ops
    BY <1>0 DEF TypeOK, IsMap
  <2>5. Authorized(Received)
    BY <2>2 DEF SignedKept
  <2>6. signed' => signed \/ (Received.re \in DOMAIN operations /\ Received.ok
                              /\ Kind[operations[Received.re]] = "status")
    BY <1>3 DEF ProcessRpcResult
  <2>7. signed' => signed \/ session.user
    BY <2>2, <2>3, <2>4, <2>5, <2>6 DEF Authorized
  <2> QED BY <1>0, <2>1, <2>2, <2>7, SignedStep
<1>4. CASE ConnectionLost \/ ClientCrash
  <2>1. ~signed' /\ toClient' = <<>> /\ UNCHANGED started
    BY <1>4 DEF ConnectionLost, ClientCrash, LayersGone
  <2> QED BY <1>0, <2>1, SignedStep
<1>5. ASSUME NEW e \in Epochs, ServerReceive(e) PROVE SignedKept'
  <2>1. UNCHANGED signed
    BY <1>5 DEF ServerReceive, IgnoreMessage, ProcessPing, ProcessMessageAck,
                RejectUnauthorized, StartOperation, NotProcessed, Read, account
  <2>2. CASE IgnoreMessage(e)
    <3>1. Reply(e, FALSE, "notice", Incoming(e).id, NoOp, FALSE, HeaderError(Incoming(e)))
          /\ UNCHANGED started
      BY <2>2 DEF IgnoreMessage
    <3>2. \A k \in 1..Len(toClient') :
            \/ \E j \in 1..Len(toClient) : toClient'[k] = toClient[j]
            \/ Authorized(toClient[k])'
      BY <1>0, <3>1, ReplyAuthorized
    <3> QED BY <1>0, <2>1, <3>1, <3>2, SignedStep
  <2>3. CASE ProcessPing(e)
    <3>1. Reply(e, FALSE, "pong", Incoming(e).id, Incoming(e).m.op, TRUE, "none")
          /\ UNCHANGED started
      BY <2>3 DEF ProcessPing
    <3>2. \A k \in 1..Len(toClient') :
            \/ \E j \in 1..Len(toClient) : toClient'[k] = toClient[j]
            \/ Authorized(toClient[k])'
      BY <1>0, <3>1, ReplyAuthorized
    <3> QED BY <1>0, <2>1, <3>1, <3>2, SignedStep
  <2>4. CASE RejectUnauthorized(e)
    <3>1. Reply(e, TRUE, "result", Incoming(e).id, Incoming(e).m.op, FALSE, "none")
          /\ UNCHANGED started
      BY <2>4 DEF RejectUnauthorized
    <3>2. \A k \in 1..Len(toClient') :
            \/ \E j \in 1..Len(toClient) : toClient'[k] = toClient[j]
            \/ Authorized(toClient[k])'
      BY <1>0, <3>1, ReplyAuthorized
    <3> QED BY <1>0, <2>1, <3>1, <3>2, SignedStep
  <2>5. CASE ProcessMessageAck(e) \/ NotProcessed(e)
    <3>1. UNCHANGED <<started, toClient>>
      BY <2>5 DEF ProcessMessageAck, NotProcessed, NoReply
    <3> QED BY <1>0, <2>1, <3>1, SignedStep
  <2>6. CASE StartOperation(e)
    <3>1. /\ UNCHANGED toClient /\ Allowed(Incoming(e).m.op)
          /\ started' = started \cup {[epoch |-> e, id |-> Incoming(e).id, op |-> Incoming(e).m.op]}
      BY <2>6 DEF StartOperation, NoReply
    <3>2. Kind[Incoming(e).m.op] = "status" => session.user
      BY <3>1 DEF Allowed
    <3>3. Kind[Incoming(e).m.op] = "status" => session'.user
      BY <1>0, <3>2, SessionGrows
    <3> QED BY <1>0, <2>1, <3>1, <3>3, SignedStep
  <2> QED BY <1>5, <2>2, <2>3, <2>4, <2>5, <2>6 DEF ServerReceive
<1>6. ASSUME NEW s \in started, NEW ok \in BOOLEAN, RunOperation(s, ok) PROVE SignedKept'
  <2>1. /\ Reply(s.epoch, TRUE, "result", s.id, s.op, ok, "none")
        /\ UNCHANGED signed /\ started' \subseteq started
    BY <1>6 DEF RunOperation, account
  <2>2. Kind[s.op] = "status" => session'.user
    BY <1>0, SessionGrows DEF SignedKept
  <2>3. \A k \in 1..Len(toClient') :
          \/ \E j \in 1..Len(toClient) : toClient'[k] = toClient[j]
          \/ Authorized(toClient[k])'
    BY <1>0, <2>1, <2>2, ReplyAuthorized
  <2> QED BY <1>0, <2>1, <2>3, SignedStep
<1>7. CASE SendUpdates
  <2>1. Reply(epoch, TRUE, "update", 0, NoOp, FALSE, "none") /\ UNCHANGED <<signed, started>>
    BY <1>7 DEF SendUpdates, account
  <2>2. \A k \in 1..Len(toClient') :
          \/ \E j \in 1..Len(toClient) : toClient'[k] = toClient[j]
          \/ Authorized(toClient[k])'
    BY <1>0, <2>1, ReplyAuthorized
  <2> QED BY <1>0, <2>1, <2>2, SignedStep
<1> QED BY <1>1, <1>2, <1>3, <1>4, <1>5, <1>6, <1>7 DEF Next, ClientReceive

\* A Signed client connection belongs to a session the server has authorized,
\* for any operations and any number of connections.
THEOREM SignedAuthorized == Spec => []SignedIsAuthorized
<1>1. Init => SignedKept
  BY DEF Init, SignedKept
<1>2. Owned /\ SignedKept /\ [Next]_vars => SignedKept'
  BY SignedSteps
<1>3. SignedKept => SignedIsAuthorized
  BY DEF SignedKept, SignedIsAuthorized
<1> QED BY <1>1, <1>2, <1>3, OwnedInvariant, PTL DEF Spec
=============================================================================
