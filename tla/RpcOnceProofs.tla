---------------------------- MODULE RpcOnceProofs ----------------------------
(***************************************************************************)
(* The run method of an operation is called at most once, and the calls    *)
(* the application makes behave as RpcCall promises, for every set of      *)
(* operations and every bound of RpcSession.                               *)
(*                                                                         *)
(* The argument: an operation has one token.  It is the request in a       *)
(* connection's queue, or the operation the server has started, or a       *)
(* notification that will have the request sent again, or the answer, and  *)
(* it is never two of them.  Only the first two lead to a run, and the     *)
(* token never goes back from a run to a request.                          *)
(*                                                                         *)
(* The last section follows the message ids instead: an id the client      *)
(* waits for goes from the queue of the living connection to the server    *)
(* and to the answers, or gives way to a new one, so that none is          *)
(* forgotten.                                                              *)
(***************************************************************************)
EXTENDS RpcSessionProofs

IsRequest(e, k, o) == toServer[e][k].m.op = o
IsNotice(k, o) ==
  /\ toClient[k].kind = "notice"
  /\ toClient[k].re \in DOMAIN operations /\ operations[toClient[k].re] = o
IsAnswer(k, o) == toClient[k].kind \in {"result", "pong"} /\ toClient[k].op = o

Requested(o) == \E e \in Epochs : \E k \in 1..Len(toServer[e]) : IsRequest(e, k, o)
Queued(o)    == \E s \in started : s.op = o
Noticed(o)   == \E k \in 1..Len(toClient) : IsNotice(k, o)
Answered(o)  == \E k \in 1..Len(toClient) : IsAnswer(k, o)
\* An answer that makes the operation succeed is under way.
Granted(o)   == \E k \in 1..Len(toClient) :
                  IsAnswer(k, o) /\ (toClient[k].kind = "pong" \/ toClient[k].ok)

OneRequest(o) ==
  \A e, f \in Epochs : \A k \in 1..Len(toServer[e]), l \in 1..Len(toServer[f]) :
    IsRequest(e, k, o) /\ IsRequest(f, l, o) => e = f /\ k = l
OneQueued(o) == \A s, t \in started : s.op = o /\ t.op = o => s = t
OneNotice(o) == \A k, l \in 1..Len(toClient) : IsNotice(k, o) /\ IsNotice(l, o) => k = l
OneAnswer(o) == \A k, l \in 1..Len(toClient) : IsAnswer(k, o) /\ IsAnswer(l, o) => k = l

\* What the token of o excludes.
OneKind(o) ==
  /\ Requested(o) => ~Queued(o) /\ ~Noticed(o) /\ ~Answered(o) /\ executed[o] = 0
  /\ Queued(o) => ~Noticed(o) /\ ~Answered(o) /\ executed[o] = 0
  /\ Noticed(o) => ~Answered(o) /\ executed[o] = 0
  /\ executed[o] \in {0, 1}
  /\ opState[o] = "idle" => ~Requested(o) /\ ~Queued(o) /\ ~Answered(o) /\ executed[o] = 0
  /\ opState[o] = "succeeded" \/ Granted(o) => executed[o] = 1

OneToken(o) ==
  OneRequest(o) /\ OneQueued(o) /\ OneNotice(o) /\ OneAnswer(o) /\ OneKind(o)

\* The inductive invariant, together with Owned.
Tokens == \A o \in Ops : OneToken(o)
-----------------------------------------------------------------------------
(***************************************************************************)
(* Tokens in the queues to the server.                                     *)
(***************************************************************************)

\* The server takes the request at the head of a queue.
LEMMA RequestRead ==
  ASSUME TypeOK, NEW e \in Epochs, Read(e), NEW o, OneRequest(o)
  PROVE  /\ OneRequest(o)'
         /\ Requested(o)' => Requested(o)
         /\ Incoming(e).m.op = o => Requested(o) /\ ~Requested(o)'
<1> DEFINE d(f) == IF f = e THEN 1 ELSE 0
<1>1. /\ toServer \in [Epochs -> Seq(ClientPacket)] /\ toServer[e] # <<>>
      /\ toServer' = [toServer EXCEPT ![e] = Tail(@)]
  BY DEF TypeOK, Read
<1>2. \A f \in Epochs : \A k \in 1..Len(toServer'[f]) :
        /\ k + d(f) \in 1..Len(toServer[f]) /\ k + d(f) # 0
        /\ toServer'[f][k] = toServer[f][k + d(f)]
        /\ f = e => k + d(f) # 1
  <2> SUFFICES ASSUME NEW f \in Epochs, NEW k \in 1..Len(toServer'[f])
               PROVE  /\ k + d(f) \in 1..Len(toServer[f]) /\ k + d(f) # 0
                      /\ toServer'[f][k] = toServer[f][k + d(f)]
                      /\ f = e => k + d(f) # 1
    OBVIOUS
  <2>1. CASE f = e
    <3>1. toServer'[f] = Tail(toServer[e]) /\ toServer[e] \in Seq(ClientPacket)
      BY <1>1, <2>1
    <3> QED BY <1>1, <2>1, <3>1
  <2>2. CASE f # e
    <3>1. toServer'[f] = toServer[f] /\ toServer[f] \in Seq(ClientPacket)
      BY <1>1, <2>2
    <3> QED BY <2>2, <3>1
  <2> QED BY <2>1, <2>2
<1>3. \A f \in Epochs : \A k \in 1..Len(toServer'[f]) :
        IsRequest(f, k, o)' => IsRequest(f, k + d(f), o)
  BY <1>2 DEF IsRequest
<1>4. OneRequest(o)'
  <2> SUFFICES ASSUME NEW f \in Epochs, NEW g \in Epochs, NEW k \in 1..Len(toServer'[f]),
                      NEW l \in 1..Len(toServer'[g]),
                      IsRequest(f, k, o)', IsRequest(g, l, o)'
               PROVE  f = g /\ k = l
    BY DEF OneRequest
  <2>1. f = g /\ k + d(f) = l + d(g)
    BY <1>2, <1>3 DEF OneRequest
  <2> QED BY <2>1
<1>5. Requested(o)' => Requested(o)
  BY <1>2, <1>3 DEF Requested
<1>6. ASSUME Incoming(e).m.op = o PROVE Requested(o) /\ ~Requested(o)'
  <2>1. 1 \in 1..Len(toServer[e]) /\ IsRequest(e, 1, o)
    BY <1>6, ReadFacts DEF IsRequest
  <2>2. Requested(o)
    BY <2>1 DEF Requested
  <2>3. ASSUME NEW f \in Epochs, NEW k \in 1..Len(toServer'[f]), IsRequest(f, k, o)'
        PROVE  FALSE
    <3>1. f = e /\ k + d(f) = 1
      BY <1>2, <1>3, <2>1, <2>3 DEF OneRequest
    <3> QED BY <1>2, <3>1
  <2> QED BY <2>2, <2>3 DEF Requested
<1> QED BY <1>4, <1>5, <1>6

\* The client sends a message.
LEMMA RequestSent ==
  ASSUME TypeOK, NEW id \in Nat, NEW salt \in Nat, NEW m \in Message,
         SendPacket(Packet(id, salt, m)), NEW o, OneRequest(o),
         m.op = o => ~Requested(o)
  PROVE  OneRequest(o)' /\ (Requested(o)' => Requested(o) \/ m.op = o)
<1> DEFINE p == Packet(id, salt, m)
           n == Len(toServer[epoch]) + 1
<1>1. p \in ClientPacket /\ p.m = m
  BY DEF Packet, ClientPacket
<1>2. toServer \in [Epochs -> Seq(ClientPacket)] /\ epoch \in Epochs
      /\ toServer[epoch] \in Seq(ClientPacket)
  BY DEF TypeOK
<1>3. /\ toServer'[epoch] = Append(toServer[epoch], p)
      /\ \A e \in Epochs : e # epoch => toServer'[e] = toServer[e]
  BY <1>2 DEF SendPacket
<1> HIDE DEF p
<1>4. \A k \in 1..Len(toServer'[epoch]) :
        \/ k \in 1..Len(toServer[epoch]) /\ toServer'[epoch][k] = toServer[epoch][k]
        \/ k = n /\ toServer'[epoch][k] = p
  BY <1>1, <1>2, <1>3
<1> HIDE DEF n
<1>5. \A e \in Epochs : \A k \in 1..Len(toServer'[e]) : IsRequest(e, k, o)' =>
        \/ k \in 1..Len(toServer[e]) /\ IsRequest(e, k, o)
        \/ e = epoch /\ k = n /\ m.op = o
  BY <1>1, <1>3, <1>4 DEF IsRequest
<1>6. OneRequest(o)'
  <2> SUFFICES ASSUME NEW f \in Epochs, NEW g \in Epochs, NEW k \in 1..Len(toServer'[f]),
                      NEW l \in 1..Len(toServer'[g]),
                      IsRequest(f, k, o)', IsRequest(g, l, o)'
               PROVE  f = g /\ k = l
    BY DEF OneRequest
  <2> QED BY <1>5 DEF OneRequest, Requested
<1> QED BY <1>5, <1>6 DEF Requested

\* A queue is thrown away.
LEMMA RequestDropped ==
  ASSUME TypeOK, NEW e \in Epochs, ServerDropsConnection(e), NEW o, OneRequest(o)
  PROVE  OneRequest(o)' /\ (Requested(o)' => Requested(o))
<1>1. toServer \in [Epochs -> Seq(ClientPacket)]
  BY DEF TypeOK
<1>2. \A f \in Epochs : toServer'[f] = IF f = e THEN <<>> ELSE toServer[f]
  BY <1>1 DEF ServerDropsConnection
<1>3. \A f \in Epochs : \A k \in 1..Len(toServer'[f]) :
        k \in 1..Len(toServer[f]) /\ (IsRequest(f, k, o)' => IsRequest(f, k, o))
  BY <1>1, <1>2 DEF IsRequest
<1> QED BY <1>3 DEF OneRequest, Requested

\* Nothing is sent and nothing read.
LEMMA RequestSame ==
  ASSUME UNCHANGED toServer, NEW o
  PROVE  (OneRequest(o)' <=> OneRequest(o)) /\ (Requested(o)' <=> Requested(o))
BY DEF OneRequest, Requested, IsRequest
-----------------------------------------------------------------------------
(***************************************************************************)
(* Tokens in the queue to the client.                                      *)
(***************************************************************************)

\* The client takes the first packet; it may forget operations.
LEMMA PacketTaken ==
  ASSUME TypeOK, NEW kind, ReceivePacket(kind), NEW o
  PROVE  /\ OneAnswer(o) => OneAnswer(o)'
         /\ Answered(o)' => Answered(o)
         /\ Granted(o)' => Granted(o)
         /\ OneAnswer(o) /\ IsAnswer(1, o) => Answered(o) /\ ~Answered(o)'
         /\ 1 \in 1..Len(toClient)
         /\ \A k \in 1..Len(toClient') :
              k + 1 \in 1..Len(toClient) /\ k + 1 # 1 /\ toClient'[k] = toClient[k + 1]
<1>1. toClient \in Seq(ServerPacket) /\ toClient # <<>> /\ toClient' = Tail(toClient)
  BY DEF TypeOK, ReceivePacket
<1>2. /\ 1 \in 1..Len(toClient)
      /\ \A k \in 1..Len(toClient') :
           k + 1 \in 1..Len(toClient) /\ k + 1 # 1 /\ toClient'[k] = toClient[k + 1]
  BY <1>1
<1>3. \A k \in 1..Len(toClient') : IsAnswer(k, o)' => IsAnswer(k + 1, o)
  BY <1>2 DEF IsAnswer
<1>4. OneAnswer(o) => OneAnswer(o)'
  <2> SUFFICES ASSUME OneAnswer(o), NEW k \in 1..Len(toClient'), NEW l \in 1..Len(toClient'),
                      IsAnswer(k, o)', IsAnswer(l, o)'
               PROVE  k = l
    BY DEF OneAnswer
  <2>1. k + 1 = l + 1
    BY <1>2, <1>3 DEF OneAnswer
  <2> QED BY <2>1
<1>5. (Answered(o)' => Answered(o)) /\ (Granted(o)' => Granted(o))
  BY <1>2, <1>3 DEF Answered, Granted
<1>6. ASSUME OneAnswer(o), IsAnswer(1, o) PROVE Answered(o) /\ ~Answered(o)'
  BY <1>2, <1>3, <1>6 DEF OneAnswer, Answered
<1> QED BY <1>2, <1>4, <1>5, <1>6

\* The notices that are left when the client has taken a packet and has
\* perhaps forgotten an operation or given it a new id.
LEMMA NoticeTaken ==
  ASSUME TypeOK, RepliesOwned, OwnersKept, NEW kind, ReceivePacket(kind), NEW o, OneNotice(o)
  PROVE  /\ OneNotice(o)' /\ (Noticed(o)' => Noticed(o))
         /\ IsNotice(1, o) => Noticed(o) /\ ~Noticed(o)'
<1>1. /\ 1 \in 1..Len(toClient)
      /\ \A k \in 1..Len(toClient') :
           k + 1 \in 1..Len(toClient) /\ k + 1 # 1 /\ toClient'[k] = toClient[k + 1]
  BY PacketTaken
<1>2. \A k \in 1..Len(toClient') : IsNotice(k, o)' => IsNotice(k + 1, o)
  <2>1. \A j \in 1..Len(toClient) : toClient[j].re <= lastId
    BY DEF RepliesOwned, ReplyOwned
  <2> QED BY <1>1, <2>1 DEF IsNotice, OwnersKept
<1>3. OneNotice(o)'
  <2> SUFFICES ASSUME NEW k \in 1..Len(toClient'), NEW l \in 1..Len(toClient'),
                      IsNotice(k, o)', IsNotice(l, o)'
               PROVE  k = l
    BY DEF OneNotice
  <2>1. k + 1 = l + 1
    BY <1>1, <1>2 DEF OneNotice
  <2> QED BY <2>1
<1>4. Noticed(o)' => Noticed(o)
  BY <1>1, <1>2 DEF Noticed
<1>5. ASSUME IsNotice(1, o) PROVE Noticed(o) /\ ~Noticed(o)'
  BY <1>1, <1>2, <1>5 DEF OneNotice, Noticed
<1> QED BY <1>3, <1>4, <1>5

\* The server adds a packet, or sends nothing on a lost connection.
LEMMA PacketAdded ==
  ASSUME TypeOK, NEW e, NEW related, NEW kind, NEW re, NEW q, NEW ok, NEW code,
         Reply(e, related, kind, re, q, ok, code), UNCHANGED operations, NEW o
  PROVE  /\ OneAnswer(o) /\ (kind \in {"result", "pong"} /\ q = o => ~Answered(o))
              => OneAnswer(o)'
         /\ Answered(o)' => Answered(o) \/ (kind \in {"result", "pong"} /\ q = o)
         /\ Granted(o)' =>
              Granted(o) \/ (kind \in {"result", "pong"} /\ q = o /\ (kind = "pong" \/ ok))
         /\ OneNotice(o)
              /\ (kind = "notice" /\ re \in DOMAIN operations /\ operations[re] = o => ~Noticed(o))
              => OneNotice(o)'
         /\ Noticed(o)' =>
              Noticed(o) \/ (kind = "notice" /\ re \in DOMAIN operations /\ operations[re] = o)
<1> DEFINE p == ReplyPacket(related, kind, re, q, ok, code)
           n == Len(toClient) + 1
<1>1. toClient \in Seq(ServerPacket)
  BY DEF TypeOK
<1>2. p.kind = kind /\ p.op = q /\ p.re = re
  BY DEF ReplyPacket
<1>3. p.ok = ok
  BY DEF ReplyPacket
<1> HIDE DEF p
<1>4. \A k \in 1..Len(toClient') :
        \/ k \in 1..Len(toClient) /\ toClient'[k] = toClient[k]
        \/ k = n /\ toClient'[k] = p
  <2>1. CASE Current(e)
    <3>1. toClient' = Append(toClient, p)
      BY <2>1 DEF Reply, p
    <3> QED BY <1>1, <3>1
  <2>2. CASE ~Current(e)
    BY <2>2 DEF Reply
  <2> QED BY <2>1, <2>2
<1> HIDE DEF n
<1> DEFINE answers == kind \in {"result", "pong"} /\ q = o
           notices == kind = "notice" /\ re \in DOMAIN operations /\ operations[re] = o
<1>5. \A k \in 1..Len(toClient') : IsAnswer(k, o)' =>
        (k \in 1..Len(toClient) /\ toClient'[k] = toClient[k] /\ IsAnswer(k, o))
        \/ (k = n /\ toClient'[k] = p /\ answers)
  BY <1>2, <1>4 DEF IsAnswer
<1>6. \A k \in 1..Len(toClient') : IsNotice(k, o)' =>
        (k \in 1..Len(toClient) /\ IsNotice(k, o)) \/ (k = n /\ notices)
  BY <1>2, <1>4 DEF IsNotice
<1> HIDE DEF answers, notices
<1>7. OneAnswer(o) /\ (answers => ~Answered(o)) => OneAnswer(o)'
  <2> SUFFICES ASSUME OneAnswer(o), answers => ~Answered(o), NEW k \in 1..Len(toClient'),
                      NEW l \in 1..Len(toClient'), IsAnswer(k, o)', IsAnswer(l, o)'
               PROVE  k = l
    BY DEF OneAnswer
  <2> QED BY <1>5 DEF OneAnswer, Answered
<1>8. Answered(o)' => Answered(o) \/ answers
  BY <1>5 DEF Answered
<1>9. Granted(o)' => Granted(o) \/ (answers /\ (kind = "pong" \/ ok))
  <2> SUFFICES ASSUME NEW k \in 1..Len(toClient'), IsAnswer(k, o)',
                      toClient'[k].kind = "pong" \/ toClient'[k].ok
               PROVE  Granted(o) \/ (answers /\ (kind = "pong" \/ ok))
    BY DEF Granted
  <2>1. CASE k \in 1..Len(toClient) /\ toClient'[k] = toClient[k] /\ IsAnswer(k, o)
    <3>1. toClient[k].kind = "pong" \/ toClient[k].ok
      BY <2>1
    <3> QED BY <2>1, <3>1 DEF Granted
  <2>2. CASE toClient'[k] = p /\ answers
    <3>1. p.kind = "pong" \/ p.ok
      BY <2>2
    <3>2. kind = "pong" \/ ok
      BY <1>2, <1>3, <3>1, Zenon
    <3> QED BY <2>2, <3>2
  <2> QED BY <1>5, <2>1, <2>2
<1>10. OneNotice(o) /\ (notices => ~Noticed(o)) => OneNotice(o)'
  <2> SUFFICES ASSUME OneNotice(o), notices => ~Noticed(o), NEW k \in 1..Len(toClient'),
                      NEW l \in 1..Len(toClient'), IsNotice(k, o)', IsNotice(l, o)'
               PROVE  k = l
    BY DEF OneNotice
  <2> QED BY <1>6 DEF OneNotice, Noticed
<1>11. Noticed(o)' => Noticed(o) \/ notices
  BY <1>6 DEF Noticed
<1> QED BY <1>7, <1>8, <1>9, <1>10, <1>11 DEF answers, notices

\* Nothing happens to the client's queue and its operations.
LEMMA PacketsSame ==
  ASSUME UNCHANGED <<toClient, operations>>, NEW o
  PROVE  /\ OneAnswer(o)' <=> OneAnswer(o)
         /\ Answered(o)' <=> Answered(o)
         /\ Granted(o)' <=> Granted(o)
         /\ OneNotice(o)' <=> OneNotice(o)
         /\ Noticed(o)' <=> Noticed(o)
<1>1. \A k : (IsAnswer(k, o)' <=> IsAnswer(k, o)) /\ (IsNotice(k, o)' <=> IsNotice(k, o))
  BY DEF IsAnswer, IsNotice
<1> QED BY <1>1 DEF OneAnswer, Answered, Granted, OneNotice, Noticed
-----------------------------------------------------------------------------
(***************************************************************************)
(* The server's steps.                                                     *)
(***************************************************************************)

\* A server operation is queued or it is not.
LEMMA QueuedSame ==
  ASSUME started' \subseteq started, NEW o
  PROVE  (OneQueued(o) => OneQueued(o)') /\ (Queued(o)' => Queued(o))
BY DEF OneQueued, Queued

\* A packet whose header is refused: the request becomes a notification.
LEMMA IgnoreToken ==
  ASSUME Owned, NEW e \in Epochs, IgnoreMessage(e), NEW o \in Ops, OneToken(o)
  PROVE  OneToken(o)'
<1> DEFINE q == Incoming(e).m.op
           i == Incoming(e).id
<1>1. /\ TypeOK /\ Read(e) /\ UNCHANGED <<started, executed, operations, opState>>
      /\ Reply(e, FALSE, "notice", i, NoOp, FALSE, HeaderError(Incoming(e)))
  BY DEF Owned, IgnoreMessage, Read, client, account
<1>2. /\ OneRequest(o)' /\ (Requested(o)' => Requested(o))
      /\ q = o => Requested(o) /\ ~Requested(o)'
  BY <1>1, RequestRead DEF OneToken
<1>3. i \in DOMAIN operations /\ operations[i] = o => q = o
  BY <1>1, IncomingOwned DEF Owner
<1>4. q = o => ~Noticed(o)
  BY <1>2 DEF OneToken, OneKind
<1> HIDE DEF q, i
<1>5. /\ OneAnswer(o)' /\ (Answered(o)' => Answered(o)) /\ (Granted(o)' => Granted(o))
      /\ OneNotice(o)'
      /\ Noticed(o)' => Noticed(o) \/ q = o
  <2>1. OneAnswer(o) /\ OneNotice(o)
    BY DEF OneToken
  <2>2. "notice" \notin {"result", "pong"}
    OBVIOUS
  <2> QED BY <1>1, <1>3, <1>4, <2>1, <2>2, PacketAdded, ZenonT(30)
<1>6. OneQueued(o)' /\ (Queued(o)' => Queued(o))
  BY <1>1, QueuedSame DEF OneToken
<1>7. OneKind(o)'
  BY <1>1, <1>2, <1>5, <1>6 DEF OneToken, OneKind
<1> QED BY <1>2, <1>5, <1>6, <1>7 DEF OneToken

\* A ping is run and answered at once.
LEMMA PingToken ==
  ASSUME Owned, NEW e \in Epochs, ProcessPing(e), NEW o \in Ops, OneToken(o)
  PROVE  OneToken(o)'
<1> DEFINE q == Incoming(e).m.op
           i == Incoming(e).id
<1>1. /\ TypeOK /\ Read(e) /\ UNCHANGED <<started, operations, opState>>
      /\ Reply(e, FALSE, "pong", i, q, TRUE, "none")
      /\ executed \in [Ops -> Nat] /\ executed' = [executed EXCEPT ![q] = @ + 1]
  BY DEF Owned, TypeOK, ProcessPing, Read, client, account
<1>2. /\ OneRequest(o)' /\ (Requested(o)' => Requested(o))
      /\ q = o => Requested(o) /\ ~Requested(o)'
  BY <1>1, RequestRead DEF OneToken
<1>3. q = o => ~Answered(o)
  BY <1>2 DEF OneToken, OneKind
<1> HIDE DEF q, i
<1>4. /\ OneAnswer(o)' /\ (Answered(o)' => Answered(o) \/ q = o)
      /\ Granted(o)' => Granted(o) \/ q = o
      /\ OneNotice(o)' /\ (Noticed(o)' => Noticed(o))
  <2>1. OneAnswer(o) /\ OneNotice(o) /\ "notice" # "result" /\ "notice" # "pong"
        /\ "result" # "pong"
    BY DEF OneToken
  <2> QED BY <1>1, <1>3, <2>1, PacketAdded, ZenonT(30)
<1>5. OneQueued(o)' /\ (Queued(o)' => Queued(o))
  BY <1>1, QueuedSame DEF OneToken
<1>6. executed'[o] = IF q = o THEN executed[o] + 1 ELSE executed[o]
  BY <1>1
<1>7. OneKind(o)'
  BY <1>1, <1>2, <1>4, <1>5, <1>6 DEF OneToken, OneKind
<1> QED BY <1>2, <1>4, <1>5, <1>7 DEF OneToken

\* AuthKeyUnregistered: the request becomes an answer without a run.
LEMMA RejectToken ==
  ASSUME Owned, NEW e \in Epochs, RejectUnauthorized(e), NEW o \in Ops, OneToken(o)
  PROVE  OneToken(o)'
<1> DEFINE q == Incoming(e).m.op
           i == Incoming(e).id
<1>1. /\ TypeOK /\ Read(e) /\ UNCHANGED <<started, executed, operations, opState>>
      /\ Reply(e, TRUE, "result", i, q, FALSE, "none")
  BY DEF Owned, RejectUnauthorized, Read, client, account
<1>2. /\ OneRequest(o)' /\ (Requested(o)' => Requested(o))
      /\ q = o => Requested(o) /\ ~Requested(o)'
  BY <1>1, RequestRead DEF OneToken
<1>3. q = o => ~Answered(o)
  BY <1>2 DEF OneToken, OneKind
<1> HIDE DEF q, i
<1>4. /\ OneAnswer(o)' /\ (Answered(o)' => Answered(o) \/ q = o)
      /\ Granted(o)' => Granted(o)
      /\ OneNotice(o)' /\ (Noticed(o)' => Noticed(o))
  <2>1. OneAnswer(o) /\ OneNotice(o) /\ "notice" # "result" /\ "notice" # "pong"
        /\ "result" # "pong"
    BY DEF OneToken
  <2> QED BY <1>1, <1>3, <2>1, PacketAdded, ZenonT(30)
<1>5. OneQueued(o)' /\ (Queued(o)' => Queued(o))
  BY <1>1, QueuedSame DEF OneToken
<1>6. OneKind(o)'
  BY <1>1, <1>2, <1>4, <1>5 DEF OneToken, OneKind
<1> QED BY <1>2, <1>4, <1>5, <1>6 DEF OneToken

\* The request becomes an operation of the server.
LEMMA StartToken ==
  ASSUME Owned, NEW e \in Epochs, StartOperation(e), NEW o \in Ops, OneToken(o)
  PROVE  OneToken(o)'
<1> DEFINE q == Incoming(e).m.op
           s == [epoch |-> e, id |-> Incoming(e).id, op |-> q]
<1>1. /\ TypeOK /\ Read(e) /\ UNCHANGED <<toClient, executed, operations, opState>>
      /\ started' = started \cup {s}
  BY DEF Owned, StartOperation, NoReply, Read, client, account
<1>2. /\ OneRequest(o)' /\ (Requested(o)' => Requested(o))
      /\ q = o => Requested(o) /\ ~Requested(o)'
  BY <1>1, RequestRead DEF OneToken
<1>3. q = o => ~Queued(o)
  BY <1>2 DEF OneToken, OneKind
<1>4. s.op = q
  OBVIOUS
<1> HIDE DEF s, q
<1>5. OneQueued(o)' /\ (Queued(o)' => Queued(o) \/ q = o)
  BY <1>1, <1>3, <1>4 DEF OneToken, OneQueued, Queued
<1>6. /\ OneAnswer(o)' /\ OneNotice(o)' /\ (Answered(o)' <=> Answered(o))
      /\ (Granted(o)' <=> Granted(o)) /\ (Noticed(o)' <=> Noticed(o))
  BY <1>1, PacketsSame DEF OneToken
<1>7. OneKind(o)'
  BY <1>1, <1>2, <1>5, <1>6 DEF OneToken, OneKind
<1> QED BY <1>2, <1>5, <1>6, <1>7 DEF OneToken

\* A packet that is read without an answer, and a queue that is thrown away.
LEMMA LostToken ==
  ASSUME Owned, NEW e \in Epochs,
         ProcessMessageAck(e) \/ NotProcessed(e) \/ ServerDropsConnection(e),
         NEW o \in Ops, OneToken(o)
  PROVE  OneToken(o)'
<1>1. TypeOK /\ UNCHANGED <<toClient, executed, operations, opState, started>>
  BY DEF Owned, ProcessMessageAck, NotProcessed, ServerDropsConnection, NoReply, Read,
         client, account
<1>2. OneRequest(o)' /\ (Requested(o)' => Requested(o))
  BY <1>1, RequestRead, RequestDropped DEF OneToken, ProcessMessageAck, NotProcessed
<1>3. OneQueued(o)' /\ (Queued(o)' => Queued(o))
  BY <1>1, QueuedSame DEF OneToken
<1>4. /\ OneAnswer(o)' /\ OneNotice(o)' /\ (Answered(o)' <=> Answered(o))
      /\ (Granted(o)' <=> Granted(o)) /\ (Noticed(o)' <=> Noticed(o))
  BY <1>1, PacketsSame DEF OneToken
<1>5. OneKind(o)'
  BY <1>1, <1>2, <1>3, <1>4 DEF OneToken, OneKind
<1> QED BY <1>2, <1>3, <1>4, <1>5 DEF OneToken

\* The operation is run and answered.
LEMMA RunToken ==
  ASSUME Owned, NEW s \in started, NEW ok \in BOOLEAN, RunOperation(s, ok),
         NEW o \in Ops, OneToken(o)
  PROVE  OneToken(o)'
<1>1. /\ TypeOK /\ UNCHANGED <<toServer, operations, opState>>
      /\ Reply(s.epoch, TRUE, "result", s.id, s.op, ok, "none")
      /\ started' = started \ {s}
      /\ executed \in [Ops -> Nat] /\ executed' = [executed EXCEPT ![s.op] = @ + 1]
  BY DEF Owned, TypeOK, RunOperation, client, account
<1>2. OneRequest(o)' /\ (Requested(o)' <=> Requested(o))
  BY <1>1, RequestSame DEF OneToken
<1>3. /\ OneQueued(o)' /\ (Queued(o)' => Queued(o))
      /\ s.op = o => Queued(o) /\ ~Queued(o)'
  BY <1>1 DEF OneToken, OneQueued, Queued
<1>4. s.op = o => ~Answered(o)
  BY <1>3 DEF OneToken, OneKind
<1>5. /\ OneAnswer(o)' /\ (Answered(o)' => Answered(o) \/ s.op = o)
      /\ Granted(o)' => Granted(o) \/ s.op = o
      /\ OneNotice(o)' /\ (Noticed(o)' => Noticed(o))
  <2>1. OneAnswer(o) /\ OneNotice(o) /\ "notice" # "result" /\ "notice" # "pong"
        /\ "result" # "pong"
    BY DEF OneToken
  <2> QED BY <1>1, <1>4, <2>1, PacketAdded, ZenonT(30)
<1>6. executed'[o] = IF s.op = o THEN executed[o] + 1 ELSE executed[o]
  BY <1>1
<1>7. OneKind(o)'
  BY <1>1, <1>2, <1>3, <1>5, <1>6 DEF OneToken, OneKind
<1> QED BY <1>2, <1>3, <1>5, <1>7 DEF OneToken

\* Updates, salts and a step that changes nothing.
LEMMA OtherToken ==
  ASSUME Owned, SendUpdates \/ RotateSalt \/ ExpireOldSalt \/ UNCHANGED vars,
         NEW o \in Ops, OneToken(o)
  PROVE  OneToken(o)'
<1>1. TypeOK /\ UNCHANGED <<toServer, executed, operations, opState, started>>
  BY DEF Owned, SendUpdates, RotateSalt, ExpireOldSalt, vars, client, account
<1>2. OneRequest(o)' /\ (Requested(o)' <=> Requested(o))
  BY <1>1, RequestSame DEF OneToken
<1>3. OneQueued(o)' /\ (Queued(o)' => Queued(o))
  BY <1>1, QueuedSame DEF OneToken
<1>4. /\ OneAnswer(o)' /\ OneNotice(o)' /\ (Answered(o)' => Answered(o))
      /\ (Granted(o)' => Granted(o)) /\ (Noticed(o)' => Noticed(o))
  <2>1. CASE SendUpdates
    <3>1. Reply(epoch, TRUE, "update", 0, NoOp, FALSE, "none")
      BY <2>1 DEF SendUpdates
    <3>2. OneAnswer(o) /\ OneNotice(o) /\ "update" # "notice"
         /\ "update" \notin {"result", "pong"}
      BY DEF OneToken
    <3> QED BY <1>1, <3>1, <3>2, PacketAdded, ZenonT(30)
  <2>2. CASE ~SendUpdates
    <3>1. UNCHANGED toClient
      BY <2>2 DEF RotateSalt, ExpireOldSalt, vars
    <3> QED BY <1>1, <3>1, PacketsSame DEF OneToken
  <2> QED BY <2>1, <2>2
<1>5. OneKind(o)'
  BY <1>1, <1>2, <1>3, <1>4 DEF OneToken, OneKind
<1> QED BY <1>2, <1>3, <1>4, <1>5 DEF OneToken
-----------------------------------------------------------------------------
(***************************************************************************)
(* The client's steps.                                                     *)
(***************************************************************************)

\* A new id for an operation is the id of no notification.
LEMMA NoticeKept ==
  ASSUME TypeOK, RepliesOwned, OwnersKept, UNCHANGED toClient, NEW o
  PROVE  /\ OneNotice(o) => OneNotice(o)'
         /\ Noticed(o)' => Noticed(o)
         /\ OneAnswer(o)' <=> OneAnswer(o)
         /\ Answered(o)' <=> Answered(o)
         /\ Granted(o)' <=> Granted(o)
<1>1. \A k \in 1..Len(toClient) : IsNotice(k, o)' => IsNotice(k, o)
  <2>1. \A j \in 1..Len(toClient) : toClient[j].re <= lastId
    BY DEF RepliesOwned, ReplyOwned
  <2> QED BY <2>1 DEF IsNotice, OwnersKept
<1>2. \A k : IsAnswer(k, o)' <=> IsAnswer(k, o)
  BY DEF IsAnswer
<1> QED BY <1>1, <1>2 DEF OneNotice, Noticed, OneAnswer, Answered, Granted

\* An operation nobody waits for is not noticed.
LEMMA NoticedPending ==
  ASSUME Owned, NEW o \in Ops, opState[o] # "pending"
  PROVE  ~Noticed(o)
BY DEF Owned, PendingOwned, Noticed, IsNotice, Range

\* Starting an operation makes its first request.
LEMMA SendRpcToken ==
  ASSUME Owned, NEW q \in Ops, SendRpc(q), NEW o \in Ops, OneToken(o)
  PROVE  OneToken(o)'
<1> DEFINE new == NewMessageId(lastId)
<1>1. /\ TypeOK /\ RepliesOwned /\ IsMap(operations, Ops)
      /\ lastId \in Nat /\ new \in Nat /\ new > lastId /\ serverSalt \in Nat
      /\ RpcMessage(q) \in Message /\ RpcMessage(q).op = q
      /\ opState \in [Ops -> OpStates]
  BY IdFacts, BuiltMessages DEF Owned, TypeOK
<1>2. /\ operations' = Insert(operations, new, q) /\ lastId' = new
      /\ UNCHANGED <<toClient, started, executed>>
      /\ SendPacket(Packet(new, serverSalt, RpcMessage(q)))
      /\ opState' = [opState EXCEPT ![q] = "pending"] /\ opState[q] = "idle"
  BY DEF SendRpc
<1>3. q = o => ~Requested(o) /\ ~Queued(o) /\ ~Answered(o) /\ executed[o] = 0 /\ ~Noticed(o)
  BY <1>2, NoticedPending DEF OneToken, OneKind
<1>4. OneRequest(o)' /\ (Requested(o)' => Requested(o) \/ q = o)
  BY <1>1, <1>2, <1>3, RequestSent DEF OneToken
<1> HIDE DEF new
<1>5. OwnersKept
  <2>1. /\ DOMAIN operations' = DOMAIN operations \cup {new}
        /\ \A i \in DOMAIN operations : i # new => operations'[i] = operations[i]
    BY <1>2 DEF Insert
  <2> QED BY <1>1, <1>2, <2>1 DEF OwnersKept
<1>6. /\ OneNotice(o)' /\ (Noticed(o)' => Noticed(o)) /\ OneAnswer(o)'
      /\ (Answered(o)' <=> Answered(o)) /\ (Granted(o)' <=> Granted(o))
  BY <1>1, <1>2, <1>5, NoticeKept DEF OneToken
<1>7. OneQueued(o)' /\ (Queued(o)' => Queued(o))
  BY <1>2, QueuedSame DEF OneToken
<1>8. opState'[o] = IF o = q THEN "pending" ELSE opState[o]
  BY <1>1, <1>2
<1>9. q = o => ~Granted(o)
  BY <1>3 DEF Granted, Answered
<1>10. OneKind(o)'
  BY <1>2, <1>3, <1>4, <1>6, <1>7, <1>8, <1>9 DEF OneToken, OneKind
<1> QED BY <1>4, <1>6, <1>7, <1>10 DEF OneToken

\* An acknowledgement is the request of no operation.
LEMMA AckToken ==
  ASSUME Owned, AcknowledgeMessages, NEW o \in Ops, OneToken(o)
  PROVE  OneToken(o)'
<1>1. /\ TypeOK /\ NewMessageId(lastId) \in Nat /\ serverSalt \in Nat
      /\ AckMessage \in Message /\ AckMessage.op # o
  BY IdFacts, BuiltMessages, OpsAssumption DEF Owned, TypeOK
<1>2. /\ UNCHANGED <<toClient, operations, started, executed, opState>>
      /\ SendPacket(Packet(NewMessageId(lastId), serverSalt, AckMessage))
  BY DEF AcknowledgeMessages, account
<1>3. OneRequest(o)' /\ (Requested(o)' => Requested(o))
  BY <1>1, <1>2, RequestSent DEF OneToken
<1>4. /\ OneAnswer(o)' /\ OneNotice(o)' /\ (Answered(o)' <=> Answered(o))
      /\ (Granted(o)' <=> Granted(o)) /\ (Noticed(o)' <=> Noticed(o))
  BY <1>2, PacketsSame DEF OneToken
<1>5. OneQueued(o)' /\ (Queued(o)' => Queued(o))
  BY <1>2, QueuedSame DEF OneToken
<1>6. OneKind(o)'
  BY <1>2, <1>3, <1>4, <1>5 DEF OneToken, OneKind
<1> QED BY <1>3, <1>4, <1>5, <1>6 DEF OneToken

\* A packet that the client takes without sending anything.
LEMMA TakeToken ==
  ASSUME Owned, OwnersKept, NEW kind, ReceivePacket(kind), UNCHANGED <<toServer, started, executed>>,
         NEW o \in Ops, OneToken(o),
         \/ UNCHANGED opState
         \/ opState'[o] \in {opState[o], "failed"}
         \/ opState'[o] = "succeeded" /\ executed[o] = 1
  PROVE  OneToken(o)'
<1>1. TypeOK /\ RepliesOwned
  BY DEF Owned
<1>2. OneRequest(o)' /\ (Requested(o)' <=> Requested(o))
  BY RequestSame DEF OneToken
<1>3. OneQueued(o)' /\ (Queued(o)' => Queued(o))
  BY QueuedSame DEF OneToken
<1>4. OneAnswer(o)' /\ (Answered(o)' => Answered(o)) /\ (Granted(o)' => Granted(o))
  BY <1>1, PacketTaken DEF OneToken
<1>5. OneNotice(o)' /\ (Noticed(o)' => Noticed(o))
  BY <1>1, NoticeTaken DEF OneToken
<1>6. OneKind(o)'
  BY <1>2, <1>3, <1>4, <1>5 DEF OneToken, OneKind
<1> QED BY <1>2, <1>3, <1>4, <1>5, <1>6 DEF OneToken

\* What an answer does to the calls: the operation it belongs to was pending
\* and succeeds only if it was run.
FinishedOne(o, state) ==
  /\ o \in Ops /\ opState[o] = "pending"
  /\ opState' = [opState EXCEPT ![o] = state]
  /\ state = "failed" \/ (state = "succeeded" /\ executed[o] = 1)

LEMMA AnswerFinishes ==
  ASSUME Owned, Tokens, ProcessRpcResult \/ ProcessPong
  PROVE  UNCHANGED opState \/ \E o \in Ops, state \in OpStates : FinishedOne(o, state)
<1> DEFINE o == operations[Received.re]
<1>1. TypeOK /\ RepliesOwned /\ PendingOwned /\ IsMap(operations, Ops)
  BY DEF Owned, TypeOK
<1>2. /\ ReceivePacket("result") \/ ReceivePacket("pong")
      /\ Received.kind \in {"result", "pong"}
  BY DEF ProcessRpcResult, ProcessPong, ReceivePacket
<1>3. CASE Received.re \notin DOMAIN operations
  BY <1>3 DEF ProcessRpcResult, ProcessPong
<1>4. CASE Received.re \in DOMAIN operations
  <2>1. 1 \in 1..Len(toClient) /\ Received = toClient[1]
    BY <1>1, <1>2, ReceivedFacts
  <2>2. o \in Ops /\ opState[o] = "pending" /\ Received.op = o
    BY <1>1, <1>2, <1>4, <2>1 DEF IsMap, PendingOwned, Range, RepliesOwned, ReplyOwned, Owner
  <2>3. IsAnswer(1, o)
    BY <1>2, <2>1, <2>2 DEF IsAnswer
  <2>4. Received.kind = "pong" \/ Received.ok => executed[o] = 1
    <3>1. Received.kind = "pong" \/ Received.ok => Granted(o)
      BY <2>1, <2>3 DEF Granted
    <3> QED BY <2>2, <3>1 DEF Tokens, OneToken, OneKind
  <2>5. \E state \in OpStates : FinishedOne(o, state)
    <3>1. CASE ProcessRpcResult
      <4>1. opState' = [opState EXCEPT ![o] = FinishedState(Received.ok)]
        BY <1>4, <3>1 DEF ProcessRpcResult
      <4>2. /\ FinishedState(Received.ok) \in OpStates
            /\ FinishedState(Received.ok) = "failed"
               \/ (FinishedState(Received.ok) = "succeeded" /\ executed[o] = 1)
        BY <2>4 DEF FinishedState, OpStates
      <4> HIDE DEF o
      <4> QED BY <2>2, <4>1, <4>2 DEF FinishedOne
    <3>2. CASE ProcessPong
      <4>1. opState' = [opState EXCEPT ![o] = "succeeded"]
        BY <1>4, <3>2 DEF ProcessPong
      <4>2. executed[o] = 1 /\ "succeeded" \in OpStates
        BY <2>4, <3>2 DEF ProcessPong, ReceivePacket, OpStates
      <4> HIDE DEF o
      <4> QED BY <2>2, <4>1, <4>2 DEF FinishedOne
    <3> QED BY <3>1, <3>2
  <2> QED BY <2>2, <2>5
<1> QED BY <1>3, <1>4

\* An answer finishes its operation and nothing else.
LEMMA AnswerToken ==
  ASSUME Owned, Tokens, ProcessRpcResult \/ ProcessPong, NEW o \in Ops
  PROVE  OneToken(o)'
<1>1. /\ IsMap(operations, Ops) /\ lastId \in Nat /\ opState \in [Ops -> OpStates]
      /\ OneToken(o)
  BY DEF Owned, TypeOK, Tokens
<1>2. /\ \E kind : ReceivePacket(kind)
      /\ operations' = Drop(operations, Received.re)
      /\ UNCHANGED <<toServer, started, executed, lastId>>
  BY DEF ProcessRpcResult, ProcessPong
<1>3. OwnersKept
  BY <1>1, <1>2 DEF Drop, Restrict, OwnersKept
<1>4. CASE UNCHANGED opState
  BY <1>1, <1>2, <1>3, <1>4, TakeToken
<1>5. CASE \E q \in Ops, state \in OpStates : FinishedOne(q, state)
  <2>1. PICK q \in Ops, state \in OpStates : FinishedOne(q, state)
    BY <1>5
  <2>2. opState'[o] = IF o = q THEN state ELSE opState[o]
    BY <1>1, <2>1 DEF FinishedOne
  <2>3. opState'[o] \in {opState[o], "failed"} \/ (opState'[o] = "succeeded" /\ executed[o] = 1)
    BY <2>1, <2>2 DEF FinishedOne
  <2> QED BY <1>1, <1>2, <1>3, <2>3, TakeToken
<1> QED BY <1>4, <1>5, AnswerFinishes

\* resendIgnoredMessage turns the notification into a new request.
LEMMA ResendToken ==
  ASSUME Owned, NEW kind, ReceivePacket(kind), Received.kind = "notice",
         Received.re \in DOMAIN operations,
         NEW m \in Message, m.op = operations[Received.re], Resend(Received.re, m),
         UNCHANGED <<started, executed, opState>>, NEW o \in Ops, OneToken(o)
  PROVE  OneToken(o)'
<1> DEFINE new == NewMessageId(lastId)
           old == Received.re
<1>1. /\ TypeOK /\ RepliesOwned /\ IsMap(operations, Ops) /\ Received.salt \in Nat
      /\ lastId \in Nat /\ new \in Nat /\ new > lastId
  BY IdFacts, ReceiveType DEF Owned, TypeOK
<1>2. /\ operations' = Insert(Drop(operations, old), new, operations[old])
      /\ lastId' = new /\ SendPacket(Packet(new, Received.salt, m))
  BY DEF Resend
<1>3. m.op = o => IsNotice(1, o) /\ Noticed(o)
  BY <1>1, ReceivedFacts DEF IsNotice, Noticed
<1>4. m.op = o => ~Requested(o) /\ ~Queued(o) /\ ~Answered(o) /\ executed[o] = 0
  BY <1>3 DEF OneToken, OneKind
<1>5. OneRequest(o)' /\ (Requested(o)' => Requested(o) \/ m.op = o)
  BY <1>1, <1>2, <1>4, RequestSent DEF OneToken
<1> HIDE DEF new, old
<1>6. OwnersKept
  <2>1. /\ DOMAIN operations' \subseteq DOMAIN operations \cup {new}
        /\ \A i \in DOMAIN operations' : i # new => operations'[i] = operations[i]
    BY <1>2 DEF Insert, Drop, Restrict
  <2> QED BY <1>1, <1>2, <2>1 DEF OwnersKept
<1>7. /\ OneNotice(o)' /\ (Noticed(o)' => Noticed(o))
      /\ m.op = o => ~Noticed(o)'
  BY <1>1, <1>3, <1>6, NoticeTaken DEF OneToken
<1>8. OneAnswer(o)' /\ (Answered(o)' => Answered(o)) /\ (Granted(o)' => Granted(o))
  BY <1>1, PacketTaken DEF OneToken
<1>9. OneQueued(o)' /\ (Queued(o)' => Queued(o))
  BY QueuedSame DEF OneToken
<1>10. m.op = o => opState[o] # "idle"
  BY <1>3, NoticedPending
<1>11. OneKind(o)'
  BY <1>4, <1>5, <1>7, <1>8, <1>9, <1>10 DEF OneToken, OneKind
<1> QED BY <1>5, <1>7, <1>8, <1>9, <1>11 DEF OneToken

\* processIgnoredMessageNotification.
LEMMA NoticeToken ==
  ASSUME Owned, ProcessIgnoredMessageNotification, NEW o \in Ops, OneToken(o)
  PROVE  OneToken(o)'
<1> DEFINE old == Received.re
           m   == ResentMessage(Received.code, messages[old])
<1>1. /\ TypeOK /\ IsMap(messages, Message) /\ MapsAgree /\ ReceivePacket("notice")
      /\ UNCHANGED <<started, executed, opState>>
  BY DEF Owned, TypeOK, ProcessIgnoredMessageNotification, account
<1>2. CASE old \in DOMAIN messages /\ old \in DOMAIN operations
  <2>1. messages[old] \in Message
    BY <1>1, <1>2 DEF IsMap
  <2>2. m \in Message /\ m.op = operations[old]
    BY <1>1, <1>2, <2>1, MessageFacts DEF MapsAgree
  <2>3. Resend(old, m)
    BY <1>2 DEF ProcessIgnoredMessageNotification
  <2>4. Received.kind = "notice"
    BY <1>1 DEF ReceivePacket
  <2> HIDE DEF m
  <2> QED BY <1>1, <1>2, <2>2, <2>3, <2>4, ResendToken
<1>3. CASE ~(old \in DOMAIN messages /\ old \in DOMAIN operations)
  <2>1. UNCHANGED <<toServer, operations, lastId>>
    BY <1>3 DEF ProcessIgnoredMessageNotification
  <2> QED BY <1>1, <2>1, MapsUnchanged, TakeToken
<1> QED BY <1>2, <1>3

\* The end of a connection, and resumption.
LEMMA ConnectionToken ==
  ASSUME Owned, ConnectionLost \/ ClientCrash \/ Resume, NEW o \in Ops, OneToken(o)
  PROVE  OneToken(o)'
<1>1. TypeOK /\ UNCHANGED <<toServer, started, executed>>
  BY DEF Owned, ConnectionLost, ClientCrash, Resume
<1>2. OneRequest(o)' /\ (Requested(o)' <=> Requested(o))
  BY <1>1, RequestSame DEF OneToken
<1>3. OneQueued(o)' /\ (Queued(o)' => Queued(o))
  BY <1>1, QueuedSame DEF OneToken
<1>4. /\ OneAnswer(o)' /\ OneNotice(o)' /\ (Answered(o)' => Answered(o))
      /\ (Granted(o)' => Granted(o)) /\ (Noticed(o)' => Noticed(o))
  <2>1. CASE Resume
    <3>1. UNCHANGED <<toClient, operations>>
      BY <2>1 DEF Resume
    <3> QED BY <3>1, PacketsSame DEF OneToken
  <2>2. CASE ConnectionLost \/ ClientCrash
    <3>1. toClient' = <<>>
      BY <2>2 DEF ConnectionLost, ClientCrash, LayersGone
    <3> QED BY <3>1 DEF OneAnswer, OneNotice, Answered, Granted, Noticed
  <2> QED BY <2>1, <2>2
<1>5. opState'[o] \in {opState[o], "failed", "lost"}
  BY DEF ConnectionLost, ClientCrash, Resume, account
<1>6. OneKind(o)'
  BY <1>1, <1>2, <1>3, <1>4, <1>5 DEF OneToken, OneKind
<1> QED BY <1>2, <1>3, <1>4, <1>6 DEF OneToken
-----------------------------------------------------------------------------
\* The tokens are kept by every step.
LEMMA TokensKept ==
  ASSUME Owned, Tokens, [Next]_vars
  PROVE  Tokens'
<1> SUFFICES ASSUME NEW o \in Ops PROVE OneToken(o)'
  BY DEF Tokens
<1>1. OneToken(o)
  BY DEF Tokens
<1>2. CASE Next
  <2>1. CASE ClientReceive
    <3>1. CASE ProcessUpdates
      <4>1. /\ TypeOK /\ ReceivePacket("update")
            /\ UNCHANGED <<toServer, started, executed, opState, operations, lastId>>
        BY <3>1 DEF Owned, ProcessUpdates, account
      <4> QED BY <1>1, <4>1, MapsUnchanged, TakeToken
    <3> QED BY <1>1, <2>1, <3>1, AnswerToken, NoticeToken DEF ClientReceive
  <2>2. ASSUME NEW e \in Epochs, ServerReceive(e) PROVE OneToken(o)'
    BY <1>1, <2>2, IgnoreToken, PingToken, LostToken, RejectToken, StartToken DEF ServerReceive
  <2> QED BY <1>1, <1>2, <2>1, <2>2, SendRpcToken, AckToken, ConnectionToken, LostToken,
             RunToken, OtherToken DEF Next
<1>3. CASE UNCHANGED vars
  BY <1>1, <1>3, OtherToken
<1> QED BY <1>2, <1>3

\* An operation has one token, for ever.
THEOREM TokensInvariant == Spec => []Tokens
<1>1. Init => Tokens
  <2> SUFFICES ASSUME Init, NEW o \in Ops PROVE OneToken(o)
    BY DEF Tokens
  <2>1. /\ toClient = <<>> /\ started = {} /\ toServer = [e \in Epochs |-> <<>>]
        /\ opState[o] = "idle" /\ executed[o] = 0
    BY DEF Init
  <2>2. OneRequest(o) /\ ~Requested(o)
    BY <2>1 DEF OneRequest, Requested
  <2>3. /\ OneQueued(o) /\ ~Queued(o) /\ OneNotice(o) /\ ~Noticed(o)
        /\ OneAnswer(o) /\ ~Answered(o) /\ ~Granted(o)
    BY <2>1 DEF OneQueued, Queued, OneNotice, Noticed, OneAnswer, Answered, Granted
  <2> QED BY <2>1, <2>2, <2>3 DEF OneToken, OneKind
<1>2. Owned /\ Tokens /\ [Next]_vars => Tokens'
  BY TokensKept
<1> QED BY <1>1, <1>2, OwnedInvariant, PTL DEF Spec

\* The run method of an operation is called at most once however often its
\* message is ignored and sent again, and over any number of connections.
THEOREM RunAtMostOnce == Spec => []ExecutedAtMostOnce
<1>1. Tokens => ExecutedAtMostOnce
  BY DEF Tokens, OneToken, OneKind, ExecutedAtMostOnce
<1> QED BY <1>1, TokensInvariant, PTL
-----------------------------------------------------------------------------
(***************************************************************************)
(* The refinement of RpcCall: each step of the session is a step of the    *)
(* abstract calls or changes none of them.                                 *)
(***************************************************************************)

\* The steps that change neither the calls nor the runs.
LEMMA CallsUntouched ==
  ASSUME \/ AcknowledgeMessages \/ ProcessUpdates \/ ProcessIgnoredMessageNotification
         \/ Resume \/ RotateSalt \/ ExpireOldSalt \/ SendUpdates
         \/ \E e \in Epochs : \/ ServerDropsConnection(e) \/ IgnoreMessage(e)
                              \/ ProcessMessageAck(e) \/ RejectUnauthorized(e)
                              \/ StartOperation(e) \/ NotProcessed(e)
         \/ UNCHANGED vars
  PROVE  UNCHANGED <<opState, executed>>
BY DEF AcknowledgeMessages, ProcessUpdates, ProcessIgnoredMessageNotification, Resume,
       RotateSalt, ExpireOldSalt, SendUpdates, ServerDropsConnection, IgnoreMessage,
       ProcessMessageAck, RejectUnauthorized, StartOperation, NotProcessed, Read, vars, account

\* A run of an operation whose token is a request or a started operation.
LEMMA RunIsRun ==
  ASSUME Owned, Tokens, NEW o \in Ops, Requested(o) \/ Queued(o),
         executed' = [executed EXCEPT ![o] = @ + 1], UNCHANGED opState
  PROVE  Abstract!Run(o)
<1>1. opState[o] # "idle" /\ executed[o] = 0
  BY DEF Tokens, OneToken, OneKind
<1>2. executed' = [executed EXCEPT ![o] = 1]
  BY <1>1
<1> QED BY <1>1, <1>2 DEF Abstract!Run

\* Every step of the session is a step of the calls, or leaves them alone.
LEMMA StepIsCall ==
  ASSUME Owned, Tokens, [Next]_vars
  PROVE  [Abstract!Next]_(Abstract!vars)
<1>0. /\ TypeOK /\ opState \in [Ops -> OpStates] /\ executed \in [Ops -> Nat]
      /\ IsMap(operations, Ops) /\ PendingOwned
  BY DEF Owned, TypeOK
<1>1. ASSUME NEW o \in Ops, SendRpc(o) PROVE Abstract!Next
  <2>1. Abstract!Call(o)
    BY <1>1 DEF SendRpc, Abstract!Call
  <2> QED BY <2>1 DEF Abstract!Next
<1>2. ASSUME NEW e \in Epochs, ProcessPing(e) PROVE Abstract!Next
  <2> DEFINE o == Incoming(e).m.op
  <2>1. /\ Read(e) /\ o # NoOp /\ executed' = [executed EXCEPT ![o] = @ + 1]
        /\ UNCHANGED opState
    BY <1>2 DEF ProcessPing, Read, account
  <2>2. o \in Ops
    BY <2>1, IncomingOwned
  <2>3. Requested(o)
    BY <1>0, <2>1, ReadFacts DEF Requested, IsRequest
  <2> HIDE DEF o
  <2>4. Abstract!Run(o)
    BY <2>1, <2>2, <2>3, RunIsRun
  <2> QED BY <2>2, <2>4 DEF Abstract!Next
<1>3. ASSUME NEW s \in started, NEW ok \in BOOLEAN, RunOperation(s, ok) PROVE Abstract!Next
  <2>1. s.op \in Ops
    BY <1>0 DEF TypeOK, Started
  <2>2. Queued(s.op) /\ executed' = [executed EXCEPT ![s.op] = @ + 1] /\ UNCHANGED opState
    BY <1>3 DEF Queued, RunOperation, account
  <2>3. Abstract!Run(s.op)
    BY <2>1, <2>2, RunIsRun
  <2> QED BY <2>1, <2>3 DEF Abstract!Next
<1>4. CASE ProcessRpcResult \/ ProcessPong
  <2>1. UNCHANGED executed
    BY <1>4 DEF ProcessRpcResult, ProcessPong
  <2>2. CASE UNCHANGED opState
    BY <2>1, <2>2 DEF Abstract!vars
  <2>3. CASE \E o \in Ops, state \in OpStates : FinishedOne(o, state)
    <3>1. PICK o \in Ops, state \in OpStates : FinishedOne(o, state)
      BY <2>3
    <3>2. CASE state = "succeeded"
      <4>1. Abstract!Succeed(o)
        BY <2>1, <3>1, <3>2 DEF FinishedOne, Abstract!Succeed
      <4> QED BY <4>1 DEF Abstract!Next
    <3>3. CASE state = "failed"
      <4>1. opState' = [q \in Ops |-> IF q \in {o} THEN "failed" ELSE opState[q]]
        BY <1>0, <3>1, <3>3 DEF FinishedOne
      <4>2. Abstract!Fail({o}, "failed")
        BY <2>1, <3>1, <4>1 DEF FinishedOne, Abstract!Fail
      <4> QED BY <4>2 DEF Abstract!Next
    <3> QED BY <3>1, <3>2, <3>3 DEF FinishedOne
  <2> QED BY <1>4, <2>2, <2>3, AnswerFinishes
<1>5. CASE ConnectionLost \/ ClientCrash
  <2> DEFINE S == Range(operations)
  <2>1. S \in SUBSET Ops /\ \A o \in S : opState[o] = "pending"
    BY <1>0 DEF Range, IsMap, PendingOwned
  <2>2. /\ UNCHANGED executed
        /\ \E how \in {"failed", "lost"} :
             opState' = [o \in Ops |-> IF o \in S THEN how ELSE opState[o]]
    BY <1>5 DEF ConnectionLost, ClientCrash
  <2> HIDE DEF S
  <2>3. \E how \in {"failed", "lost"} : Abstract!Fail(S, how)
    BY <2>1, <2>2 DEF Abstract!Fail
  <2> QED BY <2>1, <2>3 DEF Abstract!Next
<1>6. CASE UNCHANGED <<opState, executed>>
  BY <1>6 DEF Abstract!vars
<1> QED BY <1>1, <1>2, <1>3, <1>4, <1>5, <1>6, CallsUntouched
        DEF Next, ClientReceive, ServerReceive

\* The session keeps the promise of RpcCall: a call is run at most once,
\* succeeds only if it was run, and is reported once.
THEOREM SessionKeepsPromise == Spec => CallSpec
<1>1. Init => Abstract!Init
  BY DEF Init, Abstract!Init
<1>2. Owned /\ Tokens /\ [Next]_vars => [Abstract!Next]_(Abstract!vars)
  BY StepIsCall
<1> QED BY <1>1, <1>2, OwnedInvariant, TokensInvariant, PTL DEF Spec, CallSpec, Abstract!Spec
-----------------------------------------------------------------------------
(***************************************************************************)
(* No operation is forgotten on the way.                                   *)
(***************************************************************************)

\* The three places of UnderWay.
InQueue(i)  == \E k \in 1..Len(toServer[epoch]) : toServer[epoch][k].id = i
InServer(i) == \E s \in started : s.epoch = epoch /\ s.id = i
InReply(i)  == \E k \in 1..Len(toClient) : toClient[k].kind # "update" /\ toClient[k].re = i

\* The server takes one packet, and no other leaves the queue.
LEMMA QueueRead ==
  ASSUME TypeOK, NEW e \in Epochs, Read(e), NEW i, InQueue(i)
  PROVE  InQueue(i)' \/ (e = epoch /\ Incoming(e).id = i)
<1>1. /\ toServer \in [Epochs -> Seq(ClientPacket)] /\ toServer[e] # <<>>
      /\ toServer' = [toServer EXCEPT ![e] = Tail(@)] /\ epoch \in Epochs /\ epoch' = epoch
  BY DEF TypeOK, Read
<1>2. PICK k \in 1..Len(toServer[epoch]) : toServer[epoch][k].id = i
  BY DEF InQueue
<1>3. CASE e # epoch
  BY <1>1, <1>2, <1>3 DEF InQueue
<1>4. CASE e = epoch /\ k = 1
  BY <1>2, <1>4, ReadFacts
<1>5. CASE e = epoch /\ k # 1
  <2>1. toServer'[epoch] = Tail(toServer[epoch]) /\ toServer[epoch] \in Seq(ClientPacket)
    BY <1>1, <1>5
  <2>2. k - 1 \in 1..Len(toServer'[epoch]) /\ toServer'[epoch][k - 1] = toServer[epoch][k]
    BY <1>1, <1>2, <1>5, <2>1
  <2>3. InQueue(i)'
    BY <1>1, <1>2, <2>2 DEF InQueue
  <2> QED BY <2>3
<1> QED BY <1>3, <1>4, <1>5

\* A packet is added to the queue of the current connection.
LEMMA QueueSent ==
  ASSUME TypeOK, NEW id \in Nat, NEW salt \in Nat, NEW m \in Message,
         SendPacket(Packet(id, salt, m)), UNCHANGED epoch
  PROVE  InQueue(id)' /\ \A i : InQueue(i) => InQueue(i)'
<1> DEFINE p == Packet(id, salt, m)
           n == Len(toServer[epoch]) + 1
<1>1. p \in ClientPacket /\ p.id = id
  BY DEF Packet, ClientPacket
<1>2. toServer[epoch] \in Seq(ClientPacket) /\ toServer'[epoch] = Append(toServer[epoch], p)
  BY DEF TypeOK, SendPacket
<1> HIDE DEF p
<1>3. /\ n \in 1..Len(toServer'[epoch]) /\ toServer'[epoch][n] = p
      /\ \A k \in 1..Len(toServer[epoch]) :
           k \in 1..Len(toServer'[epoch]) /\ toServer'[epoch][k] = toServer[epoch][k]
  BY <1>1, <1>2
<1> HIDE DEF n
<1> QED BY <1>1, <1>3 DEF InQueue

\* The client takes one packet, and no other leaves its queue.
LEMMA ReplyTaken ==
  ASSUME TypeOK, NEW kind, ReceivePacket(kind), NEW i, InReply(i)
  PROVE  InReply(i)' \/ (Received.kind # "update" /\ Received.re = i)
<1>1. toClient \in Seq(ServerPacket) /\ toClient # <<>> /\ toClient' = Tail(toClient)
  BY DEF TypeOK, ReceivePacket
<1>2. PICK k \in 1..Len(toClient) : toClient[k].kind # "update" /\ toClient[k].re = i
  BY DEF InReply
<1>3. CASE k = 1
  BY <1>2, <1>3, ReceivedFacts
<1>4. CASE k # 1
  <2>1. k - 1 \in 1..Len(toClient') /\ toClient'[k - 1] = toClient[k]
    BY <1>1, <1>2, <1>4
  <2>2. InReply(i)'
    BY <1>2, <2>1 DEF InReply
  <2> QED BY <2>2
<1> QED BY <1>3, <1>4

\* A reply on the living connection reaches the client's queue.
LEMMA ReplyAdded ==
  ASSUME TypeOK, NEW e, NEW related, NEW kind, NEW re, NEW q, NEW ok, NEW code,
         Reply(e, related, kind, re, q, ok, code)
  PROVE  /\ \A i : InReply(i) => InReply(i)'
         /\ Current(e) /\ kind # "update" => InReply(re)'
<1> DEFINE p == ReplyPacket(related, kind, re, q, ok, code)
           n == Len(toClient) + 1
<1>1. toClient \in Seq(ServerPacket) /\ p.kind = kind /\ p.re = re
  BY DEF TypeOK, ReplyPacket
<1> HIDE DEF p
<1>2. CASE Current(e)
  <2>1. toClient' = Append(toClient, p)
    BY <1>2 DEF Reply, p
  <2>2. /\ n \in 1..Len(toClient') /\ toClient'[n] = p
        /\ \A k \in 1..Len(toClient) :
             k \in 1..Len(toClient') /\ toClient'[k] = toClient[k]
    BY <1>1, <2>1
  <2> HIDE DEF n
  <2> QED BY <1>1, <2>2 DEF InReply
<1>3. CASE ~Current(e)
  BY <1>3 DEF Reply, InReply
<1> QED BY <1>2, <1>3

\* The requests, server operations and replies of a pending id move on.
Moves ==
  \A i \in DOMAIN operations' :
    Kind[operations'[i]] # "unknown" => InQueue(i)' \/ InServer(i)' \/ InReply(i)'

\* A packet read on the living connection is started, answered or noticed.
LEMMA ReadMoves ==
  ASSUME Owned, PendingIsUnderWay, NEW e \in Epochs, ServerReceive(e)
  PROVE  Moves
<1> DEFINE p == Incoming(e)
<1>1. /\ TypeOK /\ Read(e) /\ UNCHANGED <<operations, epoch>> /\ started \subseteq started'
      /\ IsMap(operations, Ops) /\ PendingOwned
  BY DEF Owned, TypeOK, ServerReceive, IgnoreMessage, ProcessPing, ProcessMessageAck,
         RejectUnauthorized, StartOperation, NotProcessed, Read, client
<1>2. Owner(p.id, p.m.op)
  BY <1>1, IncomingOwned
<1> SUFFICES ASSUME NEW i \in DOMAIN operations, Kind[operations[i]] # "unknown"
             PROVE  InQueue(i)' \/ InServer(i)' \/ InReply(i)'
  BY <1>1 DEF Moves
<1>3. InQueue(i) \/ InServer(i) \/ InReply(i)
  BY DEF PendingIsUnderWay, UnderWay, InQueue, InServer, InReply
<1>4. InServer(i) => InServer(i)'
  BY <1>1 DEF InServer
<1>5. UNCHANGED toClient => (InReply(i) => InReply(i)')
  BY DEF InReply
<1>6. InReply(i) => InReply(i)'
  <2>1. CASE UNCHANGED toClient
    BY <1>5, <2>1
  <2>2. CASE IgnoreMessage(e)
    <3>1. Reply(e, FALSE, "notice", p.id, NoOp, FALSE, HeaderError(p))
      BY <2>2 DEF IgnoreMessage
    <3> QED BY <1>1, <3>1, ReplyAdded
  <2>3. CASE ProcessPing(e)
    <3>1. Reply(e, FALSE, "pong", p.id, p.m.op, TRUE, "none")
      BY <2>3 DEF ProcessPing
    <3> QED BY <1>1, <3>1, ReplyAdded
  <2>4. CASE RejectUnauthorized(e)
    <3>1. Reply(e, TRUE, "result", p.id, p.m.op, FALSE, "none")
      BY <2>4 DEF RejectUnauthorized
    <3> QED BY <1>1, <3>1, ReplyAdded
  <2> QED BY <2>1, <2>2, <2>3, <2>4 DEF ServerReceive, ProcessMessageAck, StartOperation,
             NotProcessed, NoReply
<1>7. InQueue(i) => InQueue(i)' \/ (e = epoch /\ p.id = i)
  BY <1>1, QueueRead
<1>8. ASSUME e = epoch, p.id = i PROVE InServer(i)' \/ InReply(i)'
  <2>1. Current(e)
    BY <1>1, <1>8 DEF PendingOwned, Current
  <2>2. p.m.op = operations[i] /\ operations[i] \in Ops
    BY <1>1, <1>2, <1>8 DEF Owner, IsMap
  <2>3. "notice" # "update" /\ "pong" # "update" /\ "result" # "update"
    OBVIOUS
  <2>4. CASE IgnoreMessage(e)
    <3>1. Reply(e, FALSE, "notice", i, NoOp, FALSE, HeaderError(p))
      BY <1>8, <2>4 DEF IgnoreMessage
    <3> QED BY <1>1, <2>1, <2>3, <3>1, ReplyAdded
  <2>5. CASE ProcessPing(e)
    <3>1. Reply(e, FALSE, "pong", i, p.m.op, TRUE, "none")
      BY <1>8, <2>5 DEF ProcessPing
    <3> QED BY <1>1, <2>1, <2>3, <3>1, ReplyAdded
  <2>6. CASE RejectUnauthorized(e)
    <3>1. Reply(e, TRUE, "result", i, p.m.op, FALSE, "none")
      BY <1>8, <2>6 DEF RejectUnauthorized
    <3> QED BY <1>1, <2>1, <2>3, <3>1, ReplyAdded
  <2>7. CASE StartOperation(e)
    <3>1. [epoch |-> e, id |-> p.id, op |-> p.m.op] \in started'
      BY <2>7 DEF StartOperation
    <3> QED BY <1>1, <1>8, <3>1 DEF InServer
  <2>8. CASE ProcessMessageAck(e) \/ NotProcessed(e)
    BY <2>2, <2>8, OpsAssumption DEF ProcessMessageAck, NotProcessed
  <2> QED BY <2>4, <2>5, <2>6, <2>7, <2>8 DEF ServerReceive
<1> QED BY <1>3, <1>4, <1>6, <1>7, <1>8

\* A run of an operation of the living connection is answered.
LEMMA RunMoves ==
  ASSUME Owned, PendingIsUnderWay, NEW s \in started, NEW ok \in BOOLEAN, RunOperation(s, ok)
  PROVE  Moves
<1>1. /\ TypeOK /\ UNCHANGED <<operations, epoch, toServer>> /\ started' = started \ {s}
      /\ PendingOwned /\ Reply(s.epoch, TRUE, "result", s.id, s.op, ok, "none")
  BY DEF Owned, RunOperation, client
<1> SUFFICES ASSUME NEW i \in DOMAIN operations, Kind[operations[i]] # "unknown"
             PROVE  InQueue(i)' \/ InServer(i)' \/ InReply(i)'
  BY <1>1 DEF Moves
<1>2. InQueue(i) \/ InServer(i) \/ InReply(i)
  BY DEF PendingIsUnderWay, UnderWay, InQueue, InServer, InReply
<1>3. InQueue(i) => InQueue(i)'
  BY <1>1 DEF InQueue
<1>4. InReply(i) => InReply(i)'
  BY <1>1, ReplyAdded
<1>5. InServer(i) => InServer(i)' \/ (s.epoch = epoch /\ s.id = i)
  BY <1>1 DEF InServer
<1>6. ASSUME s.epoch = epoch, s.id = i PROVE InReply(i)'
  <2>1. Current(s.epoch) /\ "result" # "update"
    BY <1>1, <1>6 DEF PendingOwned, Current
  <2>2. Reply(s.epoch, TRUE, "result", i, s.op, ok, "none")
    BY <1>1, <1>6
  <2> QED BY <1>1, <2>1, <2>2, ReplyAdded
<1> QED BY <1>2, <1>3, <1>4, <1>5, <1>6

\* Sending adds to the queue; the other ids stay where they are.
LEMMA SendMoves ==
  ASSUME Owned, PendingIsUnderWay, (\E o \in Ops : SendRpc(o)) \/ AcknowledgeMessages
  PROVE  Moves
<1> DEFINE new == NewMessageId(lastId)
<1>1. /\ TypeOK /\ UNCHANGED <<epoch, started, toClient>> /\ new \in Nat /\ serverSalt \in Nat
      /\ lastId' = new
  BY IdFacts DEF Owned, TypeOK, SendRpc, AcknowledgeMessages
<1>2. /\ \E m \in Message : SendPacket(Packet(new, serverSalt, m))
      /\ \A i \in DOMAIN operations' :
           i = new \/ (i \in DOMAIN operations /\ operations'[i] = operations[i])
  <2>1. ASSUME NEW o \in Ops, SendRpc(o)
        PROVE  /\ RpcMessage(o) \in Message
               /\ SendPacket(Packet(new, serverSalt, RpcMessage(o)))
               /\ operations' = Insert(operations, new, o)
    BY <1>1, <2>1, BuiltMessages DEF SendRpc
  <2>2. ASSUME AcknowledgeMessages
        PROVE  /\ AckMessage \in Message /\ UNCHANGED operations
               /\ SendPacket(Packet(new, serverSalt, AckMessage))
    BY <1>1, <2>2, BuiltMessages DEF AcknowledgeMessages
  <2> HIDE DEF new
  <2> QED BY <2>1, <2>2 DEF Insert
<1>3. InQueue(lastId)' /\ \A i : InQueue(i) => InQueue(i)'
  <2>1. PICK m \in Message : SendPacket(Packet(new, serverSalt, m))
    BY <1>2
  <2>2. lastId' \in Nat /\ SendPacket(Packet(lastId', serverSalt, m))
    BY <1>1, <2>1
  <2> HIDE DEF new
  <2> QED BY <1>1, <2>2, QueueSent
<1> HIDE DEF new
<1>4. \A i : (InServer(i) <=> InServer(i)') /\ (InReply(i) <=> InReply(i)')
  BY <1>1 DEF InServer, InReply
<1>5. \A i \in DOMAIN operations : Kind[operations[i]] # "unknown" =>
        InQueue(i) \/ InServer(i) \/ InReply(i)
  BY DEF PendingIsUnderWay, UnderWay, InQueue, InServer, InReply
<1> QED BY <1>1, <1>2, <1>3, <1>4, <1>5 DEF Moves

\* What the client takes was about an id it forgets or sends again.
LEMMA ReceiveMoves ==
  ASSUME Owned, PendingIsUnderWay, ClientReceive
  PROVE  Moves
<1> DEFINE old == Received.re
           new == NewMessageId(lastId)
<1>1. /\ TypeOK /\ UNCHANGED <<epoch, started>> /\ \E kind : ReceivePacket(kind)
      /\ IsMap(operations, Ops) /\ MapsAgree /\ new \in Nat /\ IsMap(messages, Message)
  BY IdFacts DEF Owned, TypeOK, ClientReceive, ProcessUpdates, ProcessRpcResult, ProcessPong,
                 ProcessIgnoredMessageNotification
<1>2. \A i : InServer(i) <=> InServer(i)'
  BY <1>1 DEF InServer
<1>3. \A i \in DOMAIN operations : Kind[operations[i]] # "unknown" =>
        InQueue(i) \/ InServer(i) \/ InReply(i)
  BY DEF PendingIsUnderWay, UnderWay, InQueue, InServer, InReply
<1>4. \A i : InReply(i) => InReply(i)' \/ (Received.kind # "update" /\ old = i)
  BY <1>1, ReplyTaken
<1>5. UNCHANGED toServer => \A i : InQueue(i) <=> InQueue(i)'
  BY <1>1 DEF InQueue
<1>6. CASE ProcessUpdates
  <2>1. UNCHANGED <<toServer, operations>> /\ Received.kind = "update"
    BY <1>6 DEF ProcessUpdates, ReceivePacket
  <2> QED BY <1>2, <1>3, <1>4, <1>5, <2>1 DEF Moves
<1>7. CASE ProcessRpcResult \/ ProcessPong
  <2>1. UNCHANGED toServer /\ operations' = Drop(operations, old)
    BY <1>7 DEF ProcessRpcResult, ProcessPong
  <2>2. \A i \in DOMAIN operations' :
          i # old /\ i \in DOMAIN operations /\ operations'[i] = operations[i]
    BY <1>1, <2>1 DEF Drop, Restrict
  <2> HIDE DEF old
  <2> QED BY <1>2, <1>3, <1>4, <1>5, <2>1, <2>2 DEF Moves
<1>8. CASE ProcessIgnoredMessageNotification
  <2>1. CASE old \in DOMAIN messages /\ old \in DOMAIN operations
    <3> DEFINE m == ResentMessage(Received.code, messages[old])
    <3>1. Resend(old, m)
      BY <1>8, <2>1 DEF ProcessIgnoredMessageNotification
    <3>2. m \in Message /\ Received.salt \in Nat
      <4>1. messages[old] \in Message
        BY <1>1, <2>1 DEF IsMap
      <4> QED BY <1>1, <4>1, MessageFacts, ReceiveType
    <3> HIDE DEF m
    <3>3. operations' = Insert(Drop(operations, old), new, operations[old]) /\ lastId' = new
      BY <3>1 DEF Resend
    <3>4. InQueue(lastId)' /\ \A i : InQueue(i) => InQueue(i)'
      <4>1. lastId' \in Nat /\ SendPacket(Packet(lastId', Received.salt, m))
        BY <1>1, <3>1, <3>3 DEF Resend
      <4> QED BY <1>1, <3>2, <4>1, QueueSent
    <3> HIDE DEF new, old
    <3>5. \A i \in DOMAIN operations' :
            i = new \/ (i # old /\ i \in DOMAIN operations /\ operations'[i] = operations[i])
      BY <3>3 DEF Insert, Drop, Restrict
    <3> QED BY <1>2, <1>3, <1>4, <3>4, <3>3, <3>5 DEF Moves
  <2>2. CASE ~(old \in DOMAIN messages /\ old \in DOMAIN operations)
    <3>1. UNCHANGED <<toServer, operations>>
      BY <1>8, <2>2 DEF ProcessIgnoredMessageNotification
    <3>2. old \notin DOMAIN operations
      BY <1>1, <2>2 DEF MapsAgree
    <3> HIDE DEF old
    <3> QED BY <1>2, <1>3, <1>4, <1>5, <3>1, <3>2 DEF Moves
  <2> QED BY <2>1, <2>2
<1> QED BY <1>6, <1>7, <1>8 DEF ClientReceive

\* The other steps: nobody waits, or nothing of the living connection changes.
LEMMA OtherMoves ==
  ASSUME Owned, PendingIsUnderWay,
         \/ ConnectionLost \/ ClientCrash \/ Resume
         \/ \E e \in Epochs : ServerDropsConnection(e)
         \/ RotateSalt \/ ExpireOldSalt \/ SendUpdates
         \/ UNCHANGED vars
  PROVE  Moves
<1>1. TypeOK /\ PendingOwned /\ epoch \in Epochs /\ toServer \in [Epochs -> Seq(ClientPacket)]
  BY DEF Owned, TypeOK
<1>2. CASE ConnectionLost \/ ClientCrash \/ Resume \/ ~up
  <2>1. DOMAIN operations' = {}
    <3>1. CASE ConnectionLost \/ ClientCrash
      BY <3>1, NoneFacts DEF ConnectionLost, ClientCrash, LayersGone
    <3>2. CASE ~(ConnectionLost \/ ClientCrash)
      <4>1. UNCHANGED operations
        BY <3>2 DEF Resume, ServerDropsConnection, RotateSalt, ExpireOldSalt, SendUpdates, vars,
                    client
      <4>2. ~up
        BY <1>2, <3>2 DEF Resume
      <4> QED BY <1>1, <4>1, <4>2 DEF PendingOwned
    <3> QED BY <3>1, <3>2
  <2> QED BY <2>1 DEF Moves
<1>3. CASE ~(ConnectionLost \/ ClientCrash \/ Resume \/ ~up)
  <2>1. /\ UNCHANGED <<operations, epoch, started>> /\ toServer'[epoch] = toServer[epoch]
        /\ UNCHANGED toClient \/ SendUpdates
    <3>1. ASSUME NEW e \in Epochs, ServerDropsConnection(e)
          PROVE  /\ UNCHANGED <<operations, epoch, started, toClient>>
                 /\ toServer'[epoch] = toServer[epoch]
      <4>1. e # epoch /\ toServer' = [toServer EXCEPT ![e] = <<>>]
        BY <1>1, <1>3, <3>1 DEF ServerDropsConnection, Epochs
      <4> QED BY <1>1, <3>1, <4>1 DEF ServerDropsConnection, client
    <3> QED BY <1>3, <3>1 DEF RotateSalt, ExpireOldSalt, SendUpdates, vars, client
  <2>2. \A i : (InServer(i) <=> InServer(i)') /\ (InQueue(i) <=> InQueue(i)')
    BY <2>1 DEF InServer, InQueue
  <2>3. \A i : InReply(i) => InReply(i)'
    <3>1. CASE SendUpdates
      <4>1. Reply(epoch, TRUE, "update", 0, NoOp, FALSE, "none")
        BY <3>1 DEF SendUpdates
      <4> QED BY <1>1, <4>1, ReplyAdded
    <3>2. CASE UNCHANGED toClient
      BY <3>2 DEF InReply
    <3> QED BY <2>1, <3>1, <3>2
  <2>4. \A i \in DOMAIN operations : Kind[operations[i]] # "unknown" =>
          InQueue(i) \/ InServer(i) \/ InReply(i)
    BY DEF PendingIsUnderWay, UnderWay, InQueue, InServer, InReply
  <2> QED BY <2>1, <2>2, <2>3, <2>4 DEF Moves
<1> QED BY <1>2, <1>3

\* No operation is forgotten on the way: its request, the server's operation,
\* the reply or the notification about it is under way.
THEOREM NothingForgotten == Spec => []PendingIsUnderWay
<1>1. Init => PendingIsUnderWay
  BY NoneFacts DEF Init, PendingIsUnderWay
<1>2. Owned /\ PendingIsUnderWay /\ [Next]_vars => PendingIsUnderWay'
  <2> SUFFICES ASSUME Owned, PendingIsUnderWay, [Next]_vars PROVE PendingIsUnderWay'
    OBVIOUS
  <2>1. Moves
    BY ReadMoves, RunMoves, SendMoves, ReceiveMoves, OtherMoves DEF Next
  <2> QED BY <2>1 DEF Moves, PendingIsUnderWay, UnderWay, InQueue, InServer, InReply
<1> QED BY <1>1, <1>2, OwnedInvariant, PTL DEF Spec
-----------------------------------------------------------------------------
(***************************************************************************)
(* On a living connection the server forgets a tracked reply only after    *)
(* the client's operation has finished.                                    *)
(*                                                                         *)
(* The argument has two parts.  What the living connection carries is      *)
(* about operations the client still waits for, so an answer that is read  *)
(* finishes its operation (Alive).  The ids of the server's messages are   *)
(* the keys of m_operationsToConfirm, and an id the client acknowledges    *)
(* was read before, whichever way the acknowledgement takes (Confirms).    *)
(***************************************************************************)

\* Connections that do not exist yet carry nothing and run nothing.
NothingAhead ==
  /\ \A e \in Epochs : e > epoch => toServer[e] = <<>>
  /\ \A s \in started : s.epoch <= epoch
  /\ ~up => toClient = <<>>

LiveRequests ==
  \A k \in 1..Len(toServer[epoch]) :
    toServer[epoch][k].m.op \in Ops => toServer[epoch][k].id \in DOMAIN operations
LiveStarted == \A s \in started : s.epoch = epoch => s.id \in DOMAIN operations
LiveAnswers ==
  \A k \in 1..Len(toClient) :
    toClient[k].kind \in {"result", "pong"} => toClient[k].re \in DOMAIN operations

Alive == NothingAhead /\ (up => LiveRequests /\ LiveStarted /\ LiveAnswers)
-----------------------------------------------------------------------------
\* A step of the server leaves the client's operations alone; what it adds is
\* about the packet it has read or the operation it has run.
LEMMA AliveServer ==
  ASSUME TypeOK, Alive, UNCHANGED <<up, epoch, operations>>,
         \A e \in Epochs : toServer[e] = <<>> => toServer'[e] = <<>>,
         \A e \in Epochs : \A k \in 1..Len(toServer'[e]) :
           \E j \in 1..Len(toServer[e]) : toServer'[e][k] = toServer[e][j],
         \A s \in started' :
           s \in started \/ (s.epoch <= epoch /\ (s.epoch = epoch /\ up => s.id \in DOMAIN operations)),
         ~up => UNCHANGED toClient,
         up => \A k \in 1..Len(toClient') :
           \/ \E j \in 1..Len(toClient) : toClient'[k] = toClient[j]
           \/ toClient'[k].kind \in {"result", "pong"} => toClient'[k].re \in DOMAIN operations
  PROVE  Alive'
<1>1. epoch \in Epochs
  BY DEF TypeOK
<1>2. NothingAhead'
  BY DEF Alive, NothingAhead
<1>3. up => LiveRequests' /\ LiveStarted' /\ LiveAnswers'
  <2> SUFFICES ASSUME up PROVE LiveRequests' /\ LiveStarted' /\ LiveAnswers'
    OBVIOUS
  <2>1. LiveRequests'
    BY <1>1 DEF Alive, LiveRequests
  <2>2. LiveStarted'
    BY DEF Alive, LiveStarted
  <2>3. LiveAnswers'
    BY DEF Alive, LiveAnswers
  <2> QED BY <2>1, <2>2, <2>3
<1> QED BY <1>2, <1>3 DEF Alive

\* An empty queue stays empty when another packet is read.
LEMMA ReadEmpty ==
  ASSUME TypeOK, NEW e \in Epochs, Read(e)
  PROVE  \A f \in Epochs : toServer[f] = <<>> => toServer'[f] = <<>>
BY DEF TypeOK, Read

\* A packet the server reads on the living connection is awaited.
LEMMA IncomingAlive ==
  ASSUME TypeOK, Alive, NEW e \in Epochs, Read(e)
  PROVE  /\ e <= epoch
         /\ Current(e) /\ Incoming(e).m.op \in Ops => Incoming(e).id \in DOMAIN operations
<1>1. 1 \in 1..Len(toServer[e]) /\ Incoming(e) = toServer[e][1] /\ toServer[e] # <<>>
  BY ReadFacts DEF Read
<1>2. ~(e > epoch) /\ epoch \in Epochs
  BY <1>1 DEF Alive, NothingAhead, TypeOK
<1> QED BY <1>1, <1>2 DEF Alive, LiveRequests, Current, Epochs

\* A reply is about an id the client waits for, if its connection is alive.
LEMMA ReplyAlive ==
  ASSUME TypeOK, NEW e, NEW related, NEW kind, NEW re, NEW q, NEW ok, NEW code,
         Reply(e, related, kind, re, q, ok, code),
         Current(e) /\ kind \in {"result", "pong"} => re \in DOMAIN operations
  PROVE  /\ ~up => UNCHANGED toClient
         /\ \A k \in 1..Len(toClient') :
              \/ \E j \in 1..Len(toClient) : toClient'[k] = toClient[j]
              \/ toClient'[k].kind \in {"result", "pong"} => toClient'[k].re \in DOMAIN operations
<1>1. OneMoreReply(kind, re, q)
  BY RepliedFacts
<1>2. CASE Current(e)
  BY <1>1, <1>2 DEF OneMoreReply, Current
<1>3. CASE ~Current(e)
  BY <1>3 DEF Reply
<1> QED BY <1>2, <1>3

\* The steps of the server.
LEMMA ServerAlive ==
  ASSUME Owned, Alive,
         \/ \E e \in Epochs : ServerDropsConnection(e) \/ ServerReceive(e)
         \/ RotateSalt \/ ExpireOldSalt
         \/ \E s \in started, ok \in BOOLEAN : RunOperation(s, ok)
         \/ SendUpdates
         \/ UNCHANGED vars
  PROVE  Alive'
<1>0. TypeOK /\ toServer \in [Epochs -> Seq(ClientPacket)]
  BY DEF Owned, TypeOK
<1>1. ASSUME NEW e \in Epochs, ServerDropsConnection(e) PROVE Alive'
  <2>1. UNCHANGED <<up, epoch, operations, started, toClient>>
    BY <1>1 DEF ServerDropsConnection, client
  <2>2. \A f \in Epochs : toServer'[f] = IF f = e THEN <<>> ELSE toServer[f]
    BY <1>0, <1>1 DEF ServerDropsConnection
  <2>3. /\ \A f \in Epochs : toServer[f] = <<>> => toServer'[f] = <<>>
        /\ \A f \in Epochs : \A k \in 1..Len(toServer'[f]) :
             \E j \in 1..Len(toServer[f]) : toServer'[f][k] = toServer[f][j]
    BY <1>0, <2>2
  <2> QED BY <1>0, <2>1, <2>3, AliveServer
<1>2. ASSUME NEW e \in Epochs, ServerReceive(e) PROVE Alive'
  <2> DEFINE p == Incoming(e)
  <2>1. Read(e) /\ UNCHANGED <<up, epoch, operations>>
    BY <1>2 DEF ServerReceive, IgnoreMessage, ProcessPing, ProcessMessageAck,
                RejectUnauthorized, StartOperation, NotProcessed, Read, client
  <2>2. /\ \A f \in Epochs : toServer[f] = <<>> => toServer'[f] = <<>>
        /\ \A f \in Epochs : \A k \in 1..Len(toServer'[f]) :
             \E j \in 1..Len(toServer[f]) : toServer'[f][k] = toServer[f][j]
    BY <1>0, <2>1, ReadEmpty, ReadFacts
  <2>3. /\ e <= epoch
        /\ Current(e) /\ p.m.op \in Ops => p.id \in DOMAIN operations
        /\ p.m.op \in Ops \cup {NoOp}
    BY <1>0, <2>1, IncomingAlive, IncomingOwned
  <2>4. CASE IgnoreMessage(e)
    <3>1. Reply(e, FALSE, "notice", p.id, NoOp, FALSE, HeaderError(p)) /\ UNCHANGED started
      BY <2>4 DEF IgnoreMessage
    <3>2. /\ ~up => UNCHANGED toClient
          /\ \A k \in 1..Len(toClient') :
               \/ \E j \in 1..Len(toClient) : toClient'[k] = toClient[j]
               \/ toClient'[k].kind \in {"result", "pong"} => toClient'[k].re \in DOMAIN operations
      BY <1>0, <3>1, ReplyAlive
    <3> QED BY <1>0, <2>1, <2>2, <3>1, <3>2, AliveServer
  <2>5. CASE ProcessPing(e)
    <3>1. /\ Reply(e, FALSE, "pong", p.id, p.m.op, TRUE, "none") /\ UNCHANGED started
          /\ p.m.op # NoOp
      BY <2>5 DEF ProcessPing
    <3>2. /\ ~up => UNCHANGED toClient
          /\ \A k \in 1..Len(toClient') :
               \/ \E j \in 1..Len(toClient) : toClient'[k] = toClient[j]
               \/ toClient'[k].kind \in {"result", "pong"} => toClient'[k].re \in DOMAIN operations
      BY <1>0, <2>3, <3>1, ReplyAlive
    <3> QED BY <1>0, <2>1, <2>2, <3>1, <3>2, AliveServer
  <2>6. CASE RejectUnauthorized(e)
    <3>1. /\ Reply(e, TRUE, "result", p.id, p.m.op, FALSE, "none") /\ UNCHANGED started
          /\ p.m.op # NoOp
      BY <2>6 DEF RejectUnauthorized
    <3>2. /\ ~up => UNCHANGED toClient
          /\ \A k \in 1..Len(toClient') :
               \/ \E j \in 1..Len(toClient) : toClient'[k] = toClient[j]
               \/ toClient'[k].kind \in {"result", "pong"} => toClient'[k].re \in DOMAIN operations
      BY <1>0, <2>3, <3>1, ReplyAlive
    <3> QED BY <1>0, <2>1, <2>2, <3>1, <3>2, AliveServer
  <2>7. CASE StartOperation(e)
    <3>1. /\ UNCHANGED toClient /\ p.m.op # NoOp
          /\ started' = started \cup {[epoch |-> e, id |-> p.id, op |-> p.m.op]}
      BY <2>7 DEF StartOperation, NoReply
    <3>2. \A s \in started' :
            s \in started \/ (s.epoch <= epoch /\ (s.epoch = epoch /\ up => s.id \in DOMAIN operations))
      BY <2>3, <3>1 DEF Current
    <3> QED BY <1>0, <2>1, <2>2, <3>1, <3>2, AliveServer
  <2>8. CASE ProcessMessageAck(e) \/ NotProcessed(e)
    <3>1. UNCHANGED <<started, toClient>>
      BY <2>8 DEF ProcessMessageAck, NotProcessed, NoReply
    <3> QED BY <1>0, <2>1, <2>2, <3>1, AliveServer
  <2> QED BY <1>2, <2>4, <2>5, <2>6, <2>7, <2>8 DEF ServerReceive
<1>3. ASSUME NEW s \in started, NEW ok \in BOOLEAN, RunOperation(s, ok) PROVE Alive'
  <2>1. /\ Reply(s.epoch, TRUE, "result", s.id, s.op, ok, "none")
        /\ started' \subseteq started /\ UNCHANGED <<up, epoch, operations, toServer>>
    BY <1>3 DEF RunOperation, client
  <2>2. Current(s.epoch) => s.id \in DOMAIN operations
    BY DEF Current, Alive, LiveStarted
  <2>3. /\ ~up => UNCHANGED toClient
        /\ \A k \in 1..Len(toClient') :
             \/ \E j \in 1..Len(toClient) : toClient'[k] = toClient[j]
             \/ toClient'[k].kind \in {"result", "pong"} => toClient'[k].re \in DOMAIN operations
    BY <1>0, <2>1, <2>2, ReplyAlive
  <2> QED BY <1>0, <2>1, <2>3, AliveServer
<1>4. CASE SendUpdates
  <2>1. /\ Reply(epoch, TRUE, "update", 0, NoOp, FALSE, "none")
        /\ UNCHANGED <<up, epoch, operations, toServer, started>>
    BY <1>4 DEF SendUpdates, client
  <2>2. /\ ~up => UNCHANGED toClient
        /\ \A k \in 1..Len(toClient') :
             \/ \E j \in 1..Len(toClient) : toClient'[k] = toClient[j]
             \/ toClient'[k].kind \in {"result", "pong"} => toClient'[k].re \in DOMAIN operations
    BY <1>0, <2>1, ReplyAlive
  <2> QED BY <1>0, <2>1, <2>2, AliveServer
<1>5. CASE RotateSalt \/ ExpireOldSalt \/ UNCHANGED vars
  <2>1. UNCHANGED <<up, epoch, operations, toServer, started, toClient>>
    BY <1>5 DEF RotateSalt, ExpireOldSalt, vars, client
  <2> QED BY <1>0, <2>1, AliveServer
<1> QED BY <1>1, <1>2, <1>3, <1>4, <1>5
-----------------------------------------------------------------------------
(***************************************************************************)
(* The client's steps.                                                     *)
(***************************************************************************)

\* The client forgets at most one id, and nothing on the living connection is
\* about the operation it belonged to.
LEMMA AliveClient ==
  ASSUME Owned, Alive, up, UNCHANGED <<up, epoch, started>>, NEW old, NEW o,
         \A i \in DOMAIN operations : i # old => i \in DOMAIN operations',
         old \in DOMAIN operations =>
           o \in Ops /\ operations[old] = o /\ ~Requested(o) /\ ~Queued(o) /\ ~Answered(o)',
         \A e \in Epochs : \A k \in 1..Len(toServer'[e]) :
           \/ \E j \in 1..Len(toServer[e]) : toServer'[e][k] = toServer[e][j]
           \/ e = epoch /\ (toServer'[e][k].m.op \in Ops => toServer'[e][k].id \in DOMAIN operations'),
         \A e \in Epochs : e # epoch => toServer'[e] = toServer[e],
         \A k \in 1..Len(toClient') : \E j \in 1..Len(toClient) : toClient'[k] = toClient[j]
  PROVE  Alive'
<1>1. epoch \in Epochs /\ RequestsOwned /\ StartedOwned /\ RepliesOwned /\ TypeOK
      /\ \A e \in Epochs : e \in Nat
  BY DEF Owned, TypeOK, Epochs
<1>2. NothingAhead'
  <2>1. \A e \in Epochs : e > epoch => e # epoch
    BY <1>1
  <2> QED BY <2>1 DEF Alive, NothingAhead
<1>3. LiveRequests'
  <2> SUFFICES ASSUME NEW k \in 1..Len(toServer'[epoch]), NEW j \in 1..Len(toServer[epoch]),
                      toServer'[epoch][k] = toServer[epoch][j], toServer[epoch][j].m.op \in Ops
               PROVE  toServer[epoch][j].id \in DOMAIN operations'
    BY <1>1 DEF LiveRequests
  <2>1. toServer[epoch][j].id \in DOMAIN operations
    BY DEF Alive, LiveRequests
  <2>2. operations[toServer[epoch][j].id] = toServer[epoch][j].m.op
    BY <1>1, <2>1 DEF RequestsOwned, Owner
  <2>3. toServer[epoch][j].id # old
    BY <1>1, <2>1, <2>2 DEF Requested, IsRequest
  <2> QED BY <2>1, <2>3
<1>4. LiveStarted'
  <2> SUFFICES ASSUME NEW s \in started, s.epoch = epoch PROVE s.id \in DOMAIN operations'
    BY DEF LiveStarted
  <2>1. s.id \in DOMAIN operations /\ operations[s.id] = s.op
    BY <1>1 DEF Alive, LiveStarted, StartedOwned, Owner
  <2>2. s.id # old
    BY <2>1 DEF Queued
  <2> QED BY <2>1, <2>2
<1>5. LiveAnswers'
  <2> SUFFICES ASSUME NEW k \in 1..Len(toClient'), toClient'[k].kind \in {"result", "pong"}
               PROVE  toClient'[k].re \in DOMAIN operations'
    BY DEF LiveAnswers
  <2>1. /\ toClient'[k].re \in DOMAIN operations
        /\ operations[toClient'[k].re] = toClient'[k].op
    BY <1>1 DEF Alive, LiveAnswers, RepliesOwned, ReplyOwned, Owner
  <2>2. toClient'[k].re # old
    BY <2>1 DEF Answered, IsAnswer
  <2> QED BY <2>1, <2>2
<1> QED BY <1>2, <1>3, <1>4, <1>5 DEF Alive

\* sendPacket touches the queue of the current connection only.
LEMMA SentElsewhere ==
  ASSUME TypeOK, NEW p, SendPacket(p)
  PROVE  \A e \in Epochs : e # epoch => toServer'[e] = toServer[e]
BY DEF TypeOK, SendPacket

\* sendRpc and acknowledgeMessages.
LEMMA SendAlive ==
  ASSUME Owned, Alive, (\E o \in Ops : SendRpc(o)) \/ AcknowledgeMessages
  PROVE  Alive'
<1> DEFINE new == NewMessageId(lastId)
<1>1. /\ TypeOK /\ up /\ UNCHANGED <<up, epoch, started, toClient>> /\ new \in Nat
      /\ serverSalt \in Nat /\ lastId \in Nat /\ lastId < new /\ MapsAgree
  BY IdFacts DEF Owned, TypeOK, SendRpc, AcknowledgeMessages
<1>2. \E m \in Message :
        /\ SendPacket(Packet(new, serverSalt, m))
        /\ m.op \in Ops => new \in DOMAIN operations'
        /\ DOMAIN operations \subseteq DOMAIN operations'
  <2>1. ASSUME NEW o \in Ops, SendRpc(o)
        PROVE  /\ RpcMessage(o) \in Message
               /\ SendPacket(Packet(new, serverSalt, RpcMessage(o)))
               /\ operations' = Insert(operations, new, o)
    BY <1>1, <2>1, BuiltMessages DEF SendRpc
  <2>2. ASSUME AcknowledgeMessages
        PROVE  /\ AckMessage \in Message /\ UNCHANGED operations
               /\ SendPacket(Packet(new, serverSalt, AckMessage)) /\ AckMessage.op \notin Ops
    BY <1>1, <2>2, BuiltMessages, OpsAssumption DEF AcknowledgeMessages
  <2> HIDE DEF new
  <2> QED BY <2>1, <2>2 DEF Insert
<1>3. PICK m \in Message :
        /\ SendPacket(Packet(new, serverSalt, m))
        /\ m.op \in Ops => new \in DOMAIN operations'
        /\ DOMAIN operations \subseteq DOMAIN operations'
  BY <1>2
<1> HIDE DEF new
<1>4. /\ \A e \in Epochs : \A k \in 1..Len(toServer'[e]) :
           \/ \E j \in 1..Len(toServer[e]) : toServer'[e][k] = toServer[e][j]
           \/ toServer'[e][k].id = new /\ toServer'[e][k].m = m
      /\ \A e \in Epochs : e # epoch => toServer'[e] = toServer[e]
  BY <1>1, <1>3, SentFacts, SentElsewhere
<1>5. \A e \in Epochs : \A k \in 1..Len(toServer'[e]) :
        \/ \E j \in 1..Len(toServer[e]) : toServer'[e][k] = toServer[e][j]
        \/ e = epoch /\ (toServer'[e][k].m.op \in Ops => toServer'[e][k].id \in DOMAIN operations')
  BY <1>3, <1>4
<1>6. new \notin DOMAIN operations
  <2>1. DOMAIN operations \subseteq Nat
    BY <1>1 DEF TypeOK, IsMap
  <2> QED BY <1>1, <2>1 DEF MapsAgree
<1> QED BY <1>1, <1>3, <1>4, <1>5, <1>6, AliveClient

\* What the client takes is about an operation that nothing else is about.
LEMMA ReceiveAlive ==
  ASSUME Owned, Tokens, Alive, ClientReceive
  PROVE  Alive'
<1> DEFINE old == Received.re
           new == NewMessageId(lastId)
           o   == operations[old]
<1>1. /\ TypeOK /\ UNCHANGED <<up, epoch, started>> /\ up /\ \E kind : ReceivePacket(kind)
      /\ IsMap(operations, Ops) /\ MapsAgree /\ new \in Nat /\ IsMap(messages, Message)
      /\ RepliesOwned
  BY IdFacts DEF Owned, TypeOK, ClientReceive, ProcessUpdates, ProcessRpcResult, ProcessPong,
                 ProcessIgnoredMessageNotification, ReceivePacket
<1>2. /\ 1 \in 1..Len(toClient) /\ Received = toClient[1]
      /\ \A k \in 1..Len(toClient') : \E j \in 1..Len(toClient) : toClient'[k] = toClient[j]
  BY <1>1, ReceivedFacts
<1>3. CASE ProcessUpdates
  <2>1. UNCHANGED <<toServer, operations>>
    BY <1>3 DEF ProcessUpdates
  <2>2. -1 \notin DOMAIN operations
    BY <1>1 DEF IsMap
  <2> QED BY <1>1, <1>2, <2>1, <2>2, AliveClient
<1>4. CASE ProcessRpcResult \/ ProcessPong
  <2>1. /\ UNCHANGED toServer /\ operations' = Drop(operations, old)
        /\ Received.kind \in {"result", "pong"}
    BY <1>4 DEF ProcessRpcResult, ProcessPong, ReceivePacket
  <2>2. \A i \in DOMAIN operations : i # old => i \in DOMAIN operations'
    BY <2>1 DEF Drop, Restrict
  <2>3. old \in DOMAIN operations => o \in Ops /\ IsAnswer(1, o)
    BY <1>1, <1>2, <2>1 DEF IsMap, IsAnswer, RepliesOwned, ReplyOwned, Owner
  <2> HIDE DEF old
  <2>4. \A q \in Ops : IsAnswer(1, q) => ~Requested(q) /\ ~Queued(q) /\ ~Answered(q)'
    BY <1>1, PacketTaken DEF Tokens, OneToken, OneKind
  <2> QED BY <1>1, <1>2, <2>1, <2>2, <2>3, <2>4, AliveClient
<1>5. CASE ProcessIgnoredMessageNotification
  <2>1. CASE old \in DOMAIN messages /\ old \in DOMAIN operations
    <3> DEFINE m == ResentMessage(Received.code, messages[old])
    <3>1. Resend(old, m) /\ Received.kind = "notice"
      BY <1>5, <2>1 DEF ProcessIgnoredMessageNotification, ReceivePacket
    <3>2. m \in Message /\ Received.salt \in Nat
      <4>1. messages[old] \in Message
        BY <1>1, <2>1 DEF IsMap
      <4> QED BY <1>1, <4>1, MessageFacts, ReceiveType
    <3> HIDE DEF m
    <3>3. operations' = Insert(Drop(operations, old), new, operations[old])
          /\ SendPacket(Packet(new, Received.salt, m))
      BY <3>1 DEF Resend
    <3> HIDE DEF new
    <3>4. /\ \A e \in Epochs : \A k \in 1..Len(toServer'[e]) :
               \/ \E j \in 1..Len(toServer[e]) : toServer'[e][k] = toServer[e][j]
               \/ toServer'[e][k].id = new
          /\ \A e \in Epochs : e # epoch => toServer'[e] = toServer[e]
      BY <1>1, <3>2, <3>3, SentFacts, SentElsewhere
    <3>5. /\ new \in DOMAIN operations'
          /\ \A i \in DOMAIN operations : i # old => i \in DOMAIN operations'
      BY <3>3 DEF Insert, Drop, Restrict
    <3>6. o \in Ops /\ IsNotice(1, o)
      BY <1>1, <1>2, <2>1, <3>1 DEF IsMap, IsNotice
    <3>7. \A q \in Ops : IsNotice(1, q) => ~Requested(q) /\ ~Queued(q) /\ ~Answered(q)'
      <4> SUFFICES ASSUME NEW q \in Ops, IsNotice(1, q)
                   PROVE  ~Requested(q) /\ ~Queued(q) /\ ~Answered(q)'
        OBVIOUS
      <4>1. Noticed(q) /\ OneToken(q)
        BY <1>2 DEF Noticed, Tokens
      <4>2. Answered(q)' => Answered(q)
        BY <1>1, PacketTaken
      <4> QED BY <4>1, <4>2 DEF OneToken, OneKind
    <3>8. \A e \in Epochs : \A k \in 1..Len(toServer'[e]) :
            \/ \E j \in 1..Len(toServer[e]) : toServer'[e][k] = toServer[e][j]
            \/ e = epoch
               /\ (toServer'[e][k].m.op \in Ops => toServer'[e][k].id \in DOMAIN operations')
      BY <3>4, <3>5
    <3> HIDE DEF old
    <3> QED BY <1>1, <1>2, <3>4, <3>5, <3>6, <3>7, <3>8, AliveClient
  <2>2. CASE ~(old \in DOMAIN messages /\ old \in DOMAIN operations)
    <3>1. UNCHANGED <<toServer, operations>>
      BY <1>5, <2>2 DEF ProcessIgnoredMessageNotification
    <3>2. old \notin DOMAIN operations
      BY <1>1, <2>2 DEF MapsAgree
    <3> HIDE DEF old
    <3> QED BY <1>1, <1>2, <3>1, <3>2, AliveClient
  <2> QED BY <2>1, <2>2
<1> QED BY <1>3, <1>4, <1>5 DEF ClientReceive

\* A connection ends, and another begins with nothing under way.
LEMMA ConnectionAlive ==
  ASSUME Owned, Alive, ConnectionLost \/ ClientCrash \/ Resume
  PROVE  Alive'
<1>1. /\ TypeOK /\ epoch \in Nat /\ UNCHANGED <<toServer, started>> /\ epoch \in Epochs
      /\ \A e \in Epochs : e \in Nat
      /\ \A s \in started : s.epoch \in Nat
  BY DEF Owned, TypeOK, ConnectionLost, ClientCrash, Resume, Epochs, Started
<1>2. CASE ConnectionLost \/ ClientCrash
  <2>1. ~up' /\ toClient' = <<>> /\ UNCHANGED epoch
    BY <1>2 DEF ConnectionLost, ClientCrash, LayersGone
  <2> QED BY <1>1, <2>1 DEF Alive, NothingAhead
<1>3. CASE Resume
  <2>1. ~up /\ up' /\ epoch' = epoch + 1 /\ UNCHANGED toClient /\ epoch + 1 \in Epochs
    BY <1>1, <1>3, BoundAssumption DEF Resume, Epochs
  <2>2. toServer[epoch + 1] = <<>> /\ toClient = <<>>
    BY <1>1, <2>1 DEF Alive, NothingAhead
  <2>3. NothingAhead'
    BY <1>1, <2>1 DEF Alive, NothingAhead
  <2>4. LiveRequests' /\ LiveAnswers'
    BY <1>1, <2>1, <2>2 DEF LiveRequests, LiveAnswers
  <2>5. LiveStarted'
    BY <1>1, <2>1 DEF LiveStarted, Alive, NothingAhead
  <2> QED BY <2>3, <2>4, <2>5 DEF Alive
<1> QED BY <1>2, <1>3

\* What the living connection carries is awaited.
THEOREM AliveInvariant == Spec => []Alive
<1>1. Init => Alive
  <2> SUFFICES ASSUME Init PROVE Alive
    OBVIOUS
  <2>1. /\ toServer = [e \in Epochs |-> <<>>] /\ toClient = <<>> /\ started = {}
        /\ epoch \in Epochs
    BY BoundAssumption DEF Init, Epochs
  <2> QED BY <2>1 DEF Alive, NothingAhead, LiveRequests, LiveStarted, LiveAnswers
<1>2. Owned /\ Tokens /\ Alive /\ [Next]_vars => Alive'
  BY ServerAlive, SendAlive, ReceiveAlive, ConnectionAlive DEF Next
<1> QED BY <1>1, <1>2, OwnedInvariant, TokensInvariant, PTL DEF Spec
-----------------------------------------------------------------------------
(***************************************************************************)
(* Acknowledgements.                                                       *)
(***************************************************************************)
Done(o) == opState[o] \in {"succeeded", "failed"}

\* If the reply with id r is tracked, its operation has finished.
WasRead(r) == r <= sLastId /\ (r \in DOMAIN toConfirm => Done(toConfirm[r]))

KeysGivenOut == \A r \in DOMAIN toConfirm : r <= sLastId

RepliesTracked ==
  \A k \in 1..Len(toClient) :
    /\ toClient[k].id <= sLastId
    /\ toClient[k].id \in DOMAIN toConfirm =>
         toClient[k].kind = "result" /\ toClient[k].op = toConfirm[toClient[k].id]

AcksRead ==
  /\ \A r \in messagesToAck : WasRead(r)
  /\ \A i \in DOMAIN messages : \A r \in messages[i].ids : WasRead(r)
  /\ up => \A k \in 1..Len(toServer[epoch]) : \A r \in toServer[epoch][k].m.ids : WasRead(r)

\* The inductive invariant, together with Owned, Tokens and Alive.
Confirms == KeysGivenOut /\ RepliesTracked /\ AcksRead

\* What every step on a living connection does to the tracked replies.
TrackingGrows ==
  /\ sLastId <= sLastId'
  /\ \A r \in DOMAIN toConfirm' :
       (r \in DOMAIN toConfirm /\ toConfirm'[r] = toConfirm[r]) \/ r > sLastId
  /\ \A o \in Ops : Done(o) => Done(o)'

\* A finished operation stays finished.
LEMMA DoneKept ==
  ASSUME Owned, Tokens, [Next]_vars, NEW o \in Ops, Done(o)
  PROVE  Done(o)'
<1>1. [Abstract!Next]_(Abstract!vars)
  BY StepIsCall
<1>2. opState \in [Ops -> OpStates]
  BY DEF Owned, TypeOK
<1>3. CASE UNCHANGED opState
  BY <1>3 DEF Done
<1>4. ASSUME NEW q \in Ops, Abstract!Call(q) \/ Abstract!Succeed(q) PROVE Done(o)'
  BY <1>2, <1>4 DEF Abstract!Call, Abstract!Succeed, Done
<1>5. ASSUME NEW S \in SUBSET Ops, NEW how, Abstract!Fail(S, how) PROVE Done(o)'
  BY <1>2, <1>5 DEF Abstract!Fail, Done
<1> QED BY <1>1, <1>3, <1>4, <1>5 DEF Abstract!Next, Abstract!Run, Abstract!vars

\* What was read stays read.
LEMMA ReadKept ==
  ASSUME TypeOK, TypeOK', TrackingGrows, NEW r \in Nat, WasRead(r)
  PROVE  WasRead(r)'
<1>1. sLastId \in Nat /\ sLastId' \in Nat /\ IsMap(toConfirm, Ops)
  BY DEF TypeOK
<1>2. \A x \in DOMAIN toConfirm : toConfirm[x] \in Ops
  BY <1>1 DEF IsMap
<1>3. r <= sLastId'
  BY <1>1 DEF WasRead, TrackingGrows
<1>4. ASSUME r \in DOMAIN toConfirm' PROVE Done(toConfirm[r])'
  <2>1. r \in DOMAIN toConfirm /\ toConfirm'[r] = toConfirm[r]
    BY <1>1, <1>4 DEF WasRead, TrackingGrows
  <2>2. Done(toConfirm[r]) /\ toConfirm[r] \in Ops
    BY <1>2, <2>1 DEF WasRead
  <2> QED BY <2>1, <2>2 DEF TrackingGrows, Done
<1> QED BY <1>3, <1>4 DEF WasRead

\* Acknowledged ids are numbers.
LEMMA AckTypes ==
  ASSUME TypeOK
  PROVE  /\ messagesToAck \subseteq Nat
         /\ \A i \in DOMAIN messages : messages[i].ids \subseteq Nat
         /\ \A e \in Epochs : \A k \in 1..Len(toServer[e]) : toServer[e][k].m.ids \subseteq Nat
         /\ \A k \in 1..Len(toClient) : toClient[k].id \in Nat
<1>1. messagesToAck \subseteq Nat
  BY DEF TypeOK
<1>2. ASSUME NEW i \in DOMAIN messages PROVE messages[i].ids \subseteq Nat
  <2>1. messages[i] \in Message
    BY SeqTypes
  <2> QED BY <2>1, MessageFacts
<1>3. ASSUME NEW e \in Epochs, NEW k \in 1..Len(toServer[e])
      PROVE  toServer[e][k].m.ids \subseteq Nat
  <2>1. toServer[e][k].m \in Message
    BY SeqTypes DEF ClientPacket
  <2> QED BY <2>1, MessageFacts
<1>4. ASSUME NEW k \in 1..Len(toClient) PROVE toClient[k].id \in Nat
  <2>1. toClient[k] \in ServerPacket
    BY DEF TypeOK
  <2> QED BY <2>1 DEF ServerPacket
<1> QED BY <1>1, <1>2, <1>3, <1>4

\* The client's side: what is acknowledged is what was, or what is in S.
LEMMA AcksKept ==
  ASSUME TypeOK, TypeOK', AcksRead, TrackingGrows, UNCHANGED <<up, epoch>>,
         NEW S, \A r \in S : WasRead(r)',
         \A r \in messagesToAck' : r \in messagesToAck \/ r \in S,
         \A i \in DOMAIN messages' :
           \/ i \in DOMAIN messages /\ messages'[i] = messages[i]
           \/ messages'[i].ids \subseteq S,
         \A k \in 1..Len(toServer'[epoch]) :
           \/ \E j \in 1..Len(toServer[epoch]) : toServer'[epoch][k] = toServer[epoch][j]
           \/ toServer'[epoch][k].m.ids \subseteq S
  PROVE  AcksRead'
<1>1. \A r \in messagesToAck' : WasRead(r)'
  BY AckTypes, ReadKept DEF AcksRead
<1>2. \A i \in DOMAIN messages' : \A r \in messages'[i].ids : WasRead(r)'
  <2> SUFFICES ASSUME NEW i \in DOMAIN messages, messages'[i] = messages[i],
                      NEW r \in messages[i].ids
               PROVE  WasRead(r)'
    OBVIOUS
  <2>1. r \in Nat /\ WasRead(r)
    BY AckTypes DEF AcksRead
  <2> QED BY <2>1, ReadKept
<1>3. ASSUME up, NEW k \in 1..Len(toServer'[epoch]), NEW r \in toServer'[epoch][k].m.ids
      PROVE  WasRead(r)'
  <2>1. CASE r \in S
    BY <2>1
  <2>2. CASE r \notin S
    <3>1. PICK j \in 1..Len(toServer[epoch]) : toServer'[epoch][k] = toServer[epoch][j]
      BY <1>3, <2>2
    <3>2. epoch \in Epochs
      BY DEF TypeOK
    <3>3. r \in Nat /\ WasRead(r)
      BY <1>3, <3>1, <3>2, AckTypes DEF AcksRead
    <3> QED BY <3>3, ReadKept
  <2> QED BY <2>1, <2>2
<1> QED BY <1>1, <1>2, <1>3 DEF AcksRead

\* The packets under way stay tracked; a new one has a new id.
LEMMA RepliesStayTracked ==
  ASSUME TypeOK, TypeOK', RepliesTracked, TrackingGrows,
         \A k \in 1..Len(toClient') :
           \/ \E j \in 1..Len(toClient) : toClient'[k] = toClient[j]
           \/ /\ toClient'[k].id <= sLastId'
              /\ toClient'[k].id \in DOMAIN toConfirm' =>
                   toClient'[k].kind = "result" /\ toClient'[k].op = toConfirm'[toClient'[k].id]
  PROVE  RepliesTracked'
<1> SUFFICES ASSUME NEW k \in 1..Len(toClient'), NEW j \in 1..Len(toClient),
                    toClient'[k] = toClient[j]
             PROVE  /\ toClient[j].id <= sLastId'
                    /\ toClient[j].id \in DOMAIN toConfirm' =>
                         toClient[j].kind = "result" /\ toClient[j].op = toConfirm'[toClient[j].id]
  BY DEF RepliesTracked
<1>1. sLastId \in Nat /\ sLastId' \in Nat /\ toClient[j].id \in Nat
  BY AckTypes DEF TypeOK
<1>2. toClient[j].id <= sLastId
  BY DEF RepliesTracked
<1>3. toClient[j].id \in DOMAIN toConfirm' =>
        toClient[j].id \in DOMAIN toConfirm /\ toConfirm'[toClient[j].id] = toConfirm[toClient[j].id]
  BY <1>1, <1>2 DEF TrackingGrows
<1> QED BY <1>1, <1>2, <1>3 DEF RepliesTracked, TrackingGrows

\* The client's queue holds what it held, and perhaps a reply with the next id.
NextReply(e, kind, q) ==
  \A k \in 1..Len(toClient') :
    \/ \E j \in 1..Len(toClient) : toClient'[k] = toClient[j]
    \/ /\ Current(e) /\ toClient'[k].id = sLastId + 1
       /\ toClient'[k].kind = kind /\ toClient'[k].op = q

\* A reply takes the next id of the server.
LEMMA ReplyIds ==
  ASSUME TypeOK, NEW e, NEW related, NEW kind, NEW re, NEW q, NEW ok, NEW code,
         Reply(e, related, kind, re, q, ok, code)
  PROVE  /\ sLastId \in Nat /\ sLastId <= sLastId'
         /\ Current(e) => sLastId' = sLastId + 1
         /\ ~Current(e) => sLastId' = sLastId
         /\ NextReply(e, kind, q)
<1> DEFINE p == ReplyPacket(related, kind, re, q, ok, code)
<1>1. toClient \in Seq(ServerPacket) /\ sLastId \in Nat
  BY DEF TypeOK
<1>2. p.id = sLastId + 1 /\ p.kind = kind /\ p.op = q
  BY DEF ReplyPacket
<1> HIDE DEF p
<1>3. CASE Current(e)
  <2>1. toClient' = Append(toClient, p) /\ sLastId' = sLastId + 1
    BY <1>3 DEF Reply, p
  <2>2. \A k \in 1..Len(toClient') :
          \/ \E j \in 1..Len(toClient) : toClient'[k] = toClient[j]
          \/ toClient'[k] = p
    BY <1>1, <2>1
  <2> QED BY <1>1, <1>2, <1>3, <2>1, <2>2 DEF NextReply
<1>4. CASE ~Current(e)
  BY <1>1, <1>4 DEF Reply, NextReply
<1> QED BY <1>3, <1>4

\* A step of the server that tracks no new reply.
LEMMA ServerConfirms ==
  ASSUME TypeOK, TypeOK', Confirms, \A o \in Ops : Done(o) => Done(o)',
         UNCHANGED <<up, epoch, messages, messagesToAck>>,
         \A e \in Epochs : \A k \in 1..Len(toServer'[e]) :
           \E j \in 1..Len(toServer[e]) : toServer'[e][k] = toServer[e][j],
         sLastId <= sLastId',
         \A r \in DOMAIN toConfirm' : r \in DOMAIN toConfirm /\ toConfirm'[r] = toConfirm[r],
         \A k \in 1..Len(toClient') :
           \/ \E j \in 1..Len(toClient) : toClient'[k] = toClient[j]
           \/ toClient'[k].id = sLastId + 1 /\ sLastId' = sLastId + 1
  PROVE  Confirms'
<1>1. /\ sLastId \in Nat /\ sLastId' \in Nat /\ epoch \in Epochs
      /\ DOMAIN toConfirm \subseteq Nat
  BY DEF TypeOK, IsMap
<1>2. TrackingGrows
  BY DEF TrackingGrows
<1>3. KeysGivenOut'
  BY <1>1 DEF Confirms, KeysGivenOut
<1>4. \A k \in 1..Len(toClient') :
        \/ \E j \in 1..Len(toClient) : toClient'[k] = toClient[j]
        \/ toClient'[k].id <= sLastId' /\ toClient'[k].id \notin DOMAIN toConfirm'
  BY <1>1 DEF Confirms, KeysGivenOut
<1>5. RepliesTracked'
  BY <1>2, <1>4, RepliesStayTracked DEF Confirms
<1>6. AcksRead'
  <2> DEFINE S == {}
  <2>1. AcksRead /\ \A r \in S : WasRead(r)'
    BY DEF Confirms
  <2> HIDE DEF S
  <2> QED BY <1>1, <1>2, <2>1, AcksKept
<1> QED BY <1>3, <1>5, <1>6 DEF Confirms

\* A run on the living connection tracks its reply.
LEMMA RunConfirms ==
  ASSUME Owned, TypeOK', Confirms, \A o \in Ops : Done(o) => Done(o)',
         NEW s \in started, NEW ok \in BOOLEAN, RunOperation(s, ok)
  PROVE  Confirms'
<1>1. /\ TypeOK /\ Reply(s.epoch, TRUE, "result", s.id, s.op, ok, "none")
      /\ toConfirm' = IF Current(s.epoch) THEN Insert(toConfirm, sLastId', s.op) ELSE toConfirm
      /\ UNCHANGED <<up, epoch, messages, messagesToAck, toServer>>
      /\ DOMAIN toConfirm \subseteq Nat /\ epoch \in Epochs
  BY DEF Owned, TypeOK, IsMap, RunOperation, client
<1>2. /\ sLastId \in Nat /\ sLastId <= sLastId'
      /\ Current(s.epoch) => sLastId' = sLastId + 1
      /\ ~Current(s.epoch) => sLastId' = sLastId
      /\ \A k \in 1..Len(toClient') :
           \/ \E j \in 1..Len(toClient) : toClient'[k] = toClient[j]
           \/ /\ Current(s.epoch) /\ toClient'[k].id = sLastId + 1
              /\ toClient'[k].kind = "result" /\ toClient'[k].op = s.op
  <2>1. TypeOK /\ Reply(s.epoch, TRUE, "result", s.id, s.op, ok, "none")
    BY <1>1
  <2>2. /\ sLastId \in Nat /\ sLastId <= sLastId'
        /\ Current(s.epoch) => sLastId' = sLastId + 1
        /\ ~Current(s.epoch) => sLastId' = sLastId
    BY <2>1, ReplyIds, Zenon
  <2>3. NextReply(s.epoch, "result", s.op)
    BY <2>1, ReplyIds, Zenon
  <2> QED BY <2>2, <2>3 DEF NextReply
<1>3. CASE ~Current(s.epoch)
  BY <1>1, <1>2, <1>3, ServerConfirms
<1>4. CASE Current(s.epoch)
  <2>1. toConfirm' = Insert(toConfirm, sLastId + 1, s.op) /\ sLastId' = sLastId + 1
    BY <1>1, <1>2, <1>4
  <2>2. /\ DOMAIN toConfirm' = DOMAIN toConfirm \cup {sLastId + 1}
        /\ toConfirm'[sLastId + 1] = s.op
        /\ \A r \in DOMAIN toConfirm : r # sLastId + 1 => toConfirm'[r] = toConfirm[r]
    BY <2>1 DEF Insert
  <2>3. TrackingGrows
    BY <1>2, <2>2 DEF TrackingGrows
  <2>4. KeysGivenOut'
    BY <1>1, <1>2, <2>1, <2>2 DEF Confirms, KeysGivenOut
  <2>5. RepliesTracked'
    <3>1. \A k \in 1..Len(toClient') :
            \/ \E j \in 1..Len(toClient) : toClient'[k] = toClient[j]
            \/ /\ toClient'[k].id <= sLastId'
               /\ toClient'[k].kind = "result" /\ toClient'[k].op = toConfirm'[toClient'[k].id]
      BY <1>2, <2>1, <2>2
    <3> QED BY <1>1, <2>3, <3>1, RepliesStayTracked DEF Confirms
  <2>6. AcksRead'
    <3> DEFINE S == {}
    <3>1. AcksRead /\ \A r \in S : WasRead(r)'
      BY DEF Confirms
    <3> HIDE DEF S
    <3> QED BY <1>1, <2>3, <3>1, AcksKept
  <2> QED BY <2>4, <2>5, <2>6 DEF Confirms
<1> QED BY <1>3, <1>4

\* The other steps of the server.
LEMMA ReadConfirms ==
  ASSUME Owned, TypeOK', Confirms, \A o \in Ops : Done(o) => Done(o)',
         \/ \E e \in Epochs : ServerDropsConnection(e) \/ ServerReceive(e)
         \/ RotateSalt \/ ExpireOldSalt \/ SendUpdates \/ UNCHANGED vars
  PROVE  Confirms'
<1>0. TypeOK /\ toServer \in [Epochs -> Seq(ClientPacket)] /\ sLastId \in Nat
  BY DEF Owned, TypeOK
<1>1. ASSUME NEW e \in Epochs, ServerDropsConnection(e) PROVE Confirms'
  <2>1. UNCHANGED <<up, epoch, messages, messagesToAck, toClient, toConfirm, sLastId>>
    BY <1>1 DEF ServerDropsConnection, client, sLayer
  <2>2. \A f \in Epochs : toServer'[f] = IF f = e THEN <<>> ELSE toServer[f]
    BY <1>0, <1>1 DEF ServerDropsConnection
  <2>3. \A f \in Epochs : \A k \in 1..Len(toServer'[f]) :
          \E j \in 1..Len(toServer[f]) : toServer'[f][k] = toServer[f][j]
    BY <1>0, <2>2
  <2>4. sLastId <= sLastId'
    BY <1>0, <2>1
  <2> QED BY <1>0, <2>1, <2>3, <2>4, ServerConfirms
<1>2. ASSUME NEW e \in Epochs, ServerReceive(e) PROVE Confirms'
  <2> DEFINE p == Incoming(e)
  <2>1. Read(e) /\ UNCHANGED <<up, epoch, messages, messagesToAck>>
    BY <1>2 DEF ServerReceive, IgnoreMessage, ProcessPing, ProcessMessageAck,
                RejectUnauthorized, StartOperation, NotProcessed, Read, client
  <2>2. \A f \in Epochs : \A k \in 1..Len(toServer'[f]) :
          \E j \in 1..Len(toServer[f]) : toServer'[f][k] = toServer[f][j]
    BY <1>0, <2>1, ReadFacts
  <2>3. \A r \in DOMAIN toConfirm' : r \in DOMAIN toConfirm /\ toConfirm'[r] = toConfirm[r]
    BY <1>2 DEF ServerReceive, IgnoreMessage, ProcessPing, ProcessMessageAck,
                RejectUnauthorized, StartOperation, NotProcessed, Restrict
  <2>4. /\ sLastId <= sLastId'
        /\ \A k \in 1..Len(toClient') :
             \/ \E j \in 1..Len(toClient) : toClient'[k] = toClient[j]
             \/ toClient'[k].id = sLastId + 1 /\ sLastId' = sLastId + 1
    <3>1. CASE NoReply
      BY <1>0, <3>1 DEF NoReply
    <3>2. CASE \E related, kind, re, q, ok, code : Reply(e, related, kind, re, q, ok, code)
      BY <1>0, <3>2, ReplyIds DEF NextReply
    <3>3. NoReply \/ \E related, kind, re, q, ok, code : Reply(e, related, kind, re, q, ok, code)
      BY <1>2, Zenon DEF ServerReceive, IgnoreMessage, ProcessPing, ProcessMessageAck,
                  RejectUnauthorized, StartOperation, NotProcessed
    <3> QED BY <3>1, <3>2, <3>3
  <2> QED BY <1>0, <2>1, <2>2, <2>3, <2>4, ServerConfirms
<1>3. CASE SendUpdates
  <2>1. /\ UNCHANGED <<up, epoch, messages, messagesToAck, toServer, toConfirm>>
        /\ Reply(epoch, TRUE, "update", 0, NoOp, FALSE, "none")
    BY <1>3 DEF SendUpdates, client
  <2>2. /\ sLastId <= sLastId'
        /\ \A k \in 1..Len(toClient') :
             \/ \E j \in 1..Len(toClient) : toClient'[k] = toClient[j]
             \/ toClient'[k].id = sLastId + 1 /\ sLastId' = sLastId + 1
    BY <1>0, <2>1, ReplyIds DEF NextReply
  <2> QED BY <1>0, <2>1, <2>2, ServerConfirms
<1>4. CASE RotateSalt \/ ExpireOldSalt \/ UNCHANGED vars
  <2>1. UNCHANGED <<up, epoch, messages, messagesToAck, toServer, toClient, toConfirm, sLastId>>
    BY <1>4 DEF RotateSalt, ExpireOldSalt, vars, client, sLayer
  <2> QED BY <1>0, <2>1, ServerConfirms
<1> QED BY <1>1, <1>2, <1>3, <1>4

\* A step of the client on a living connection: it acknowledges what it has
\* read, and what it has read before.
LEMMA ClientConfirms ==
  ASSUME Owned, TypeOK', Confirms, \A o \in Ops : Done(o) => Done(o)',
         UNCHANGED <<up, epoch, sLastId, toConfirm>>,
         NEW S, \A r \in S : WasRead(r)',
         \A r \in messagesToAck' : r \in messagesToAck \/ r \in S,
         \A i \in DOMAIN messages' :
           \/ i \in DOMAIN messages /\ messages'[i] = messages[i]
           \/ messages'[i].ids \subseteq S,
         \A e \in Epochs : \A k \in 1..Len(toServer'[e]) :
           \/ \E j \in 1..Len(toServer[e]) : toServer'[e][k] = toServer[e][j]
           \/ toServer'[e][k].m.ids \subseteq S,
         \A k \in 1..Len(toClient') : \E j \in 1..Len(toClient) : toClient'[k] = toClient[j]
  PROVE  Confirms'
<1>1. TypeOK /\ sLastId \in Nat /\ epoch \in Epochs
  BY DEF Owned, TypeOK
<1>2. TrackingGrows
  BY <1>1 DEF TrackingGrows
<1>3. KeysGivenOut'
  BY DEF Confirms, KeysGivenOut
<1>4. RepliesTracked'
  BY <1>1, <1>2, RepliesStayTracked DEF Confirms
<1>5. AcksRead'
  BY <1>1, <1>2, AcksKept DEF Confirms
<1> QED BY <1>3, <1>4, <1>5 DEF Confirms

\* The ids that are acknowledged now were read and stay read.
LEMMA OldAcks ==
  ASSUME Owned, TypeOK', Confirms, \A o \in Ops : Done(o) => Done(o)',
         UNCHANGED <<sLastId, toConfirm>>
  PROVE  /\ \A r \in messagesToAck : WasRead(r)'
         /\ \A i \in DOMAIN messages : \A r \in messages[i].ids : WasRead(r)'
<1>1. TypeOK /\ sLastId \in Nat
  BY DEF Owned, TypeOK
<1>2. TrackingGrows
  BY <1>1 DEF TrackingGrows
<1>3. ASSUME NEW r \in messagesToAck PROVE WasRead(r)'
  BY <1>1, <1>2, AckTypes, ReadKept DEF Confirms, AcksRead
<1>4. ASSUME NEW i \in DOMAIN messages, NEW r \in messages[i].ids PROVE WasRead(r)'
  <2>1. r \in Nat /\ WasRead(r)
    BY <1>1, AckTypes DEF Confirms, AcksRead
  <2> QED BY <1>1, <1>2, <2>1, ReadKept
<1> QED BY <1>3, <1>4

\* sendRpc and acknowledgeMessages.
LEMMA SendConfirms ==
  ASSUME Owned, TypeOK', Confirms, \A o \in Ops : Done(o) => Done(o)',
         (\E o \in Ops : SendRpc(o)) \/ AcknowledgeMessages
  PROVE  Confirms'
<1> DEFINE new == NewMessageId(lastId)
<1>1. /\ TypeOK /\ UNCHANGED <<up, epoch, toClient, sLastId, toConfirm>> /\ new \in Nat
      /\ serverSalt \in Nat
  BY IdFacts DEF Owned, TypeOK, SendRpc, AcknowledgeMessages, sLayer
<1>2. \E m \in Message :
        /\ SendPacket(Packet(new, serverSalt, m))
        /\ messages' = Insert(messages, new, m)
        /\ messagesToAck' \subseteq messagesToAck
        /\ m.ids \subseteq messagesToAck
  <2>1. ASSUME NEW o \in Ops, SendRpc(o)
        PROVE  /\ RpcMessage(o) \in Message /\ RpcMessage(o).ids = {}
               /\ SendPacket(Packet(new, serverSalt, RpcMessage(o)))
               /\ messages' = Insert(messages, new, RpcMessage(o))
               /\ UNCHANGED messagesToAck
    <3>1. RpcMessage(o) \in Message
      BY <1>1, BuiltMessages
    <3>2. RpcMessage(o).ids = {}
      BY DEF RpcMessage
    <3> QED BY <2>1, <3>1, <3>2 DEF SendRpc
  <2>2. ASSUME AcknowledgeMessages
        PROVE  /\ AckMessage \in Message /\ AckMessage.ids = messagesToAck
               /\ SendPacket(Packet(new, serverSalt, AckMessage))
               /\ messages' = Insert(messages, new, AckMessage)
               /\ messagesToAck' = {}
    <3>1. AckMessage \in Message
      BY <1>1, BuiltMessages
    <3>2. AckMessage.ids = messagesToAck
      BY DEF AckMessage
    <3> QED BY <2>2, <3>1, <3>2 DEF AcknowledgeMessages
  <2> HIDE DEF new
  <2> QED BY <2>1, <2>2
<1>3. PICK m \in Message :
        /\ SendPacket(Packet(new, serverSalt, m))
        /\ messages' = Insert(messages, new, m)
        /\ messagesToAck' \subseteq messagesToAck
        /\ m.ids \subseteq messagesToAck
  BY <1>2
<1> HIDE DEF new
<1>4. \A e \in Epochs : \A k \in 1..Len(toServer'[e]) :
        \/ \E j \in 1..Len(toServer[e]) : toServer'[e][k] = toServer[e][j]
        \/ toServer'[e][k].m.ids \subseteq messagesToAck
  <2>1. \A e \in Epochs : \A k \in 1..Len(toServer'[e]) :
          \/ \E j \in 1..Len(toServer[e]) : toServer'[e][k] = toServer[e][j]
          \/ toServer'[e][k].m = m
    BY <1>1, <1>3, SentFacts
  <2> QED BY <1>3, <2>1
<1>5. \A i \in DOMAIN messages' :
        \/ i \in DOMAIN messages /\ messages'[i] = messages[i]
        \/ messages'[i].ids \subseteq messagesToAck
  BY <1>3, InsertedMessages
<1>6. \A r \in messagesToAck : WasRead(r)'
  BY <1>1, OldAcks
<1> QED BY <1>1, <1>3, <1>4, <1>5, <1>6, ClientConfirms

\* The packet the client takes, if it is tracked, finishes its operation.
LEMMA ReceivedWasRead ==
  ASSUME Owned, Tokens, Alive, TypeOK', Confirms, ClientReceive
  PROVE  \A r \in {Received.id} : WasRead(r)'
<1>1. /\ TypeOK /\ up /\ UNCHANGED <<sLastId, toConfirm>> /\ \E kind : ReceivePacket(kind)
      /\ RepliesOwned /\ IsMap(toConfirm, Ops) /\ IsMap(operations, Ops)
      /\ opState \in [Ops -> OpStates]
  BY DEF Owned, TypeOK, ClientReceive, ProcessUpdates, ProcessRpcResult, ProcessPong,
         ProcessIgnoredMessageNotification, ReceivePacket, sLayer
<1>2. 1 \in 1..Len(toClient) /\ Received = toClient[1]
  BY <1>1, ReceivedFacts
<1>3. Received.id <= sLastId
  BY <1>2 DEF Confirms, RepliesTracked
<1>4. ASSUME Received.id \in DOMAIN toConfirm
      PROVE  opState'[toConfirm[Received.id]] \in {"succeeded", "failed"}
  <2>1. Received.kind = "result" /\ Received.op = toConfirm[Received.id]
    BY <1>2, <1>4 DEF Confirms, RepliesTracked
  <2>2. /\ Received.re \in DOMAIN operations /\ operations[Received.re] = Received.op
        /\ operations[Received.re] \in Ops
    BY <1>1, <1>2, <2>1 DEF Alive, LiveAnswers, RepliesOwned, ReplyOwned, Owner, IsMap
  <2>3. ProcessRpcResult
    BY <2>1 DEF ClientReceive, ProcessUpdates, ProcessPong, ProcessIgnoredMessageNotification,
                ReceivePacket
  <2>4. opState' = [opState EXCEPT ![operations[Received.re]] = FinishedState(Received.ok)]
    BY <2>2, <2>3 DEF ProcessRpcResult
  <2>5. FinishedState(Received.ok) \in {"succeeded", "failed"}
    BY DEF FinishedState
  <2> QED BY <1>1, <2>1, <2>2, <2>4, <2>5
<1> SUFFICES ASSUME NEW r, r = Received.id PROVE WasRead(r)'
  OBVIOUS
<1> QED BY <1>1, <1>3, <1>4 DEF WasRead, Done

\* Receiving adds the packet to what is to be acknowledged.
LEMMA ReceiveConfirms ==
  ASSUME Owned, Tokens, Alive, TypeOK', Confirms, \A o \in Ops : Done(o) => Done(o)',
         ClientReceive
  PROVE  Confirms'
<1> DEFINE old == Received.re
           new == NewMessageId(lastId)
<1>1. /\ TypeOK /\ UNCHANGED <<up, epoch, sLastId, toConfirm>> /\ \E kind : ReceivePacket(kind)
      /\ IsMap(messages, Message) /\ new \in Nat
      /\ \A r \in messagesToAck' : r \in messagesToAck \/ r \in {Received.id}
  BY IdFacts DEF Owned, TypeOK, ClientReceive, ProcessUpdates, ProcessRpcResult, ProcessPong,
         ProcessIgnoredMessageNotification, ReceivePacket, sLayer
<1>2. \A k \in 1..Len(toClient') : \E j \in 1..Len(toClient) : toClient'[k] = toClient[j]
  BY <1>1, ReceivedFacts
<1>3. \A r \in {Received.id} : WasRead(r)'
  BY ReceivedWasRead
<1>4. CASE /\ UNCHANGED toServer
           /\ \A i \in DOMAIN messages' : i \in DOMAIN messages /\ messages'[i] = messages[i]
  BY <1>1, <1>2, <1>3, <1>4, ClientConfirms
<1>5. CASE /\ ProcessIgnoredMessageNotification
           /\ old \in DOMAIN messages /\ old \in DOMAIN operations
  <2> DEFINE m == ResentMessage(Received.code, messages[old])
             S == {Received.id} \cup messages[old].ids
  <2>1. Resend(old, m)
    BY <1>5 DEF ProcessIgnoredMessageNotification
  <2>2. messages[old] \in Message
    BY <1>1, <1>5 DEF IsMap
  <2>3. m \in Message /\ Received.salt \in Nat
    BY <1>1, <2>2, MessageFacts, ReceiveType
  <2>4. m.ids = messages[old].ids
    BY <2>2 DEF ResentMessage, Message
  <2>5. \A r \in S : WasRead(r)'
    <3>1. \A r \in messages[old].ids : WasRead(r)'
      BY <1>1, <1>5, OldAcks
    <3> QED BY <1>3, <3>1
  <2> HIDE DEF m
  <2>6. /\ messages' = Insert(Drop(messages, old), new, m)
        /\ SendPacket(Packet(new, Received.salt, m))
    BY <2>1 DEF Resend
  <2> HIDE DEF new, old
  <2>7. \A e \in Epochs : \A k \in 1..Len(toServer'[e]) :
          \/ \E j \in 1..Len(toServer[e]) : toServer'[e][k] = toServer[e][j]
          \/ toServer'[e][k].m.ids \subseteq S
    <3>1. \A e \in Epochs : \A k \in 1..Len(toServer'[e]) :
            \/ \E j \in 1..Len(toServer[e]) : toServer'[e][k] = toServer[e][j]
            \/ toServer'[e][k].m = m
      BY <1>1, <2>3, <2>6, SentFacts
    <3> QED BY <2>4, <3>1
  <2>8. \A i \in DOMAIN messages' :
          \/ i \in DOMAIN messages /\ messages'[i] = messages[i]
          \/ messages'[i].ids \subseteq S
    <3>1. \A i \in DOMAIN messages' :
            (i \in DOMAIN messages /\ messages'[i] = messages[i]) \/ messages'[i] = m
      BY <2>6 DEF Insert, Drop, Restrict
    <3> QED BY <2>4, <3>1
  <2>9. \A r \in messagesToAck' : r \in messagesToAck \/ r \in S
    BY <1>1
  <2> HIDE DEF S
  <2> QED BY <1>1, <1>2, <2>5, <2>7, <2>8, <2>9, ClientConfirms
<1>6. CASE ~ (/\ ProcessIgnoredMessageNotification
              /\ old \in DOMAIN messages /\ old \in DOMAIN operations)
  BY <1>4, <1>6 DEF ClientReceive, ProcessUpdates, ProcessRpcResult, ProcessPong,
                    ProcessIgnoredMessageNotification, Drop, Restrict
<1> QED BY <1>5, <1>6

\* A connection that ends leaves nothing to confirm.
LEMMA ConnectionConfirms ==
  ASSUME Owned, Alive, Confirms, ConnectionLost \/ ClientCrash \/ Resume,
         \A o \in Ops : Done(o) => Done(o)', TypeOK'
  PROVE  Confirms'
<1>1. CASE ConnectionLost \/ ClientCrash
  <2>1. /\ ~up' /\ toClient' = <<>> /\ messagesToAck' = {}
        /\ DOMAIN messages' = {} /\ DOMAIN toConfirm' = {}
    BY <1>1, NoneFacts DEF ConnectionLost, ClientCrash, LayersGone
  <2> QED BY <2>1 DEF Confirms, KeysGivenOut, RepliesTracked, AcksRead
<1>2. CASE Resume
  <2>1. /\ UNCHANGED <<toServer, toClient, messages, messagesToAck, sLastId, toConfirm>>
        /\ epoch' = epoch + 1 /\ epoch \in Nat /\ epoch + 1 \in Epochs
        /\ TypeOK /\ sLastId \in Nat
    BY <1>2, BoundAssumption DEF Resume, sLayer, Owned, TypeOK, Epochs
  <2>2. toServer'[epoch'] = <<>>
    BY <2>1 DEF Alive, NothingAhead
  <2>3. KeysGivenOut' /\ RepliesTracked'
    BY <2>1 DEF Confirms, KeysGivenOut, RepliesTracked
  <2>4. /\ \A r \in messagesToAck : WasRead(r)'
        /\ \A i \in DOMAIN messages : \A r \in messages[i].ids : WasRead(r)'
    BY <2>1, OldAcks
  <2>5. AcksRead'
    BY <2>1, <2>2, <2>4 DEF AcksRead
  <2> QED BY <2>3, <2>5 DEF Confirms
<1> QED BY <1>1, <1>2
-----------------------------------------------------------------------------
\* What is acknowledged was read, and its operation has finished.
THEOREM ConfirmsInvariant == Spec => []Confirms
<1>1. Init => Confirms
  <2> SUFFICES ASSUME Init PROVE Confirms
    OBVIOUS
  <2>1. /\ toServer = [e \in Epochs |-> <<>>] /\ toClient = <<>> /\ messagesToAck = {}
        /\ epoch \in Epochs /\ DOMAIN messages = {} /\ DOMAIN toConfirm = {}
    BY BoundAssumption, NoneFacts DEF Init, Epochs
  <2> QED BY <2>1 DEF Confirms, KeysGivenOut, RepliesTracked, AcksRead
<1>2. Owned /\ Tokens /\ Alive /\ Confirms /\ [Next]_vars => Confirms'
  <2> SUFFICES ASSUME Owned, Tokens, Alive, Confirms, [Next]_vars PROVE Confirms'
    OBVIOUS
  <2>1. TypeOK' /\ \A o \in Ops : Done(o) => Done(o)'
    BY StepTypes, DoneKept DEF Owned
  <2> QED BY <2>1, RunConfirms, ReadConfirms, SendConfirms, ReceiveConfirms, ConnectionConfirms
             DEF Next
<1> QED BY <1>1, <1>2, OwnedInvariant, TokensInvariant, AliveInvariant, PTL DEF Spec

\* On a living connection the server forgets a tracked reply only after the
\* client's operation has finished.
THEOREM ConfirmedOnlyWhenRead == Spec => ConfirmedWasReceived
<1>1. Owned /\ Confirms /\ [Next]_vars =>
        [\A r \in DOMAIN toConfirm :
           up' /\ epoch' = epoch /\ r \notin DOMAIN toConfirm'
             => opState[toConfirm[r]] \in {"succeeded", "failed"}]_vars
  <2> SUFFICES ASSUME Owned, Confirms, Next, NEW r \in DOMAIN toConfirm,
                      up', epoch' = epoch, r \notin DOMAIN toConfirm'
               PROVE  opState[toConfirm[r]] \in {"succeeded", "failed"}
    OBVIOUS
  <2>1. TypeOK /\ epoch \in Epochs /\ IsMap(toConfirm, Ops)
    BY DEF Owned, TypeOK
  <2>2. PICK e \in Epochs : ProcessMessageAck(e)
    <3>1. ~ \E s \in started, ok \in BOOLEAN : RunOperation(s, ok)
      BY DEF RunOperation, Insert
    <3> QED BY <3>1 DEF Next, SendRpc, AcknowledgeMessages, ClientReceive, ProcessUpdates,
         ProcessRpcResult, ProcessPong, ProcessIgnoredMessageNotification, ConnectionLost,
         ClientCrash, LayersGone, Resume, ServerDropsConnection, ServerReceive, IgnoreMessage,
         ProcessPing, RejectUnauthorized, StartOperation, NotProcessed, RotateSalt,
         ExpireOldSalt, SendUpdates, sLayer
  <2>3. /\ Read(e) /\ up /\ Current(e) /\ r \in Incoming(e).m.ids
    BY <2>2, up', epoch' = epoch DEF ProcessMessageAck, Read, Current, Restrict
  <2>4. 1 \in 1..Len(toServer[epoch]) /\ Incoming(e) = toServer[epoch][1]
    BY <2>1, <2>3, ReadFacts DEF Current
  <2>5. WasRead(r)
    BY <2>3, <2>4 DEF Confirms, AcksRead
  <2> QED BY <2>5 DEF WasRead, Done
<1> QED BY <1>1, OwnedInvariant, ConfirmsInvariant, PTL DEF Spec, ConfirmedWasReceived
=============================================================================
