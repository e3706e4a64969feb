-------------------------- MODULE MessagingProofs --------------------------
(***************************************************************************)
(* Proofs about ServerMessaging, for any users, sessions, slice of dialogs *)
(* and number of messages.                                                 *)
(***************************************************************************)
EXTENDS ServerMessaging, SequenceTheorems, FiniteSetTheorems, TLAPS

(***************************************************************************)
(* The inductive invariant.                                                *)
(***************************************************************************)
Message == [from : Users, to : Users, ref : UNION {[S -> Nat] : S \in SUBSET Users}]
Dialog == [top : Nat, date : Nat, readInboxMaxId : Nat, readOutboxMaxId : Nat, unread : Nat]
View == [since : Nat, new : Seq(Nat), known : SUBSET Users, pts : Nat, maxPts : Nat,
         outbox : [Users -> Nat], maxOutbox : [Users -> Nat]]
Paging == [state : {"idle", "more", "done", "undefined"}, offset : Users \cup {None}, top : Nat]

ServerTyped ==
  /\ messages \in Seq(Message)
  /\ box \in [Users -> Seq(Nat)]
  /\ pts \in [Users -> Nat]
  /\ unread \in [Users -> Nat]
  /\ dialog \in [Users -> [Users -> Dialog]]

SessionsTyped ==
  /\ active \in SUBSET Sessions
  /\ view \in [Sessions -> View]
  /\ paging \in [Sessions -> Paging]

\* A message is in the post boxes of its two users, at the ids it refers to, and a
\* post box holds only messages of its user, in the order they were sent.
Filed ==
  /\ \A u \in Users : \A id \in DOMAIN box[u] :
       /\ box[u][id] \in DOMAIN messages
       /\ u \in {messages[box[u][id]].from, messages[box[u][id]].to}
  /\ \A g \in DOMAIN messages : \A u \in {messages[g].from, messages[g].to} :
       messages[g].ref[u] \in DOMAIN box[u] /\ box[u][messages[g].ref[u]] = g
  /\ \A u \in Users : \A i, j \in DOMAIN box[u] : i < j => box[u][i] < box[u][j]

\* A dialog names its newest message and the date of that, and its read mark is an id
\* of the post box.
TopsRight ==
  \A u, p \in Users :
    /\ \A id \in DialogIds(u, p) : id <= dialog[u][p].top
    /\ dialog[u][p].top # 0 =>
         /\ dialog[u][p].top \in DialogIds(u, p)
         /\ dialog[u][p].date = box[u][dialog[u][p].top]
    /\ dialog[u][p].readInboxMaxId <= Len(box[u])

\* The list of dialogs holds the peers with a message, by descending date.
Sorted(list, dialogs) ==
  /\ list \in Seq(Users)
  /\ \A i, j \in DOMAIN list : i < j => dialogs[list[i]].date > dialogs[list[j]].date
  /\ Elems(list) = {p \in Users : dialogs[p].top # 0}

Ordered ==
  /\ order \in [Users -> Seq(Users)]
  /\ \A u \in Users : Sorted(order[u], dialog[u])

\* What a session was told is the part of the post box since it connected.
SinceRight == \A s \in active : view[s].since <= Len(box[Owner[s]])

\* A session knows finitely many dialogs.
KnownFinite == \A s \in Sessions : IsFiniteSet(view[s].known)

\* A session that pages has an offset it knows; everything newer is known too.  The
\* offset of a dialog that has moved is never its top again.
PagesRight ==
  \A s \in Sessions :
    LET u == Owner[s]  off == paging[s].offset IN
    /\ paging[s].state \in {"more", "undefined"} =>
         /\ s \in active /\ off \in Users /\ off \in view[s].known
         /\ dialog[u][off].top # 0 /\ paging[s].top # 0
         /\ paging[s].top <= dialog[u][off].top
    /\ paging[s].state = "more" /\ paging[s].top = dialog[u][off].top =>
         \A p \in Users : dialog[u][p].top # 0 /\ dialog[u][p].date > dialog[u][off].date
                            => p \in view[s].known
    /\ paging[s].state = "undefined" => paging[s].top < dialog[u][off].top

MessagingInv ==
  /\ ServerTyped /\ SessionsTyped /\ Filed /\ TopsRight /\ Ordered
  /\ SinceRight /\ KnownFinite /\ PagesRight
  /\ UnreadCountsMessages /\ EveryMessageToldOnce /\ SessionsUpToDate /\ ReadIsReported
-----------------------------------------------------------------------------
(***************************************************************************)
(* What sendMessage does to the state of one user.                         *)
(***************************************************************************)
\* The other user of a message, for one of its two.
PeerOf(u, from, to) == IF u = from THEN to ELSE from

\* User u gets the message with the global id g in the dialog with p.
GetsMessage(u, p, g, isOwn) ==
  /\ box'[u] = Append(box[u], g)
  /\ pts'[u] = pts[u] + 1
  /\ dialog'[u] = [dialog[u] EXCEPT ![p] =
                     WithNewMessage(dialog[u][p], Len(box[u]) + 1, g, isOwn)]
  /\ unread'[u] = IF isOwn THEN unread[u] ELSE unread[u] + 1
  /\ order'[u] = SyncDialogsOrder(EnsureDialog(u, p), dialog'[u])

GetsNothing(u) ==
  /\ box'[u] = box[u] /\ pts'[u] = pts[u] /\ dialog'[u] = dialog[u]
  /\ unread'[u] = unread[u] /\ order'[u] = order[u]

\* sendMessage is the step of its two users; nobody else's state changes.
LEMMA SendEffect ==
  ASSUME ServerTyped, NEW s \in Sessions, NEW to \in Users, SendMessage(s, to)
  PROVE  \A u \in Users :
           IF u \in {Owner[s], to}
           THEN GetsMessage(u, PeerOf(u, Owner[s], to), Len(messages) + 1, u = Owner[s])
           ELSE GetsNothing(u)
<1>. DEFINE from == Owner[s]
<1>0. from \in Users
  BY MessagingAssumption
<1>. SUFFICES ASSUME NEW u \in Users
     PROVE  IF u \in {from, to}
            THEN GetsMessage(u, PeerOf(u, from, to), Len(messages) + 1, u = from)
            ELSE GetsNothing(u)
  OBVIOUS
<1>1. ProcessMessage(from, to)
  BY DEF SendMessage
<1>. HIDE DEF from
<1>2. CASE u \notin {from, to}
  BY <1>1, <1>2 DEF ProcessMessage, AddToPostBoxes, GetsNothing
<1>3. CASE u \in {from, to}
  <2>. DEFINE p == PeerOf(u, from, to)
              new == WithNewMessage(dialog[u][p], Len(box[u]) + 1, Len(messages) + 1, u = from)
  <2>1. box'[u] = Append(box[u], Len(messages) + 1) /\ pts'[u] = pts[u] + 1
    BY <1>1, <1>3 DEF ProcessMessage, AddToPostBoxes
  <2>2. dialog'[u] = [dialog[u] EXCEPT ![p] = new]
    BY <1>1, <1>3 DEF ProcessMessage, PeerOf
  <2>3. order'[u] = SyncDialogsOrder(EnsureDialog(u, p), [dialog[u] EXCEPT ![p] = new])
    BY <1>1, <1>3 DEF ProcessMessage, PeerOf
  <2>4. unread'[u] = unread[u] + new.unread - dialog[u][p].unread
    BY <1>1, <1>3 DEF ProcessMessage, PeerOf
  <2>5. p \in Users /\ dialog[u][p] \in Dialog /\ unread[u] \in Nat
    BY <1>0 DEF PeerOf, ServerTyped
  <2>6. new.unread = IF u = from THEN dialog[u][p].unread ELSE dialog[u][p].unread + 1
    BY <2>5 DEF WithNewMessage, Dialog
  <2>7. unread'[u] = IF u = from THEN unread[u] ELSE unread[u] + 1
    <3>. HIDE DEF new
    <3>. QED  BY <2>4, <2>5, <2>6 DEF Dialog
  <2>. QED  BY <1>3, <2>1, <2>2, <2>3, <2>7 DEF GetsMessage
<1>. QED  BY <1>2, <1>3

\* What a new message leaves in its dialog.
LEMMA NewDialog ==
  ASSUME NEW d \in Dialog, NEW id \in Nat, NEW g \in Nat, NEW isOwn
  PROVE  /\ WithNewMessage(d, id, g, isOwn) \in Dialog
         /\ WithNewMessage(d, id, g, isOwn).top = id
         /\ WithNewMessage(d, id, g, isOwn).date = g
         /\ WithNewMessage(d, id, g, isOwn).readInboxMaxId = d.readInboxMaxId
         /\ WithNewMessage(d, id, g, isOwn).readOutboxMaxId = d.readOutboxMaxId
         /\ WithNewMessage(d, id, g, isOwn).unread = IF isOwn THEN d.unread ELSE d.unread + 1
<1>. DEFINE n == IF isOwn THEN d.unread ELSE d.unread + 1
<1>1. n \in Nat
  BY DEF Dialog
<1>2. WithNewMessage(d, id, g, isOwn) = [d EXCEPT !.top = id, !.date = g, !.unread = n]
  BY DEF WithNewMessage
<1>. HIDE DEF n
<1>3. [d EXCEPT !.top = id, !.date = g, !.unread = n] \in Dialog
  BY <1>1 DEF Dialog
<1>4. /\ WithNewMessage(d, id, g, isOwn).top = id
      /\ WithNewMessage(d, id, g, isOwn).date = g
      /\ WithNewMessage(d, id, g, isOwn).readInboxMaxId = d.readInboxMaxId
      /\ WithNewMessage(d, id, g, isOwn).readOutboxMaxId = d.readOutboxMaxId
      /\ WithNewMessage(d, id, g, isOwn).unread = n
  BY <1>2 DEF Dialog
<1>. QED  BY <1>2, <1>3, <1>4 DEF n

\* sendMessage leaves a function of the users in every variable.
LEMMA SendShape ==
  ASSUME NEW s \in Sessions, NEW to \in Users, SendMessage(s, to)
  PROVE  /\ box' = [u \in Users |-> box'[u]]
         /\ pts' = [u \in Users |-> pts'[u]]
         /\ dialog' = [u \in Users |-> dialog'[u]]
         /\ unread' = [u \in Users |-> unread'[u]]
         /\ order' = [u \in Users |-> order'[u]]
<1>1. ProcessMessage(Owner[s], to)
  BY DEF SendMessage
<1>2. box' = [u \in Users |-> box'[u]] /\ pts' = [u \in Users |-> pts'[u]]
  BY <1>1 DEF ProcessMessage, AddToPostBoxes
<1>3. dialog' = [u \in Users |-> dialog'[u]]
  BY <1>1 DEF ProcessMessage
<1>4. unread' = [u \in Users |-> unread'[u]]
  BY <1>1 DEF ProcessMessage
<1>5. order' = [u \in Users |-> order'[u]]
  BY <1>1 DEF ProcessMessage
<1>. QED  BY <1>2, <1>3, <1>4, <1>5

\* The message that is sent is the last one and refers to the ends of the post boxes.
LEMMA SentMessage ==
  ASSUME ServerTyped, NEW s \in Sessions, NEW to \in Users, SendMessage(s, to)
  PROVE  /\ messages' \in Seq(Message) /\ Len(messages') = Len(messages) + 1
         /\ \A g \in DOMAIN messages : messages'[g] = messages[g]
         /\ messages'[Len(messages) + 1].from = Owner[s]
         /\ messages'[Len(messages) + 1].to = to
         /\ \A u \in {Owner[s], to} : messages'[Len(messages) + 1].ref[u] = Len(box[u]) + 1
<1>. DEFINE from == Owner[s]
            ref == [u \in {from, to} |-> Len(box[u]) + 1]
            m == [from |-> from, to |-> to, ref |-> ref]
<1>1. messages' = Append(messages, m)
  BY DEF SendMessage, AddMessage
<1>2. from \in Users
  BY MessagingAssumption
<1>3. ref \in [{from, to} -> Nat] /\ {from, to} \in SUBSET Users
  BY <1>2 DEF ServerTyped
<1>4. ref \in UNION {[S -> Nat] : S \in SUBSET Users}
  <2>. HIDE DEF ref
  <2>. QED  BY <1>3
<1>5. m \in Message
  <2>. HIDE DEF ref
  <2>. QED  BY <1>2, <1>4 DEF Message
<1>6. m.from = from /\ m.to = to /\ \A u \in {from, to} : m.ref[u] = Len(box[u]) + 1
  OBVIOUS
<1>7. messages \in Seq(Message)
  BY DEF ServerTyped
<1>. HIDE DEF m, from
<1>8. /\ messages' \in Seq(Message) /\ Len(messages') = Len(messages) + 1
      /\ \A g \in 1..Len(messages) : messages'[g] = messages[g]
      /\ messages'[Len(messages) + 1] = m
  BY <1>1, <1>5, <1>7, AppendProperties
<1>9. DOMAIN messages = 1..Len(messages)
  BY <1>7
<1>. QED  BY <1>6, <1>8, <1>9 DEF from

\* sendMessage keeps the types of the servers' state.
LEMMA SendTyped ==
  ASSUME ServerTyped, NEW s \in Sessions, NEW to \in Users, SendMessage(s, to)
  PROVE  ServerTyped'
<1>. DEFINE from == Owner[s]
<1>0. from \in Users
  BY MessagingAssumption
<1>1. messages' \in Seq(Message)
  BY SentMessage
<1>2. ASSUME NEW u \in Users
      PROVE  /\ box'[u] \in Seq(Nat) /\ pts'[u] \in Nat /\ unread'[u] \in Nat
             /\ dialog'[u] \in [Users -> Dialog]
  <2>0. /\ box[u] \in Seq(Nat) /\ pts[u] \in Nat /\ unread[u] \in Nat
        /\ dialog[u] \in [Users -> Dialog] /\ messages \in Seq(Message)
    BY DEF ServerTyped
  <2>1. CASE u \notin {from, to}
    <3>1. GetsNothing(u)
      BY <2>1, SendEffect
    <3>. QED  BY <2>0, <3>1 DEF GetsNothing
  <2>2. CASE u \in {from, to}
    <3>. DEFINE p == PeerOf(u, from, to)  g == Len(messages) + 1  isOwn == u = from
    <3>1. GetsMessage(u, p, g, isOwn)
      BY <2>2, SendEffect
    <3>2. p \in Users /\ g \in Nat /\ Len(box[u]) + 1 \in Nat
      BY <1>0, <2>0 DEF PeerOf
    <3>. HIDE DEF p, g
    <3>3. WithNewMessage(dialog[u][p], Len(box[u]) + 1, g, isOwn) \in Dialog
      BY <2>0, <3>2, NewDialog
    <3>4. dialog'[u] \in [Users -> Dialog]
      BY <2>0, <3>1, <3>2, <3>3 DEF GetsMessage
    <3>5. box'[u] \in Seq(Nat)
      BY <2>0, <3>1, <3>2 DEF GetsMessage
    <3>6. pts'[u] \in Nat /\ unread'[u] \in Nat
      BY <2>0, <3>1 DEF GetsMessage
    <3>. QED  BY <3>4, <3>5, <3>6
  <2>. QED  BY <2>1, <2>2
<1>3. box' \in [Users -> Seq(Nat)]
  BY <1>2, SendShape, Zenon
<1>4. pts' \in [Users -> Nat] /\ unread' \in [Users -> Nat]
  BY <1>2, SendShape, Zenon
<1>5. dialog' \in [Users -> [Users -> Dialog]]
  BY <1>2, SendShape, Zenon
<1>. QED  BY <1>1, <1>3, <1>4, <1>5 DEF ServerTyped

\* Post boxes only grow, by the new message at their end.
LEMMA SendBox ==
  ASSUME ServerTyped, NEW s \in Sessions, NEW to \in Users, SendMessage(s, to),
         NEW u \in Users
  PROVE  /\ u \notin {Owner[s], to} => box'[u] = box[u]
         /\ u \in {Owner[s], to} =>
              /\ Len(box'[u]) = Len(box[u]) + 1
              /\ DOMAIN box'[u] = 1..(Len(box[u]) + 1)
              /\ box'[u][Len(box[u]) + 1] = Len(messages) + 1
         /\ DOMAIN box[u] = 1..Len(box[u]) /\ Len(box[u]) \in Nat
         /\ \A id \in DOMAIN box[u] : id \in DOMAIN box'[u] /\ box'[u][id] = box[u][id]
<1>0. box[u] \in Seq(Nat) /\ Len(messages) + 1 \in Nat
  BY DEF ServerTyped
<1>1. CASE u \notin {Owner[s], to}
  <2>1. GetsNothing(u)
    BY <1>1, SendEffect
  <2>. QED  BY <1>0, <1>1, <2>1 DEF GetsNothing
<1>2. CASE u \in {Owner[s], to}
  <2>1. GetsMessage(u, PeerOf(u, Owner[s], to), Len(messages) + 1, u = Owner[s])
    BY <1>2, SendEffect
  <2>2. box'[u] = Append(box[u], Len(messages) + 1)
    BY <2>1 DEF GetsMessage
  <2>. QED  BY <1>0, <1>2, <2>2
<1>. QED  BY <1>1, <1>2

\* The messages of a dialog after sendMessage.
LEMMA SendIds ==
  ASSUME ServerTyped, Filed, NEW s \in Sessions, NEW to \in Users, SendMessage(s, to),
         NEW u \in Users, NEW p \in Users
  PROVE  /\ DialogIds(u, p)' =
              IF u \in {Owner[s], to} /\ p = PeerOf(u, Owner[s], to)
              THEN DialogIds(u, p) \cup {Len(box[u]) + 1} ELSE DialogIds(u, p)
         /\ Incoming(u, p)' =
              IF u \in {Owner[s], to} /\ p = PeerOf(u, Owner[s], to) /\ u # Owner[s]
              THEN Incoming(u, p) \cup {Len(box[u]) + 1} ELSE Incoming(u, p)
<1>. DEFINE from == Owner[s]  g == Len(messages) + 1
<1>0. PICK n : n = Len(box[u]) + 1
  OBVIOUS
<1>1. ASSUME NEW id \in DOMAIN box[u]
      PROVE  /\ id \in DOMAIN box'[u]
             /\ messages'[box'[u][id]] = messages[box[u][id]]
             /\ DialogPeer(u, box[u][id])' = DialogPeer(u, box[u][id])
  <2>1. id \in DOMAIN box'[u] /\ box'[u][id] = box[u][id]
    BY SendBox
  <2>2. box[u][id] \in DOMAIN messages
    BY DEF Filed
  <2>3. messages'[box[u][id]] = messages[box[u][id]]
    BY <2>2, SentMessage
  <2>. QED  BY <2>1, <2>3 DEF DialogPeer
<1>2. ASSUME u \in {from, to}
      PROVE  /\ DialogPeer(u, box[u][n])' = PeerOf(u, from, to)
             /\ messages'[box'[u][n]].from = from
             /\ DOMAIN box'[u] = DOMAIN box[u] \cup {n}
  <2>1. box'[u][n] = g /\ DOMAIN box'[u] = 1..n /\ DOMAIN box[u] = 1..Len(box[u])
    BY <1>0, <1>2, SendBox
  <2>2. messages'[g].from = from /\ messages'[g].to = to
    BY SentMessage
  <2>3. DialogPeer(u, box[u][n])' = PeerOf(u, from, to)
    BY <1>2, <2>1, <2>2 DEF DialogPeer, PeerOf
  <2>4. 1..n = (1..Len(box[u])) \cup {n}
    BY <1>0 DEF ServerTyped
  <2>. QED  BY <2>1, <2>2, <2>3, <2>4
<1>3. u \notin {from, to} => DOMAIN box'[u] = DOMAIN box[u]
  BY SendBox
<1>4. DialogIds(u, p)' = IF u \in {from, to} /\ p = PeerOf(u, from, to)
                         THEN DialogIds(u, p) \cup {n} ELSE DialogIds(u, p)
  <2>. HIDE DEF from
  <2>1. CASE u \in {from, to}
    BY <1>1, <1>2, <2>1 DEF DialogIds
  <2>2. CASE u \notin {from, to}
    BY <1>1, <1>3, <2>2 DEF DialogIds
  <2>. QED  BY <2>1, <2>2
<1>5. \A id \in DialogIds(u, p) :
        messages'[box'[u][id]].from = messages[box[u][id]].from
  BY <1>1 DEF DialogIds
<1>6. Incoming(u, p)' = {id \in DialogIds(u, p)' : messages'[box'[u][id]].from # u}
  BY DEF Incoming
<1>7. CASE u \in {from, to} /\ p = PeerOf(u, from, to)
  <2>1. DialogIds(u, p)' = DialogIds(u, p) \cup {n}
    BY <1>4, <1>7
  <2>2. messages'[box'[u][n]].from = from
    BY <1>2, <1>7
  <2>. HIDE DEF from
  <2>3. Incoming(u, p)' = IF u # from THEN Incoming(u, p) \cup {n} ELSE Incoming(u, p)
    BY <1>5, <1>6, <2>1, <2>2 DEF Incoming
  <2>. QED  BY <1>0, <1>4, <1>7, <2>3 DEF from
<1>8. CASE ~(u \in {from, to} /\ p = PeerOf(u, from, to))
  <2>1. DialogIds(u, p)' = DialogIds(u, p)
    BY <1>4, <1>8
  <2>2. Incoming(u, p)' = Incoming(u, p)
    BY <1>5, <1>6, <2>1 DEF Incoming
  <2>. QED  BY <1>0, <1>4, <1>8, <2>2
<1>. QED  BY <1>7, <1>8

\* The new message gets the last place of its two post boxes.
LEMMA SendFiled ==
  ASSUME ServerTyped, Filed, NEW s \in Sessions, NEW to \in Users, SendMessage(s, to)
  PROVE  Filed'
<1>. DEFINE from == Owner[s]  g == Len(messages) + 1
<1>0. from \in Users /\ messages \in Seq(Message) /\ messages' \in Seq(Message)
  BY MessagingAssumption, SentMessage DEF ServerTyped
<1>1. /\ DOMAIN messages = 1..Len(messages) /\ Len(messages) \in Nat
      /\ DOMAIN messages' = 1..g
  BY <1>0, SentMessage
<1>2. ASSUME NEW u \in Users, NEW id \in DOMAIN box'[u]
      PROVE  \/ u \in {from, to} /\ id = Len(box[u]) + 1 /\ box'[u][id] = g
             \/ /\ id \in DOMAIN box[u] /\ box'[u][id] = box[u][id]
                /\ box[u][id] \in 1..Len(messages)
                /\ messages'[box[u][id]] = messages[box[u][id]]
  <2>1. CASE id \in DOMAIN box[u]
    <3>1. box'[u][id] = box[u][id] /\ box[u][id] \in DOMAIN messages
      BY <2>1, SendBox DEF Filed
    <3>. QED  BY <1>1, <2>1, <3>1, SentMessage
  <2>2. CASE id \notin DOMAIN box[u]
    BY <1>2, <2>2, SendBox
  <2>. QED  BY <2>1, <2>2
<1>3. ASSUME NEW u \in Users, NEW id \in DOMAIN box'[u]
      PROVE  /\ box'[u][id] \in DOMAIN messages'
             /\ u \in {messages'[box'[u][id]].from, messages'[box'[u][id]].to}
  <2>1. CASE u \in {from, to} /\ id = Len(box[u]) + 1 /\ box'[u][id] = g
    BY <1>1, <2>1, SentMessage
  <2>2. CASE /\ id \in DOMAIN box[u] /\ box'[u][id] = box[u][id]
             /\ box[u][id] \in 1..Len(messages)
             /\ messages'[box[u][id]] = messages[box[u][id]]
    BY <1>1, <2>2 DEF Filed
  <2>. QED  BY <1>2, <1>3, <2>1, <2>2
<1>4. ASSUME NEW k \in DOMAIN messages', NEW u \in {messages'[k].from, messages'[k].to}
      PROVE  messages'[k].ref[u] \in DOMAIN box'[u] /\ box'[u][messages'[k].ref[u]] = k
  <2>1. CASE k = g
    <3>1. messages'[k].from = from /\ messages'[k].to = to
      BY <2>1, SentMessage
    <3>2. u \in {from, to} /\ u \in Users
      BY <1>0, <3>1
    <3>3. messages'[k].ref[u] = Len(box[u]) + 1
      BY <2>1, <3>2, SentMessage
    <3>. HIDE DEF from, g
    <3>. QED  BY <2>1, <3>2, <3>3, SendBox DEF from, g
  <2>2. CASE k # g
    <3>1. k \in DOMAIN messages
      BY <1>1, <2>2
    <3>2. messages'[k] = messages[k]
      BY <3>1, SentMessage
    <3>3. u \in Users
      <4>1. messages[k] \in Message
        BY <1>0, <3>1
      <4>. QED  BY <3>2, <4>1 DEF Message
    <3>4. messages[k].ref[u] \in DOMAIN box[u] /\ box[u][messages[k].ref[u]] = k
      BY <3>1, <3>2 DEF Filed
    <3>. QED  BY <3>2, <3>3, <3>4, SendBox
  <2>. QED  BY <2>1, <2>2
<1>5. ASSUME NEW u \in Users, NEW i \in DOMAIN box'[u], NEW j \in DOMAIN box'[u], i < j
      PROVE  box'[u][i] < box'[u][j]
  <2>1. DOMAIN box[u] = 1..Len(box[u]) /\ Len(box[u]) \in Nat /\ i \in Nat /\ j \in Nat
    <3>1. DOMAIN box[u] = 1..Len(box[u]) /\ Len(box[u]) \in Nat
      BY SendBox
    <3>2. DOMAIN box'[u] \subseteq 1..(Len(box[u]) + 1)
      <4>1. u \notin {Owner[s], to} => DOMAIN box'[u] = 1..Len(box[u])
        BY <3>1, SendBox, Zenon
      <4>2. u \in {Owner[s], to} => DOMAIN box'[u] = 1..(Len(box[u]) + 1)
        BY SendBox
      <4>3. 1..Len(box[u]) \subseteq 1..(Len(box[u]) + 1)
        BY <3>1
      <4>. QED  BY <4>1, <4>2, <4>3, Zenon
    <3>. QED  BY <3>1, <3>2, <1>5
  <2>2. CASE j \in DOMAIN box[u]
    <3>1. i \in DOMAIN box[u]
      <4>1. i \in 1..(Len(box[u]) + 1)
        BY <2>1, <1>5, SendBox
      <4>. QED  BY <4>1, <2>1, <2>2, <1>5
    <3>2. box'[u][i] = box[u][i] /\ box'[u][j] = box[u][j]
      BY <2>2, <3>1, SendBox
    <3>. QED  BY <2>2, <3>1, <3>2, <1>5 DEF Filed
  <2>3. CASE j \notin DOMAIN box[u]
    <3>1. u \in {from, to} /\ j = Len(box[u]) + 1 /\ box'[u][j] = g
      BY <1>2, <2>3
    <3>2. i \in DOMAIN box[u]
      <4>1. i \in 1..(Len(box[u]) + 1)
        BY <3>1, <1>5, SendBox
      <4>. QED  BY <4>1, <2>1, <3>1, <1>5
    <3>3. box'[u][i] \in 1..Len(messages)
      BY <1>2, <3>2, <2>1
    <3>. QED  BY <1>1, <3>1, <3>3
  <2>. QED  BY <2>2, <2>3
<1>. QED  BY <1>3, <1>4, <1>5 DEF Filed

\* The dialogs after sendMessage.
LEMMA SendDialogs ==
  ASSUME ServerTyped, NEW s \in Sessions, NEW to \in Users, SendMessage(s, to),
         NEW u \in Users, NEW p \in Users
  PROVE  IF u \in {Owner[s], to} /\ p = PeerOf(u, Owner[s], to)
         THEN /\ dialog'[u][p].top = Len(box[u]) + 1
              /\ dialog'[u][p].date = Len(messages) + 1
              /\ dialog'[u][p].readInboxMaxId = dialog[u][p].readInboxMaxId
              /\ dialog'[u][p].readOutboxMaxId = dialog[u][p].readOutboxMaxId
              /\ dialog'[u][p].unread =
                   IF u = Owner[s] THEN dialog[u][p].unread ELSE dialog[u][p].unread + 1
         ELSE dialog'[u][p] = dialog[u][p]
<1>0. /\ dialog[u] \in [Users -> Dialog] /\ Len(messages) + 1 \in Nat
      /\ Len(box[u]) + 1 \in Nat
  BY DEF ServerTyped
<1>1. CASE u \notin {Owner[s], to}
  <2>1. GetsNothing(u)
    BY <1>1, SendEffect
  <2>. QED  BY <1>1, <2>1 DEF GetsNothing
<1>2. CASE u \in {Owner[s], to}
  <2>. DEFINE q == PeerOf(u, Owner[s], to)  isOwn == u = Owner[s]
              new == WithNewMessage(dialog[u][q], Len(box[u]) + 1, Len(messages) + 1, isOwn)
  <2>0. q \in Users
    BY MessagingAssumption DEF PeerOf
  <2>1. GetsMessage(u, q, Len(messages) + 1, isOwn)
    BY <1>2, SendEffect
  <2>2. dialog'[u] = [dialog[u] EXCEPT ![q] = new]
    BY <2>1 DEF GetsMessage
  <2>3. /\ new.top = Len(box[u]) + 1
        /\ new.date = Len(messages) + 1
        /\ new.readInboxMaxId = dialog[u][q].readInboxMaxId
        /\ new.readOutboxMaxId = dialog[u][q].readOutboxMaxId
        /\ new.unread = IF isOwn THEN dialog[u][q].unread ELSE dialog[u][q].unread + 1
    <3>1. dialog[u][q] \in Dialog
      BY <1>0, <2>0
    <3>. HIDE DEF q
    <3>. QED  BY <3>1 DEF WithNewMessage, Dialog
  <2>4. p = q => dialog'[u][p] = new
    BY <1>0, <2>0, <2>2
  <2>5. p # q => dialog'[u][p] = dialog[u][p]
    BY <1>0, <2>0, <2>2
  <2>. QED
    <3>. HIDE DEF new
    <3>. QED  BY <1>2, <2>3, <2>4, <2>5
<1>. QED  BY <1>1, <1>2

\* The new message is the top of its dialogs and is past their read marks.
LEMMA SendTops ==
  ASSUME ServerTyped, Filed, TopsRight,
         NEW s \in Sessions, NEW to \in Users, SendMessage(s, to)
  PROVE  TopsRight'
<1>. SUFFICES ASSUME NEW u \in Users, NEW p \in Users
     PROVE  /\ \A id \in DialogIds(u, p)' : id <= dialog'[u][p].top
            /\ dialog'[u][p].top # 0 =>
                 /\ dialog'[u][p].top \in DialogIds(u, p)'
                 /\ dialog'[u][p].date = box'[u][dialog'[u][p].top]
            /\ dialog'[u][p].readInboxMaxId <= Len(box'[u])
  BY DEF TopsRight
<1>0. /\ dialog[u][p] \in Dialog /\ Len(messages) \in Nat /\ Len(box[u]) \in Nat
      /\ DialogIds(u, p) \subseteq 1..Len(box[u]) /\ DOMAIN box[u] = 1..Len(box[u])
  <2>1. dialog[u][p] \in Dialog /\ box[u] \in Seq(Nat) /\ messages \in Seq(Message)
    BY Zenon DEF ServerTyped
  <2>2. DOMAIN box[u] = 1..Len(box[u]) /\ Len(box[u]) \in Nat /\ Len(messages) \in Nat
    BY <2>1
  <2>3. DialogIds(u, p) \subseteq DOMAIN box[u]
    BY Zenon DEF DialogIds
  <2>. QED  BY <2>1, <2>2, <2>3, Zenon
<1>1. /\ \A id \in DialogIds(u, p) : id <= dialog[u][p].top
      /\ dialog[u][p].top # 0 =>
           /\ dialog[u][p].top \in DialogIds(u, p)
           /\ dialog[u][p].date = box[u][dialog[u][p].top]
      /\ dialog[u][p].readInboxMaxId <= Len(box[u])
  BY DEF TopsRight
<1>2. CASE u \in {Owner[s], to} /\ p = PeerOf(u, Owner[s], to)
  <2>1. DialogIds(u, p)' = DialogIds(u, p) \cup {Len(box[u]) + 1}
    BY <1>2, SendIds
  <2>2. /\ dialog'[u][p].top = Len(box[u]) + 1
        /\ dialog'[u][p].date = Len(messages) + 1
        /\ dialog'[u][p].readInboxMaxId = dialog[u][p].readInboxMaxId
    BY <1>2, SendDialogs
  <2>3. box'[u][Len(box[u]) + 1] = Len(messages) + 1 /\ Len(box'[u]) = Len(box[u]) + 1
    BY <1>2, SendBox
  <2>. QED  BY <1>0, <1>1, <2>1, <2>2, <2>3 DEF Dialog
<1>3. CASE ~(u \in {Owner[s], to} /\ p = PeerOf(u, Owner[s], to))
  <2>1. DialogIds(u, p)' = DialogIds(u, p)
    BY <1>3, SendIds
  <2>2. dialog'[u][p] = dialog[u][p]
    BY <1>3, SendDialogs
  <2>3. \A id \in DialogIds(u, p) : box'[u][id] = box[u][id]
    BY SendBox DEF DialogIds
  <2>4. dialog[u][p].readInboxMaxId <= Len(box'[u])
    <3>1. Len(box'[u]) = Len(box[u]) \/ Len(box'[u]) = Len(box[u]) + 1
      BY SendBox
    <3>. QED  BY <1>0, <1>1, <3>1 DEF Dialog
  <2>. QED  BY <1>1, <2>1, <2>2, <2>3, <2>4
<1>. QED  BY <1>2, <1>3
-----------------------------------------------------------------------------
(***************************************************************************)
(* The unread counters.                                                    *)
(***************************************************************************)
\* The incoming messages past the read mark, of a dialog and of a post box.
UnreadIds(u, p) == {id \in Incoming(u, p) : id > dialog[u][p].readInboxMaxId}

AllUnreadIds(u) ==
  {id \in DOMAIN box[u] :
     /\ messages[box[u][id]].from # u
     /\ id > dialog[u][DialogPeer(u, box[u][id])].readInboxMaxId}

\* UnreadCountsMessages in terms of the two sets of ids.
LEMMA UnreadByIds ==
  UnreadCountsMessages <=>
    \A u \in Users : /\ \A p \in Users : dialog[u][p].unread = Cardinality(UnreadIds(u, p))
                     /\ unread[u] = Cardinality(AllUnreadIds(u))
  BY DEF UnreadCountsMessages, UnreadIds, AllUnreadIds

\* Ids are positions in a post box, and the unread ones of a dialog are the unread
\* ones of the post box with its peer.
LEMMA UnreadFinite ==
  ASSUME ServerTyped, NEW u \in Users, NEW p \in Users
  PROVE  /\ IsFiniteSet(UnreadIds(u, p)) /\ UnreadIds(u, p) \subseteq 1..Len(box[u])
         /\ IsFiniteSet(AllUnreadIds(u)) /\ AllUnreadIds(u) \subseteq 1..Len(box[u])
         /\ UnreadIds(u, p) = {id \in AllUnreadIds(u) : DialogPeer(u, box[u][id]) = p}
<1>1. DOMAIN box[u] = 1..Len(box[u]) /\ Len(box[u]) \in Nat
  BY DEF ServerTyped
<1>2. UnreadIds(u, p) \subseteq 1..Len(box[u]) /\ AllUnreadIds(u) \subseteq 1..Len(box[u])
  BY <1>1 DEF UnreadIds, AllUnreadIds, Incoming, DialogIds
<1>3. IsFiniteSet(1..Len(box[u]))
  BY <1>1, FS_Interval
<1>4. IsFiniteSet(UnreadIds(u, p)) /\ IsFiniteSet(AllUnreadIds(u))
  BY <1>2, <1>3, FS_Subset
<1>5. UnreadIds(u, p) = {id \in AllUnreadIds(u) : DialogPeer(u, box[u][id]) = p}
  BY DEF UnreadIds, AllUnreadIds, Incoming, DialogIds
<1>. QED  BY <1>2, <1>4, <1>5

\* The peer of a message in a post box is a user.
LEMMA PeerTyped ==
  ASSUME ServerTyped, Filed, NEW u \in Users, NEW id \in DOMAIN box[u]
  PROVE  DialogPeer(u, box[u][id]) \in Users
<1>1. messages[box[u][id]] \in Message
  BY DEF ServerTyped, Filed
<1>. QED  BY <1>1 DEF DialogPeer, Message

\* The top message and the read mark of a dialog are ids of the post box, or 0.
LEMMA TopBound ==
  ASSUME ServerTyped, TopsRight, NEW u \in Users, NEW p \in Users
  PROVE  /\ dialog[u][p] \in Dialog /\ Len(box[u]) \in Nat
         /\ dialog[u][p].top <= Len(box[u])
         /\ dialog[u][p].readInboxMaxId <= Len(box[u])
<1>1. dialog[u][p] \in Dialog /\ Len(box[u]) \in Nat /\ DOMAIN box[u] = 1..Len(box[u])
  BY DEF ServerTyped
<1>2. dialog[u][p].top # 0 => dialog[u][p].top \in DOMAIN box[u]
  BY DEF TopsRight, DialogIds
<1>3. dialog[u][p].readInboxMaxId <= Len(box[u])
  BY DEF TopsRight
<1>. QED  BY <1>1, <1>2, <1>3 DEF Dialog

\* sendMessage adds one unread message to the recipient's dialog, and to his box.
LEMMA SendUnread ==
  ASSUME ServerTyped, Filed, TopsRight, UnreadCountsMessages,
         NEW s \in Sessions, NEW to \in Users, SendMessage(s, to)
  PROVE  UnreadCountsMessages'
<1>. DEFINE from == Owner[s]
<1>1. ASSUME NEW u \in Users, NEW p \in Users
      PROVE  dialog'[u][p].unread = Cardinality(UnreadIds(u, p)')
  <2>0. dialog[u][p] \in Dialog /\ Len(box[u]) \in Nat
    BY DEF ServerTyped
  <2>1. dialog[u][p].unread = Cardinality(UnreadIds(u, p))
    BY UnreadByIds
  <2>2. dialog'[u][p].readInboxMaxId = dialog[u][p].readInboxMaxId
    BY SendDialogs
  <2>3. CASE u \in {from, to} /\ p = PeerOf(u, from, to) /\ u # from
    <3>. DEFINE n == Len(box[u]) + 1
    <3>1. Incoming(u, p)' = Incoming(u, p) \cup {n}
      BY <2>3, SendIds
    <3>2. n > dialog[u][p].readInboxMaxId
      BY <2>0, TopBound DEF Dialog
    <3>3. UnreadIds(u, p)' = UnreadIds(u, p) \cup {n}
      BY <2>2, <3>1, <3>2 DEF UnreadIds
    <3>4. n \notin UnreadIds(u, p) /\ IsFiniteSet(UnreadIds(u, p))
      BY <2>0, UnreadFinite
    <3>5. Cardinality(UnreadIds(u, p)') = Cardinality(UnreadIds(u, p)) + 1
      BY <3>3, <3>4, FS_AddElement
    <3>6. dialog'[u][p].unread = dialog[u][p].unread + 1
      BY <2>3, SendDialogs
    <3>. QED  BY <2>1, <3>5, <3>6
  <2>4. CASE ~(u \in {from, to} /\ p = PeerOf(u, from, to) /\ u # from)
    <3>1. Incoming(u, p)' = Incoming(u, p)
      BY <2>4, SendIds
    <3>2. UnreadIds(u, p)' = UnreadIds(u, p)
      BY <2>2, <3>1 DEF UnreadIds
    <3>3. dialog'[u][p].unread = dialog[u][p].unread
      BY <2>4, SendDialogs
    <3>. QED  BY <2>1, <3>2, <3>3
  <2>. QED  BY <2>3, <2>4
<1>2. ASSUME NEW u \in Users
      PROVE  unread'[u] = Cardinality(AllUnreadIds(u)')
  <2>0. PICK n : n = Len(box[u]) + 1
    OBVIOUS
  <2>1. unread[u] = Cardinality(AllUnreadIds(u))
    BY UnreadByIds
  <2>2. ASSUME NEW id \in DOMAIN box[u]
        PROVE  id \in DOMAIN box'[u] /\ (id \in AllUnreadIds(u)' <=> id \in AllUnreadIds(u))
    <3>1. id \in DOMAIN box'[u] /\ box'[u][id] = box[u][id]
      BY SendBox
    <3>2. messages'[box'[u][id]] = messages[box[u][id]]
      BY <3>1, SentMessage DEF Filed
    <3>. DEFINE q == DialogPeer(u, box[u][id])
    <3>3. DialogPeer(u, box[u][id])' = q
      BY <3>2 DEF DialogPeer
    <3>4. dialog'[u][q].readInboxMaxId = dialog[u][q].readInboxMaxId
      BY PeerTyped, SendDialogs
    <3>. HIDE DEF q
    <3>5. dialog'[u][DialogPeer(u, box[u][id])'].readInboxMaxId = dialog[u][q].readInboxMaxId
      BY <3>3, <3>4
    <3>. QED  BY <3>1, <3>2, <3>5 DEF AllUnreadIds, q
  <2>3. CASE u \notin {from, to}
    <3>1. DOMAIN box'[u] = DOMAIN box[u]
      BY <2>3, SendBox
    <3>2. AllUnreadIds(u)' = AllUnreadIds(u)
      BY <2>2, <3>1 DEF AllUnreadIds
    <3>3. unread'[u] = unread[u]
      BY <2>3, SendEffect DEF GetsNothing
    <3>. QED  BY <2>1, <3>2, <3>3
  <2>4. CASE u \in {from, to}
    <3>. DEFINE p == PeerOf(u, from, to)
    <3>0. p \in Users /\ Len(box[u]) \in Nat
      BY MessagingAssumption DEF PeerOf, ServerTyped
    <3>1. DOMAIN box'[u] = 1..n /\ DOMAIN box[u] = 1..Len(box[u])
      BY <2>0, <2>4, SendBox
    <3>2. n \in AllUnreadIds(u)' <=> u # from
      <4>1. n \in Incoming(u, p)' <=> u # from
        <5>1. n \notin Incoming(u, p)
          BY <2>0, <3>0, <3>1 DEF Incoming, DialogIds
        <5>. QED  BY <2>0, <2>4, <3>0, <5>1, SendIds
      <4>2. u # from => n \in UnreadIds(u, p)'
        <5>1. n > dialog'[u][p].readInboxMaxId
          <6>1. dialog'[u][p].readInboxMaxId = dialog[u][p].readInboxMaxId
            BY <3>0, SendDialogs
          <6>2. dialog[u][p] \in Dialog
            BY <3>0 DEF ServerTyped
          <6>3. dialog[u][p].readInboxMaxId <= Len(box[u])
            BY <3>0, TopBound
          <6>. QED  BY <2>0, <3>0, <6>1, <6>2, <6>3 DEF Dialog
        <5>. HIDE DEF p
        <5>. QED  BY <4>1, <5>1 DEF UnreadIds
      <4>3. u # from => n \in AllUnreadIds(u)'
        <5>. HIDE DEF p
        <5>1. ServerTyped'
          BY SendTyped
        <5>. QED  BY <3>0, <4>2 DEF UnreadIds, AllUnreadIds, Incoming, DialogIds
      <4>4. u = from => n \notin AllUnreadIds(u)'
        <5>1. messages'[box'[u][n]].from = from
          BY <2>0, <2>4, SendBox, SentMessage
        <5>. QED  BY <5>1 DEF AllUnreadIds
      <4>. QED  BY <4>3, <4>4
    <3>3. AllUnreadIds(u)' = IF u = from THEN AllUnreadIds(u) ELSE AllUnreadIds(u) \cup {n}
      <4>1. AllUnreadIds(u)' \subseteq 1..n /\ AllUnreadIds(u) \subseteq 1..Len(box[u])
        BY <3>1 DEF AllUnreadIds
      <4>2. 1..n = (1..Len(box[u])) \cup {n}
        BY <2>0, <3>0
      <4>. QED  BY <2>2, <3>1, <3>2, <4>1, <4>2
    <3>4. n \notin AllUnreadIds(u) /\ IsFiniteSet(AllUnreadIds(u))
      BY <2>0, <3>0, UnreadFinite
    <3>5. unread'[u] = IF u = from THEN unread[u] ELSE unread[u] + 1
      BY <2>4, SendEffect DEF GetsMessage
    <3>6. Cardinality(AllUnreadIds(u) \cup {n}) = Cardinality(AllUnreadIds(u)) + 1
      BY <3>4, FS_AddElement
    <3>. QED  BY <2>1, <3>3, <3>5, <3>6
  <2>. QED  BY <2>3, <2>4
<1>3. UnreadCountsMessages' <=>
        \A u \in Users :
          /\ \A p \in Users : dialog'[u][p].unread = Cardinality(UnreadIds(u, p)')
          /\ unread'[u] = Cardinality(AllUnreadIds(u)')
  BY DEF UnreadCountsMessages, UnreadIds, AllUnreadIds
<1>. QED  BY <1>1, <1>2, <1>3
-----------------------------------------------------------------------------
(***************************************************************************)
(* What the sessions learn from sendMessage.                               *)
(***************************************************************************)
LEMMA SendViewsOther ==
  ASSUME NEW s \in Sessions, NEW to \in Users, SendMessage(s, to), NEW t \in Sessions,
         t \notin active \/ Owner[t] \notin {Owner[s], to}
  PROVE  view'[t] = view[t]
  BY DEF SendMessage, QueueNewMessage

\* Session t learns of the message to its user in the dialog with p.
Hears(t, p) ==
  /\ view'[t].since = view[t].since
  /\ view'[t].new = view[t].new \o <<Len(box[Owner[t]]) + 1>>
  /\ view'[t].pts = pts[Owner[t]] + 1
  /\ view'[t].maxPts = Larger(view[t].maxPts, pts[Owner[t]] + 1)
  /\ view'[t].known = view[t].known \cup {p}
  /\ view'[t].outbox = view[t].outbox /\ view'[t].maxOutbox = view[t].maxOutbox
  /\ view'[t] = [since |-> view'[t].since, new |-> view'[t].new, known |-> view'[t].known,
                 pts |-> view'[t].pts, maxPts |-> view'[t].maxPts,
                 outbox |-> view'[t].outbox, maxOutbox |-> view'[t].maxOutbox]

\* The larger of two numbers.
LEMMA LargerOf ==
  ASSUME NEW a \in Nat, NEW b \in Nat
  PROVE  /\ Larger(a, b) \in Nat
         /\ a <= b => Larger(a, b) = b
         /\ b <= a => Larger(a, b) = a
  BY DEF Larger

\* A connected session of the two users hears of the message.
LEMMA SendViews ==
  ASSUME SessionsTyped, NEW s \in Sessions, NEW to \in Users, SendMessage(s, to),
         NEW t \in Sessions, t \in active, Owner[t] \in {Owner[s], to}
  PROVE  Hears(t, PeerOf(Owner[t], Owner[s], to))
<1>. DEFINE u == Owner[t]  n == pts[u] + 1
<1>0. view[t] \in View
  BY DEF SessionsTyped
<1>1. view'[t] = [view[t] EXCEPT !.new = @ \o <<Len(box[u]) + 1>>, !.pts = n,
                                 !.maxPts = Larger(view[t].maxPts, n),
                                 !.known = @ \cup {PeerOf(u, Owner[s], to)}]
  BY DEF SendMessage, QueueNewMessage, NewMessageTold, PeerOf
<1>. QED  BY <1>0, <1>1 DEF View, Hears

\* sendMessage keeps the types of the sessions.
LEMMA SendSessionsTyped ==
  ASSUME ServerTyped, SessionsTyped,
         NEW s \in Sessions, NEW to \in Users, SendMessage(s, to)
  PROVE  SessionsTyped'
<1>1. ASSUME NEW t \in Sessions
      PROVE  view'[t] \in View
  <2>. DEFINE u == Owner[t]
  <2>0. /\ view[t] \in View /\ u \in Users /\ Owner[s] \in Users
        /\ Len(box[u]) + 1 \in Nat /\ pts[u] + 1 \in Nat
    BY MessagingAssumption DEF SessionsTyped, ServerTyped
  <2>1. CASE t \in active /\ u \in {Owner[s], to}
    <3>0. Hears(t, PeerOf(u, Owner[s], to))
      BY <2>1, SendViews
    <3>1. PeerOf(u, Owner[s], to) \in Users
      BY <2>0 DEF PeerOf
    <3>2. view'[t].since \in Nat /\ view'[t].pts \in Nat /\ view'[t].maxPts \in Nat
      BY <2>0, <3>0, LargerOf DEF View, Hears
    <3>3. view'[t].new \in Seq(Nat)
      <4>1. view'[t].new = view[t].new \o <<Len(box[u]) + 1>>
        BY <3>0 DEF Hears
      <4>2. view[t].new \in Seq(Nat) /\ <<Len(box[u]) + 1>> \in Seq(Nat)
        BY <2>0 DEF View
      <4>. QED  BY <4>1, <4>2, ConcatProperties
    <3>4. /\ view'[t].known \in SUBSET Users /\ view'[t].outbox \in [Users -> Nat]
          /\ view'[t].maxOutbox \in [Users -> Nat]
      <4>1. /\ view'[t].known = view[t].known \cup {PeerOf(u, Owner[s], to)}
            /\ view'[t].outbox = view[t].outbox /\ view'[t].maxOutbox = view[t].maxOutbox
        BY <3>0 DEF Hears
      <4>. QED  BY <2>0, <3>1, <4>1 DEF View
    <3>5. view'[t] = [since |-> view'[t].since, new |-> view'[t].new,
                      known |-> view'[t].known, pts |-> view'[t].pts,
                      maxPts |-> view'[t].maxPts, outbox |-> view'[t].outbox,
                      maxOutbox |-> view'[t].maxOutbox]
      BY <3>0 DEF Hears
    <3>. QED  BY <3>2, <3>3, <3>4, <3>5 DEF View
  <2>2. CASE ~(t \in active /\ u \in {Owner[s], to})
    <3>1. view'[t] = view[t]
      BY <2>2, SendViewsOther
    <3>. QED  BY <2>0, <3>1
  <2>. QED  BY <2>1, <2>2
<1>2. view' = [t \in Sessions |-> view'[t]]
  BY DEF SendMessage, QueueNewMessage
<1>3. view' \in [Sessions -> View]
  BY <1>1, <1>2, Zenon
<1>4. active' = active /\ paging' = paging
  BY DEF SendMessage
<1>. QED  BY <1>3, <1>4 DEF SessionsTyped

\* What a session is told goes on to be the post box since it connected.
LEMMA SendTold ==
  ASSUME ServerTyped, SessionsTyped, SinceRight, EveryMessageToldOnce,
         NEW s \in Sessions, NEW to \in Users, SendMessage(s, to)
  PROVE  SinceRight' /\ EveryMessageToldOnce'
<1>0. active' = active /\ active \in SUBSET Sessions
  BY DEF SendMessage, SessionsTyped
<1>1. ASSUME NEW t \in active
      PROVE  /\ view'[t].since <= Len(box'[Owner[t]])
             /\ view'[t].new = [i \in 1..(Len(box'[Owner[t]]) - view'[t].since) |->
                                  view'[t].since + i]
  <2>. DEFINE u == Owner[t]  old == view[t].new
  <2>0. /\ view[t] \in View /\ u \in Users /\ Owner[s] \in Users /\ t \in Sessions
        /\ Len(box[u]) \in Nat
    BY <1>0, MessagingAssumption DEF SessionsTyped, ServerTyped
  <2>1. /\ view[t].since <= Len(box[u])
        /\ old = [i \in 1..(Len(box[u]) - view[t].since) |-> view[t].since + i]
    BY DEF SinceRight, EveryMessageToldOnce
  <2>2. CASE u \notin {Owner[s], to}
    <3>1. view'[t] = view[t]
      BY <2>0, <2>2, SendViewsOther
    <3>2. box'[u] = box[u]
      BY <2>0, <2>2, SendBox
    <3>. QED  BY <2>1, <3>1, <3>2
  <2>3. CASE u \in {Owner[s], to}
    <3>1. Len(box'[u]) = Len(box[u]) + 1
      BY <2>0, <2>3, SendBox
    <3>2. view'[t].since = view[t].since /\ view'[t].new = old \o <<Len(box[u]) + 1>>
      <4>1. Hears(t, PeerOf(u, Owner[s], to))
        BY <2>0, <2>3, SendViews
      <4>. QED  BY <4>1 DEF Hears
    <3>3. PICK a, n : a = view[t].since /\ n = Len(box[u])
      OBVIOUS
    <3>4. a \in Nat /\ n \in Nat /\ a <= n
      BY <2>0, <2>1, <3>3 DEF View
    <3>5. old \in Seq(Nat) /\ Len(old) = n - a /\ \A i \in 1..(n - a) : old[i] = a + i
      <4>1. old \in Seq(Nat)
        BY <2>0 DEF View
      <4>2. DOMAIN old = 1..(n - a)
        BY <2>1, <3>3
      <4>3. Len(old) = n - a
        <5>1. Len(old) \in Nat /\ n - a \in Nat /\ 1..Len(old) = 1..(n - a)
          BY <3>4, <4>1, <4>2, LenProperties
        <5>2. \A k \in Nat : k \in 1..Len(old) <=> k \in 1..(n - a)
          BY <5>1
        <5>. HIDE DEF old
        <5>. QED  BY <3>4, <5>1, <5>2
      <4>. QED  BY <2>1, <3>3, <4>1, <4>3
    <3>6. view'[t].new = [i \in 1..(n + 1 - a) |-> a + i]
      <4>. HIDE DEF old
      <4>1. old \o <<n + 1>> = [i \in 1..(n + 1 - a) |-> a + i]
        BY <3>4, <3>5
      <4>. QED  BY <3>2, <3>3, <4>1
    <3>7. view'[t].since = a /\ Len(box'[u]) = n + 1
      BY <3>1, <3>2, <3>3
    <3>. QED  BY <3>4, <3>6, <3>7
  <2>. QED  BY <2>2, <2>3
<1>. QED  BY <1>0, <1>1 DEF SinceRight, EveryMessageToldOnce

\* What session t was told is the state of its user, but for the repeated reads.
KnowsState(t) ==
  /\ view[t].maxPts = pts[Owner[t]]
  /\ \/ view[t].pts = pts[Owner[t]]
     \/ view[t].pts = 0 /\ \E p \in Users : Dc[p] # Dc[Owner[t]]
  /\ \A p \in Users :
       /\ view[t].maxOutbox[p] = dialog[Owner[t]][p].readOutboxMaxId
       /\ \/ view[t].outbox[p] = dialog[Owner[t]][p].readOutboxMaxId
          \/ /\ view[t].outbox[p] < dialog[Owner[t]][p].readOutboxMaxId
             /\ Dc[p] # Dc[Owner[t]]

\* SessionsUpToDate, session by session.
LEMMA AllKnow == SessionsUpToDate <=> \A t \in active : KnowsState(t)
  BY DEF SessionsUpToDate, KnowsState

\* The sessions that hear of the message have the new pts.
LEMMA SendUpToDate ==
  ASSUME ServerTyped, SessionsTyped, SessionsUpToDate,
         NEW s \in Sessions, NEW to \in Users, SendMessage(s, to)
  PROVE  SessionsUpToDate'
<1>0. active' = active /\ active \in SUBSET Sessions
  BY DEF SendMessage, SessionsTyped
<1>1. ASSUME NEW t \in active
      PROVE  KnowsState(t)'
  <2>. DEFINE u == Owner[t]
  <2>0. u \in Users /\ t \in Sessions /\ pts[u] \in Nat
    BY <1>0, MessagingAssumption DEF ServerTyped
  <2>1. KnowsState(t)
    BY AllKnow
  <2>2. \A p \in Users : dialog'[u][p].readOutboxMaxId = dialog[u][p].readOutboxMaxId
    BY <2>0, SendDialogs
  <2>3. CASE u \in {Owner[s], to}
    <3>1. Hears(t, PeerOf(u, Owner[s], to))
      BY <2>0, <2>3, SendViews
    <3>2. pts'[u] = pts[u] + 1
      BY <2>0, <2>3, SendEffect DEF GetsMessage
    <3>3. view'[t].maxPts = pts'[u]
      BY <2>0, <2>1, <3>1, <3>2, LargerOf DEF Hears, KnowsState
    <3>. QED  BY <2>1, <2>2, <3>1, <3>2, <3>3 DEF Hears, KnowsState
  <2>4. CASE u \notin {Owner[s], to}
    <3>1. view'[t] = view[t]
      BY <2>0, <2>4, SendViewsOther
    <3>2. pts'[u] = pts[u]
      BY <2>0, <2>4, SendEffect DEF GetsNothing
    <3>. QED  BY <2>1, <2>2, <3>1, <3>2 DEF KnowsState
  <2>. QED  BY <2>3, <2>4
<1>2. SessionsUpToDate' <=> \A t \in active' : KnowsState(t)'
  BY DEF SessionsUpToDate, KnowsState
<1>. QED  BY <1>0, <1>1, <1>2

\* The ids of a message are positive and its users are users.
LEMMA MessageTyped ==
  ASSUME ServerTyped, Filed, NEW g \in DOMAIN messages
  PROVE  /\ messages[g].from \in Users /\ messages[g].to \in Users
         /\ messages[g].ref[messages[g].from] \in 1..Len(box[messages[g].from])
         /\ messages[g].ref[messages[g].to] \in 1..Len(box[messages[g].to])
<1>1. messages[g] \in Message
  BY DEF ServerTyped
<1>2. messages[g].from \in Users /\ messages[g].to \in Users
  BY <1>1 DEF Message
<1>3. /\ messages[g].ref[messages[g].from] \in DOMAIN box[messages[g].from]
      /\ messages[g].ref[messages[g].to] \in DOMAIN box[messages[g].to]
  BY DEF Filed
<1>4. \A u \in Users : DOMAIN box[u] = 1..Len(box[u])
  BY DEF ServerTyped
<1>. QED  BY <1>2, <1>3, <1>4

\* A new message is unread, so nothing needs to be reported of it.
LEMMA SendReported ==
  ASSUME ServerTyped, Filed, TopsRight, ReadIsReported,
         NEW s \in Sessions, NEW to \in Users, SendMessage(s, to)
  PROVE  ReadIsReported'
<1>. SUFFICES ASSUME NEW g \in DOMAIN messages', NEW m, m = messages'[g], m.from # m.to,
                     dialog'[m.to][m.from].readInboxMaxId >= m.ref[m.to],
                     dialog'[m.to][m.from].readInboxMaxId \in Incoming(m.to, m.from)'
     PROVE  dialog'[m.from][m.to].readOutboxMaxId >= m.ref[m.from]
  BY DEF ReadIsReported
<1>0. messages \in Seq(Message) /\ messages' \in Seq(Message) /\ Owner[s] \in Users
  BY SentMessage, MessagingAssumption DEF ServerTyped
<1>1. CASE g \in DOMAIN messages
  <2>1. m = messages[g]
    BY <1>1, SentMessage
  <2>2. m.from \in Users /\ m.to \in Users
    BY <1>1, <2>1, MessageTyped
  <2>. DEFINE readTo == dialog[m.to][m.from].readInboxMaxId
  <2>3. /\ dialog'[m.to][m.from].readInboxMaxId = readTo
        /\ dialog'[m.from][m.to].readOutboxMaxId = dialog[m.from][m.to].readOutboxMaxId
    BY <2>2, SendDialogs
  <2>4. readTo # Len(box[m.to]) + 1
    <3>1. dialog[m.to][m.from] \in Dialog /\ Len(box[m.to]) \in Nat /\ readTo <= Len(box[m.to])
      BY <2>2, TopBound
    <3>. QED  BY <3>1 DEF Dialog
  <2>5. readTo \in Incoming(m.to, m.from)
    <3>. HIDE DEF readTo
    <3>. QED  BY <2>2, <2>3, <2>4, SendIds
  <2>. QED  BY <1>1, <2>1, <2>3, <2>5 DEF ReadIsReported
<1>2. CASE g \notin DOMAIN messages
  <2>1. g = Len(messages) + 1
    BY <1>0, <1>2, SentMessage
  <2>2. m.from = Owner[s] /\ m.to = to /\ m.ref[to] = Len(box[to]) + 1
    BY <2>1, SentMessage
  <2>3. dialog'[to][m.from].readInboxMaxId = dialog[to][m.from].readInboxMaxId
    BY <1>0, <2>2, SendDialogs
  <2>4. dialog[to][m.from] \in Dialog /\ dialog[to][m.from].readInboxMaxId <= Len(box[to])
    BY <1>0, <2>2, TopBound
  <2>. QED  BY <2>2, <2>3, <2>4, TopBound DEF Dialog
<1>. QED  BY <1>1, <1>2
-----------------------------------------------------------------------------
(***************************************************************************)
(* The order of the dialogs.                                               *)
(***************************************************************************)
\* All but the element at k are in descending order, and that one is the newest.
AllButOneSorted(seq, k, dialogs) ==
  /\ \A i \in DOMAIN seq : dialogs[seq[i]].date \in Nat
  /\ \A i, j \in DOMAIN seq :
       i < j /\ i # k /\ j # k => dialogs[seq[i]].date > dialogs[seq[j]].date
  /\ \A i \in DOMAIN seq : i # k => dialogs[seq[k]].date > dialogs[seq[i]].date

\* syncDialogsOrder then finds the order with that element in front.
LEMMA SortExists ==
  ASSUME NEW seq \in Seq(Users), NEW dialogs, NEW k \in DOMAIN seq,
         AllButOneSorted(seq, k, dialogs)
  PROVE  \E f \in Bijection(DOMAIN seq, DOMAIN seq) :
           \A i, j \in DOMAIN seq :
             i < j => dialogs[seq[f[i]]].date >= dialogs[seq[f[j]]].date
<1>. DEFINE n == Len(seq)
            f == [i \in DOMAIN seq |-> IF i = 1 THEN k ELSE IF i <= k THEN i - 1 ELSE i]
<1>1. DOMAIN seq = 1..n /\ n \in Nat /\ k \in 1..n
  OBVIOUS
<1>. HIDE DEF n
<1>2. f \in [DOMAIN seq -> DOMAIN seq]
  BY <1>1
<1>3. \A i \in DOMAIN seq : f[i] = IF i = 1 THEN k ELSE IF i <= k THEN i - 1 ELSE i
  OBVIOUS
<1>. HIDE DEF f
<1>4. ASSUME NEW i \in DOMAIN seq, NEW j \in DOMAIN seq, f[i] = f[j]
      PROVE  i = j
  BY <1>1, <1>3, <1>4
<1>5. ASSUME NEW i \in DOMAIN seq
      PROVE  \E j \in DOMAIN seq : f[j] = i
  <2>1. CASE i = k
    BY <1>1, <1>3, <2>1
  <2>2. CASE i < k
    <3>1. i + 1 \in DOMAIN seq /\ f[i + 1] = i
      BY <1>1, <1>3, <2>2
    <3>. QED  BY <3>1
  <2>3. CASE i > k
    BY <1>1, <1>3, <2>3
  <2>. QED  BY <1>1, <2>1, <2>2, <2>3
<1>6. f \in Bijection(DOMAIN seq, DOMAIN seq)
  BY <1>2, <1>4, <1>5 DEF Bijection, Injection, Surjection, IsInjective
<1>7. ASSUME NEW i \in DOMAIN seq, NEW j \in DOMAIN seq, i < j
      PROVE  dialogs[seq[f[i]]].date >= dialogs[seq[f[j]]].date
  <2>1. f[i] \in DOMAIN seq /\ f[j] \in DOMAIN seq
    BY <1>2
  <2>2. f[i] = k \/ (f[i] # k /\ f[j] # k /\ f[i] < f[j])
    BY <1>1, <1>3, <1>7
  <2>3. f[j] # k
    BY <1>1, <1>3, <1>7
  <2>4. dialogs[seq[f[i]]].date \in Nat /\ dialogs[seq[f[j]]].date \in Nat
    BY <2>1, Zenon DEF AllButOneSorted
  <2>5. dialogs[seq[f[i]]].date > dialogs[seq[f[j]]].date
    <3>1. CASE f[i] = k
      <4>1. dialogs[seq[k]].date > dialogs[seq[f[j]]].date
        BY <2>1, <2>3, Zenon DEF AllButOneSorted
      <4>. QED  BY <3>1, <4>1, Zenon
    <3>2. CASE f[i] # k /\ f[j] # k /\ f[i] < f[j]
      BY <2>1, <3>2, Zenon DEF AllButOneSorted
    <3>. QED  BY <2>2, <3>1, <3>2, Zenon
  <2>. QED  BY <2>4, <2>5
<1>. QED  BY <1>6, <1>7

\* syncDialogsOrder returns the same dialogs by descending date.
LEMMA SortResult ==
  ASSUME NEW seq \in Seq(Users), NEW dialogs, NEW k \in DOMAIN seq,
         AllButOneSorted(seq, k, dialogs)
  PROVE  /\ SyncDialogsOrder(seq, dialogs) \in Seq(Users)
         /\ Elems(SyncDialogsOrder(seq, dialogs)) = Elems(seq)
         /\ \A i, j \in DOMAIN SyncDialogsOrder(seq, dialogs) : i < j =>
              dialogs[SyncDialogsOrder(seq, dialogs)[i]].date
                > dialogs[SyncDialogsOrder(seq, dialogs)[j]].date
<1>. DEFINE Sorts(f) == \A i, j \in DOMAIN seq :
                          i < j => dialogs[seq[f[i]]].date >= dialogs[seq[f[j]]].date
            perm == CHOOSE f \in Bijection(DOMAIN seq, DOMAIN seq) : Sorts(f)
            res == SyncDialogsOrder(seq, dialogs)
<1>1. res = [i \in DOMAIN seq |-> seq[perm[i]]]
  BY DEF SyncDialogsOrder
<1>2. \E f \in Bijection(DOMAIN seq, DOMAIN seq) : Sorts(f)
  BY SortExists
<1>3. perm \in Bijection(DOMAIN seq, DOMAIN seq) /\ Sorts(perm)
  <2>. HIDE DEF Sorts
  <2>. QED  BY <1>2
<1>4. \A i, j \in DOMAIN seq :
        i < j => dialogs[seq[perm[i]]].date >= dialogs[seq[perm[j]]].date
  BY <1>3, Zenon
<1>. HIDE DEF perm, Sorts
<1>5. /\ perm \in [DOMAIN seq -> DOMAIN seq]
      /\ \A i, j \in DOMAIN seq : perm[i] = perm[j] => i = j
      /\ \A i \in DOMAIN seq : \E j \in DOMAIN seq : perm[j] = i
  BY <1>3 DEF Bijection, Injection, Surjection, IsInjective
<1>6. DOMAIN seq = 1..Len(seq) /\ Len(seq) \in Nat
  OBVIOUS
<1>7. \A i \in DOMAIN seq : seq[perm[i]] \in Users
  BY <1>5
<1>. HIDE DEF res
<1>8. res \in Seq(Users) /\ DOMAIN res = DOMAIN seq
  <2>1. res \in [1..Len(seq) -> Users]
    BY <1>1, <1>6, <1>7
  <2>. QED  BY <1>1, <1>6, <2>1
<1>9. Elems(res) = Elems(seq)
  <2>1. \A i \in DOMAIN seq : res[i] = seq[perm[i]] /\ perm[i] \in DOMAIN seq
    BY <1>1, <1>5
  <2>2. ASSUME NEW x \in Elems(res)
        PROVE  x \in Elems(seq)
    <3>1. PICK i \in DOMAIN seq : x = res[i]
      BY <1>8, Zenon DEF Elems
    <3>. QED  BY <2>1, <3>1, Zenon DEF Elems
  <2>3. ASSUME NEW x \in Elems(seq)
        PROVE  x \in Elems(res)
    <3>1. PICK j \in DOMAIN seq : x = seq[j]
      BY Zenon DEF Elems
    <3>2. PICK i \in DOMAIN seq : perm[i] = j
      BY <1>5, Zenon
    <3>3. x = res[i] /\ i \in DOMAIN res
      BY <1>8, <2>1, <3>1, <3>2, Zenon
    <3>. QED  BY <3>3, Zenon DEF Elems
  <2>. QED  BY <2>2, <2>3, Zenon
<1>10. ASSUME NEW i \in DOMAIN seq, NEW j \in DOMAIN seq, i # j
       PROVE  dialogs[seq[i]].date # dialogs[seq[j]].date
  <2>1. CASE i < j
    BY <2>1, <1>10, <1>6 DEF AllButOneSorted
  <2>2. CASE j < i
    BY <2>2, <1>10, <1>6 DEF AllButOneSorted
  <2>. QED  BY <1>6, <1>10, <2>1, <2>2
<1>11. ASSUME NEW i \in DOMAIN seq, NEW j \in DOMAIN seq, i < j
       PROVE  dialogs[res[i]].date > dialogs[res[j]].date
  <2>1. perm[i] \in DOMAIN seq /\ perm[j] \in DOMAIN seq /\ perm[i] # perm[j]
    <3>1. i # j
      BY <1>6, <1>11
    <3>. QED  BY <1>5, <3>1
  <2>2. dialogs[seq[perm[i]]].date # dialogs[seq[perm[j]]].date
    BY <1>10, <2>1
  <2>3. dialogs[seq[perm[i]]].date \in Nat /\ dialogs[seq[perm[j]]].date \in Nat
    BY <2>1 DEF AllButOneSorted
  <2>4. dialogs[seq[perm[i]]].date >= dialogs[seq[perm[j]]].date
    BY <1>4, <1>11
  <2>5. res[i] = seq[perm[i]] /\ res[j] = seq[perm[j]]
    BY <1>1
  <2>. QED  BY <2>2, <2>3, <2>4, <2>5
<1>12. \A i, j \in DOMAIN res : i < j => dialogs[res[i]].date > dialogs[res[j]].date
  BY <1>8, <1>11
<1>. QED  BY <1>8, <1>9, <1>12 DEF res

\* Dates are global ids of messages.
LEMMA DateBound ==
  ASSUME ServerTyped, Filed, TopsRight, NEW u \in Users, NEW p \in Users,
         dialog[u][p].top # 0
  PROVE  dialog[u][p].date \in 1..Len(messages)
<1>1. dialog[u][p].top \in DOMAIN box[u] /\ dialog[u][p].date = box[u][dialog[u][p].top]
  BY DEF TopsRight, DialogIds
<1>2. dialog[u][p].date \in DOMAIN messages
  BY <1>1 DEF Filed
<1>. QED  BY <1>2 DEF ServerTyped

\* The dialog lists stay sorted: the dialog of the message goes to the front.
LEMMA SendOrdered ==
  ASSUME ServerTyped, Filed, TopsRight, Ordered,
         NEW s \in Sessions, NEW to \in Users, SendMessage(s, to)
  PROVE  Ordered'
<1>. DEFINE from == Owner[s]
<1>1. ASSUME NEW u \in Users
      PROVE  Sorted(order'[u], dialog'[u])
  <2>0. Sorted(order[u], dialog[u])
    BY DEF Ordered
  <2>1. CASE u \notin {from, to}
    <3>1. order'[u] = order[u] /\ dialog'[u] = dialog[u]
      BY <2>1, SendEffect DEF GetsNothing
    <3>. QED  BY <2>0, <3>1
  <2>2. CASE u \in {from, to}
    <3>. DEFINE p == PeerOf(u, from, to)  list == order[u]  seq == EnsureDialog(u, p)
                new == dialog'[u]  n == Len(list)
    <3>0. p \in Users /\ Len(box[u]) + 1 \in Nat /\ Len(messages) \in Nat
      BY MessagingAssumption DEF PeerOf, ServerTyped
    <3>1. order'[u] = SyncDialogsOrder(seq, new)
      BY <2>2, SendEffect DEF GetsMessage
    <3>2. new[p].top = Len(box[u]) + 1 /\ new[p].date = Len(messages) + 1
      BY <2>2, <3>0, SendDialogs
    <3>3. \A q \in Users : q # p => new[q] = dialog[u][q]
      BY <2>2, <3>0, SendDialogs
    <3>4. /\ list \in Seq(Users) /\ DOMAIN list = 1..n /\ n \in Nat
          /\ \A i, j \in DOMAIN list : i < j => dialog[u][list[i]].date > dialog[u][list[j]].date
          /\ Elems(list) = {q \in Users : dialog[u][q].top # 0}
      BY <2>0 DEF Sorted
    <3>5. \A i \in DOMAIN list : /\ list[i] \in Users
                                 /\ dialog[u][list[i]].date \in 1..Len(messages)
      <4>1. \A i \in DOMAIN list : list[i] \in Users /\ dialog[u][list[i]].top # 0
        BY <3>4 DEF Elems
      <4>. QED  BY <4>1, DateBound
    <3>6. seq = IF p \in Elems(list) THEN list ELSE Append(list, p)
      BY DEF EnsureDialog
    <3>. HIDE DEF p, new, list, seq, n
    <3>7. CASE p \in Elems(list)
      <4>1. PICK k \in DOMAIN list : list[k] = p
        BY <3>7 DEF Elems
      <4>2. \A i \in DOMAIN list : i # k => list[i] # p
        <5>1. \A i \in DOMAIN list : i < k \/ k < i \/ i = k
          BY <3>4
        <5>2. \A q \in DOMAIN list : dialog[u][list[q]].date \in Nat
          BY <3>0, <3>5
        <5>. QED  BY <3>4, <4>1, <5>1, <5>2
      <4>3. \A i \in DOMAIN list : i # k => new[list[i]] = dialog[u][list[i]]
        BY <3>3, <3>5, <4>2
      <4>4. AllButOneSorted(list, k, new)
        <5>1. new[list[k]].date = Len(messages) + 1
          BY <3>2, <4>1
        <5>2. \A i \in DOMAIN list : i # k => new[list[i]].date \in 1..Len(messages)
          BY <3>5, <4>3
        <5>3. \A i \in DOMAIN list : new[list[i]].date \in Nat
          BY <3>0, <5>1, <5>2
        <5>4. \A i \in DOMAIN list : i # k => new[list[k]].date > new[list[i]].date
          BY <3>0, <5>1, <5>2
        <5>5. \A i, j \in DOMAIN list :
                i < j /\ i # k /\ j # k => new[list[i]].date > new[list[j]].date
          BY <3>4, <4>3
        <5>. QED  BY <5>3, <5>4, <5>5 DEF AllButOneSorted
      <4>5. Elems(list) = {q \in Users : new[q].top # 0}
        <5>1. new[p].top # 0 /\ dialog[u][p].top # 0
          BY <3>0, <3>2, <3>4, <3>7
        <5>. QED  BY <3>3, <3>4, <5>1
      <4>6. seq = list
        BY <3>6, <3>7
      <4>. DEFINE res == SyncDialogsOrder(list, new)
      <4>7. /\ res \in Seq(Users) /\ Elems(res) = Elems(list)
            /\ \A i, j \in DOMAIN res : i < j => new[res[i]].date > new[res[j]].date
        BY <3>4, <4>4, SortResult
      <4>. HIDE DEF res
      <4>8. Sorted(res, new)
        BY <4>5, <4>7 DEF Sorted
      <4>. QED  BY <3>1, <4>6, <4>8 DEF res, new
    <3>8. CASE p \notin Elems(list)
      <4>. DEFINE k == n + 1
      <4>0. seq = Append(list, p)
        BY <3>6, <3>8
      <4>1. /\ seq \in Seq(Users) /\ DOMAIN seq = 1..k /\ seq[k] = p
            /\ \A i \in 1..n : seq[i] = list[i]
        BY <3>0, <3>4, <4>0 DEF n
      <4>2. \A i \in 1..n : list[i] # p
        BY <3>4, <3>8 DEF Elems
      <4>3. \A i \in 1..n : new[seq[i]] = dialog[u][list[i]]
        BY <3>3, <3>4, <3>5, <4>1, <4>2
      <4>4. AllButOneSorted(seq, k, new)
        <5>0. \A i \in DOMAIN seq : i # k => i \in 1..n
          BY <3>4, <4>1
        <5>1. new[seq[k]].date = Len(messages) + 1
          BY <3>2, <4>1
        <5>2. \A i \in 1..n : new[seq[i]].date \in 1..Len(messages)
          BY <3>4, <3>5, <4>3
        <5>3. \A i \in DOMAIN seq : new[seq[i]].date \in Nat
          BY <3>0, <5>0, <5>1, <5>2
        <5>4. \A i \in DOMAIN seq : i # k => new[seq[k]].date > new[seq[i]].date
          BY <3>0, <5>0, <5>1, <5>2
        <5>5. \A i, j \in DOMAIN seq :
                i < j /\ i # k /\ j # k => new[seq[i]].date > new[seq[j]].date
          BY <3>4, <4>3, <5>0
        <5>. QED  BY <5>3, <5>4, <5>5 DEF AllButOneSorted
      <4>5. Elems(seq) = {q \in Users : new[q].top # 0}
        <5>1. Elems(seq) = Elems(list) \cup {p}
          BY <3>4, <4>1 DEF Elems
        <5>2. new[p].top # 0
          BY <3>0, <3>2
        <5>. QED  BY <3>0, <3>3, <3>4, <5>1, <5>2
      <4>6. k \in DOMAIN seq
        BY <3>4, <4>1
      <4>. DEFINE res == SyncDialogsOrder(seq, new)
      <4>7. /\ res \in Seq(Users) /\ Elems(res) = Elems(seq)
            /\ \A i, j \in DOMAIN res : i < j => new[res[i]].date > new[res[j]].date
        BY <4>1, <4>4, <4>6, SortResult
      <4>. HIDE DEF res
      <4>8. Sorted(res, new)
        BY <4>5, <4>7 DEF Sorted
      <4>. QED  BY <3>1, <4>8 DEF res, new
    <3>. QED  BY <3>7, <3>8
  <2>. QED  BY <2>1, <2>2
<1>2. order' = [u \in Users |-> order'[u]]
  BY SendShape
<1>3. \A u \in Users : order'[u] \in Seq(Users)
  BY <1>1 DEF Sorted
<1>4. order' \in [Users -> Seq(Users)]
  BY <1>2, <1>3, Zenon
<1>. QED  BY <1>1, <1>4 DEF Ordered

\* A dialog moves in front of the offset of a page only with a message, of which an
\* active session knows; and when it is the offset's own, its top is a new one.
LEMMA SendPages ==
  ASSUME ServerTyped, SessionsTyped, Filed, TopsRight, PagesRight,
         NEW s \in Sessions, NEW to \in Users, SendMessage(s, to)
  PROVE  PagesRight'
<1>0. active' = active /\ paging' = paging
  BY DEF SendMessage
<1>. SUFFICES ASSUME NEW t \in Sessions, paging[t].state \in {"more", "undefined"}
     PROVE  LET u == Owner[t]  off == paging[t].offset IN
       /\ t \in active /\ off \in Users /\ off \in view'[t].known
       /\ dialog'[u][off].top # 0 /\ paging[t].top # 0
       /\ paging[t].top <= dialog'[u][off].top
       /\ paging[t].state = "more" /\ paging[t].top = dialog'[u][off].top =>
            \A p \in Users : dialog'[u][p].top # 0 /\ dialog'[u][p].date > dialog'[u][off].date
                               => p \in view'[t].known
       /\ paging[t].state = "undefined" => paging[t].top < dialog'[u][off].top
  BY <1>0 DEF PagesRight
<1>. DEFINE u == Owner[t]  off == paging[t].offset
<1>1. /\ t \in active /\ off \in Users /\ off \in view[t].known
      /\ dialog[u][off].top # 0 /\ paging[t].top # 0
      /\ paging[t].top <= dialog[u][off].top
      /\ paging[t].state = "more" /\ paging[t].top = dialog[u][off].top =>
           \A p \in Users : dialog[u][p].top # 0 /\ dialog[u][p].date > dialog[u][off].date
                              => p \in view[t].known
      /\ paging[t].state = "undefined" => paging[t].top < dialog[u][off].top
  BY DEF PagesRight
<1>2. /\ u \in Users /\ paging[t] \in Paging /\ dialog[u][off] \in Dialog
      /\ dialog[u][off].top <= Len(box[u]) /\ Len(box[u]) \in Nat /\ Len(messages) \in Nat
  BY <1>1, MessagingAssumption, TopBound DEF SessionsTyped, ServerTyped
<1>3. paging[t].top \in Nat
  BY <1>2 DEF Paging
<1>. HIDE DEF u, off
<1>4. CASE u \notin {Owner[s], to}
  <2>1. view'[t] = view[t]
    BY <1>4, SendViewsOther DEF u
  <2>2. \A p \in Users : dialog'[u][p] = dialog[u][p]
    BY <1>2, <1>4, SendDialogs
  <2>. QED  BY <1>1, <2>1, <2>2 DEF u, off
<1>5. CASE u \in {Owner[s], to}
  <2>. DEFINE q == PeerOf(u, Owner[s], to)
  <2>0. q \in Users
    BY MessagingAssumption DEF PeerOf
  <2>1. view'[t].known = view[t].known \cup {q}
    <3>1. Hears(t, q)
      BY <1>1, <1>5, SendViews DEF u
    <3>. QED  BY <3>1 DEF Hears
  <2>2. dialog'[u][q].top = Len(box[u]) + 1 /\ dialog'[u][q].date = Len(messages) + 1
    BY <1>2, <1>5, <2>0, SendDialogs
  <2>3. \A p \in Users : p # q => dialog'[u][p] = dialog[u][p]
    BY <1>2, <1>5, SendDialogs
  <2>. HIDE DEF q
  <2>4. CASE off = q
    <3>1. dialog'[u][off].top = Len(box[u]) + 1
      BY <2>2, <2>4
    <3>2. paging[t].top < Len(box[u]) + 1
      BY <1>1, <1>2, <1>3 DEF Dialog
    <3>3. off \in view'[t].known
      BY <1>1, <2>1
    <3>. QED  BY <1>1, <1>2, <1>3, <3>1, <3>2, <3>3 DEF u, off
  <2>5. CASE off # q
    <3>1. dialog'[u][off] = dialog[u][off]
      BY <1>1, <2>3, <2>5
    <3>2. off \in view'[t].known
      BY <1>1, <2>1
    <3>3. paging[t].state = "more" /\ paging[t].top = dialog'[u][off].top =>
            \A p \in Users : dialog'[u][p].top # 0 /\ dialog'[u][p].date > dialog'[u][off].date
                               => p \in view'[t].known
      BY <1>1, <2>1, <2>3, <3>1
    <3>. QED  BY <1>1, <3>1, <3>2, <3>3 DEF u, off
  <2>. QED  BY <2>4, <2>5
<1>. QED  BY <1>4, <1>5
-----------------------------------------------------------------------------
(***************************************************************************)
(* What readHistory does to the dialogs and the sessions.                  *)
(***************************************************************************)
\* The message the user of a session has at an id.
ReadMessage(s, maxId) == messages[box[Owner[s]][maxId]]

\* A message of a post box is where it says it is.
LEMMA RefRight ==
  ASSUME ServerTyped, Filed, NEW u \in Users, NEW id \in DOMAIN box[u]
  PROVE  messages[box[u][id]].ref[u] = id
<1>. DEFINE g == box[u][id]  r == messages[g].ref[u]
<1>1. g \in DOMAIN messages /\ u \in {messages[g].from, messages[g].to}
  BY DEF Filed
<1>2. r \in DOMAIN box[u] /\ box[u][r] = g
  BY <1>1 DEF Filed
<1>3. DOMAIN box[u] = 1..Len(box[u]) /\ Len(box[u]) \in Nat /\ box[u] \in Seq(Nat)
  BY DEF ServerTyped
<1>4. \A i, j \in DOMAIN box[u] : i < j => box[u][i] < box[u][j]
  BY DEF Filed
<1>5. g \in Nat
  BY <1>3
<1>. HIDE DEF r
<1>6. ~(r < id) /\ ~(id < r)
  BY <1>2, <1>4, <1>5
<1>. QED  BY <1>2, <1>3, <1>6 DEF r

\* The message readHistory reports is one from or to the reader.
LEMMA ReadMessageRight ==
  ASSUME ServerTyped, Filed, NEW s \in Sessions, NEW maxId \in DOMAIN box[Owner[s]]
  PROVE  /\ maxId \in Nat /\ box[Owner[s]][maxId] \in DOMAIN messages
         /\ ReadMessage(s, maxId).from \in Users /\ ReadMessage(s, maxId).to \in Users
         /\ Owner[s] \in {ReadMessage(s, maxId).from, ReadMessage(s, maxId).to}
         /\ ReadMessage(s, maxId).ref[Owner[s]] = maxId
         /\ ReadMessage(s, maxId).ref[ReadMessage(s, maxId).from] \in Nat
<1>. DEFINE u == Owner[s]  g == box[u][maxId]
<1>0. u \in Users
  BY MessagingAssumption
<1>1. g \in DOMAIN messages /\ u \in {messages[g].from, messages[g].to}
  BY <1>0, Zenon DEF Filed
<1>2. maxId \in Nat
  <2>1. DOMAIN box[u] = 1..Len(box[u])
    BY <1>0 DEF ServerTyped
  <2>. QED  BY <2>1
<1>3. messages[g].from \in Users /\ messages[g].to \in Users
  BY <1>1, MessageTyped, Zenon
<1>4. messages[g].ref[u] = maxId
  BY <1>0, RefRight
<1>5. messages[g].ref[messages[g].from] \in Nat
  <2>1. PICK v \in Users : v = messages[g].from
    BY <1>3, Zenon
  <2>2. messages[g].ref[v] \in DOMAIN box[v]
    BY <1>1, <2>1, Zenon DEF Filed
  <2>3. DOMAIN box[v] = 1..Len(box[v])
    BY DEF ServerTyped
  <2>. HIDE DEF g
  <2>4. messages[g].ref[v] \in Nat
    BY <2>2, <2>3
  <2>. QED  BY <2>1, <2>4
<1>. QED  BY <1>1, <1>2, <1>3, <1>4, <1>5, Zenon DEF ReadMessage

\* The read mark of message m is news for the dialog of v with q.
MarksOutbox(v, q, m) ==
  v = m.from /\ q = m.to /\ dialog[v][q].readOutboxMaxId < m.ref[m.from]

\* The dialog of v with q after user u has read the one with p, up to maxId, where the
\* message m is.
DialogAfterRead(v, q, u, p, maxId, m) ==
  /\ dialog'[v][q] \in Dialog
  /\ dialog'[v][q].top = dialog[v][q].top
  /\ dialog'[v][q].date = dialog[v][q].date
  /\ dialog'[v][q].readInboxMaxId =
       IF v = u /\ q = p THEN maxId ELSE dialog[v][q].readInboxMaxId
  /\ dialog'[v][q].unread =
       IF v = u /\ q = p
       THEN Minus(dialog[v][q].unread, Cardinality(AffectedMessages(u, p, maxId)))
       ELSE dialog[v][q].unread
  /\ dialog'[v][q].readOutboxMaxId =
       IF MarksOutbox(v, q, m) THEN m.ref[m.from] ELSE dialog[v][q].readOutboxMaxId

\* The incoming messages of a dialog that readHistory counts are the unread ones.
LEMMA AffectedUnread ==
  ASSUME ServerTyped, TopsRight, NEW u \in Users, NEW p \in Users, NEW maxId \in Nat,
         dialog[u][p].top <= maxId
  PROVE  AffectedMessages(u, p, maxId) = UnreadIds(u, p)
<1>1. \A id \in Incoming(u, p) : id <= dialog[u][p].top
  BY DEF TopsRight, Incoming
<1>2. dialog[u][p].top \in Nat
  BY TopBound DEF Dialog
<1>3. Incoming(u, p) \subseteq Nat
  <2>1. DOMAIN box[u] = 1..Len(box[u])
    BY DEF ServerTyped
  <2>. QED  BY <2>1 DEF Incoming, DialogIds
<1>4. \A id \in Incoming(u, p) : id <= maxId
  BY <1>1, <1>2, <1>3
<1>. QED  BY <1>4 DEF AffectedMessages, UnreadIds

\* A difference of counters is a natural number.
LEMMA MinusTyped ==
  ASSUME NEW a \in Nat, NEW b \in Nat
  PROVE  Minus(a, b) \in Nat
  BY DEF Minus

\* The dialogs as the reader leaves them, and what changes in them.
ReadInbox(u, p, maxId) ==
  [dialog EXCEPT
     ![u][p].readInboxMaxId = maxId,
     ![u][p].unread = Minus(@, Cardinality(AffectedMessages(u, p, maxId)))]

\* readHistory moves one inbox mark and one counter.
LEMMA ReadInboxDialogs ==
  ASSUME ServerTyped, TopsRight, NEW u \in Users, NEW p \in Users, NEW maxId \in Nat,
         dialog[u][p].top <= maxId
  PROVE  /\ ReadInbox(u, p, maxId) \in [Users -> [Users -> Dialog]]
         /\ \A v, q \in Users :
              /\ ReadInbox(u, p, maxId)[v][q].top = dialog[v][q].top
              /\ ReadInbox(u, p, maxId)[v][q].date = dialog[v][q].date
              /\ ReadInbox(u, p, maxId)[v][q].readOutboxMaxId = dialog[v][q].readOutboxMaxId
              /\ ReadInbox(u, p, maxId)[v][q].readInboxMaxId =
                   IF v = u /\ q = p THEN maxId ELSE dialog[v][q].readInboxMaxId
              /\ ReadInbox(u, p, maxId)[v][q].unread =
                   IF v = u /\ q = p
                   THEN Minus(dialog[v][q].unread,
                              Cardinality(AffectedMessages(u, p, maxId)))
                   ELSE dialog[v][q].unread
<1>. DEFINE affected == Cardinality(AffectedMessages(u, p, maxId))
            read == ReadInbox(u, p, maxId)
            less == Minus(dialog[u][p].unread, affected)
            rd == [dialog[u][p] EXCEPT !.readInboxMaxId = maxId, !.unread = less]
<1>1. /\ dialog \in [Users -> [Users -> Dialog]] /\ dialog[u][p] \in Dialog
      /\ dialog[u][p].unread \in Nat
  <2>1. dialog \in [Users -> [Users -> Dialog]]
    BY DEF ServerTyped
  <2>2. dialog[u][p] \in Dialog
    BY <2>1
  <2>. QED  BY <2>1, <2>2 DEF Dialog
<1>2. affected \in Nat
  <2>1. AffectedMessages(u, p, maxId) = UnreadIds(u, p)
    BY AffectedUnread
  <2>2. IsFiniteSet(UnreadIds(u, p))
    BY UnreadFinite
  <2>. QED  BY <2>1, <2>2, FS_CardinalityType
<1>3. less \in Nat
  BY <1>1, <1>2, MinusTyped
<1>4. read = [dialog EXCEPT ![u] = [dialog[u] EXCEPT ![p] = rd]]
  BY <1>1 DEF Dialog, ReadInbox
<1>5. /\ rd \in Dialog /\ rd.top = dialog[u][p].top /\ rd.date = dialog[u][p].date
      /\ rd.readInboxMaxId = maxId /\ rd.unread = less
      /\ rd.readOutboxMaxId = dialog[u][p].readOutboxMaxId
  <2>. HIDE DEF less
  <2>1. rd \in Dialog
    BY <1>1, <1>3 DEF Dialog
  <2>. QED  BY <1>1, <2>1 DEF Dialog
<1>. HIDE DEF rd, read, affected
<1>6. /\ read \in [Users -> [Users -> Dialog]]
      /\ read[u][p] = rd
      /\ \A v, q \in Users : ~(v = u /\ q = p) => read[v][q] = dialog[v][q]
  BY <1>1, <1>4, <1>5
<1>7. \A v, q \in Users :
        /\ read[v][q].top = dialog[v][q].top
        /\ read[v][q].date = dialog[v][q].date
        /\ read[v][q].readOutboxMaxId = dialog[v][q].readOutboxMaxId
        /\ read[v][q].readInboxMaxId =
             IF v = u /\ q = p THEN maxId ELSE dialog[v][q].readInboxMaxId
        /\ read[v][q].unread =
             IF v = u /\ q = p THEN Minus(dialog[v][q].unread, affected)
             ELSE dialog[v][q].unread
  BY <1>5, <1>6
<1>. QED  BY <1>6, <1>7 DEF read, affected

\* What readHistory does, with the message it reports by name.
LEMMA ReadStep ==
  ASSUME ServerTyped, Filed, NEW s \in Sessions, NEW p \in Users, NEW maxId,
         ReadHistory(s, p, maxId)
  PROVE  /\ maxId \in DOMAIN box[Owner[s]] /\ maxId \in Nat
         /\ dialog[Owner[s]][p].top <= maxId
         /\ ReadMessage(s, maxId).from \in Users /\ ReadMessage(s, maxId).to \in Users
         /\ ReadMessage(s, maxId).ref[ReadMessage(s, maxId).from] \in Nat
         /\ dialog' = MarkOutboxRead(OutboxMark(Owner[s], ReadMessage(s, maxId)),
                                     ReadInbox(Owner[s], p, maxId))
<1>1. /\ maxId \in DOMAIN box[Owner[s]] /\ dialog[Owner[s]][p].top <= maxId
      /\ dialog' = MarkOutboxRead(OutboxMark(Owner[s], ReadMessage(s, maxId)),
                                  ReadInbox(Owner[s], p, maxId))
  BY Zenon DEF ReadHistory, ReadMessage, ReadInbox
<1>. QED  BY <1>1, ReadMessageRight

\* reportLocalMessageRead changes one mark, and only upwards.
LEMMA MarkOutbox ==
  ASSUME NEW D \in [Users -> [Users -> Dialog]], NEW a \in Users, NEW b \in Users,
         NEW id \in Nat, NEW mark, mark = [user |-> a, peer |-> b, id |-> id]
  PROVE  /\ MarkOutboxRead(mark, D) \in [Users -> [Users -> Dialog]]
         /\ \A v, q \in Users :
              /\ MarkOutboxRead(mark, D)[v][q].top = D[v][q].top
              /\ MarkOutboxRead(mark, D)[v][q].date = D[v][q].date
              /\ MarkOutboxRead(mark, D)[v][q].readInboxMaxId = D[v][q].readInboxMaxId
              /\ MarkOutboxRead(mark, D)[v][q].unread = D[v][q].unread
              /\ MarkOutboxRead(mark, D)[v][q].readOutboxMaxId =
                   IF v = a /\ q = b /\ D[v][q].readOutboxMaxId < id
                   THEN id ELSE D[v][q].readOutboxMaxId
<1>. DEFINE E == MarkOutboxRead(mark, D)
            md == [D[a][b] EXCEPT !.readOutboxMaxId = id]
<1>1. D[a][b] \in Dialog /\ D[a][b].readOutboxMaxId \in Nat
  BY DEF Dialog
<1>2. /\ md \in Dialog /\ md.readOutboxMaxId = id
      /\ md.top = D[a][b].top /\ md.date = D[a][b].date
      /\ md.readInboxMaxId = D[a][b].readInboxMaxId /\ md.unread = D[a][b].unread
  BY <1>1 DEF Dialog
<1>3. mark.user = a /\ mark.peer = b /\ mark.id = id
  OBVIOUS
<1>4. CASE D[a][b].readOutboxMaxId >= id
  <2>1. E = D
    BY <1>3, <1>4 DEF MarkOutboxRead
  <2>2. ~(D[a][b].readOutboxMaxId < id)
    BY <1>1, <1>4
  <2>. QED  BY <1>4, <2>1, <2>2
<1>5. CASE ~(D[a][b].readOutboxMaxId >= id)
  <2>1. E = [D EXCEPT ![a] = [D[a] EXCEPT ![b] = md]]
    BY <1>3, <1>5 DEF MarkOutboxRead
  <2>. HIDE DEF E, md
  <2>2. /\ E \in [Users -> [Users -> Dialog]] /\ E[a][b] = md
        /\ \A v, q \in Users : ~(v = a /\ q = b) => E[v][q] = D[v][q]
    BY <1>2, <2>1
  <2>3. D[a][b].readOutboxMaxId < id
    BY <1>1, <1>5
  <2>4. \A v, q \in Users :
          /\ E[v][q].top = D[v][q].top
          /\ E[v][q].date = D[v][q].date
          /\ E[v][q].readInboxMaxId = D[v][q].readInboxMaxId
          /\ E[v][q].unread = D[v][q].unread
          /\ E[v][q].readOutboxMaxId =
               IF v = a /\ q = b /\ D[v][q].readOutboxMaxId < id
               THEN id ELSE D[v][q].readOutboxMaxId
    BY <1>2, <2>2, <2>3
  <2>. QED  BY <1>5, <2>2, <2>4 DEF E
<1>. QED  BY <1>4, <1>5

\* The dialogs stay as they are when the outbox mark is not beyond the old one.
LEMMA MarkIdle ==
  ASSUME NEW D \in [Users -> [Users -> Dialog]], NEW a \in Users, NEW b \in Users,
         NEW id \in Nat, NEW mark, mark = [user |-> a, peer |-> b, id |-> id]
  PROVE  MarkOutboxRead(mark, D) = D <=> D[a][b].readOutboxMaxId >= id
<1>. DEFINE E == MarkOutboxRead(mark, D)
            md == [D[a][b] EXCEPT !.readOutboxMaxId = id]
<1>1. D[a][b] \in Dialog /\ D[a][b].readOutboxMaxId \in Nat
  BY DEF Dialog
<1>2. mark.user = a /\ mark.peer = b /\ mark.id = id
  OBVIOUS
<1>3. CASE D[a][b].readOutboxMaxId >= id
  BY <1>2, <1>3 DEF MarkOutboxRead
<1>4. CASE ~(D[a][b].readOutboxMaxId >= id)
  <2>1. E = [D EXCEPT ![a] = [D[a] EXCEPT ![b] = md]]
    BY <1>2, <1>4 DEF MarkOutboxRead
  <2>2. md.readOutboxMaxId = id
    BY <1>1 DEF Dialog
  <2>. HIDE DEF E, md
  <2>3. E[a][b] = md
    BY <2>1
  <2>4. E # D
    BY <1>1, <1>4, <2>2, <2>3
  <2>. QED  BY <1>4, <2>4 DEF E
<1>. QED  BY <1>3, <1>4

\* The dialogs after readHistory, one by one.
LEMMA ReadDialogs ==
  ASSUME ServerTyped, Filed, TopsRight, NEW s \in Sessions, NEW p \in Users, NEW maxId,
         ReadHistory(s, p, maxId)
  PROVE  /\ dialog' \in [Users -> [Users -> Dialog]]
         /\ \A v, q \in Users :
              DialogAfterRead(v, q, Owner[s], p, maxId, ReadMessage(s, maxId))
<1>. DEFINE u == Owner[s]  m == ReadMessage(s, maxId)  D == ReadInbox(u, p, maxId)
            mark == OutboxMark(u, m)
<1>0. u \in Users /\ maxId \in Nat /\ dialog[u][p].top <= maxId
  BY MessagingAssumption, ReadStep
<1>1. m.from \in Users /\ m.to \in Users /\ m.ref[m.from] \in Nat
  BY ReadStep
<1>2. dialog' = MarkOutboxRead(mark, D)
  BY ReadStep
<1>3. mark = [user |-> m.from, peer |-> m.to, id |-> m.ref[m.from]]
  BY DEF OutboxMark
<1>4. D \in [Users -> [Users -> Dialog]]
  BY <1>0, ReadInboxDialogs
<1>. HIDE DEF m, mark, D, u
<1>5. /\ dialog' \in [Users -> [Users -> Dialog]]
      /\ \A v, q \in Users :
           /\ dialog'[v][q].top = D[v][q].top
           /\ dialog'[v][q].date = D[v][q].date
           /\ dialog'[v][q].readInboxMaxId = D[v][q].readInboxMaxId
           /\ dialog'[v][q].unread = D[v][q].unread
           /\ dialog'[v][q].readOutboxMaxId =
                IF v = m.from /\ q = m.to /\ D[v][q].readOutboxMaxId < m.ref[m.from]
                THEN m.ref[m.from] ELSE D[v][q].readOutboxMaxId
  <2>1. PICK a \in Users, b \in Users, id \in Nat : a = m.from /\ b = m.to /\ id = m.ref[m.from]
    BY <1>1
  <2>2. mark = [user |-> a, peer |-> b, id |-> id]
    BY <1>3, <2>1
  <2>3. /\ MarkOutboxRead(mark, D) \in [Users -> [Users -> Dialog]]
        /\ \A v, q \in Users :
             /\ MarkOutboxRead(mark, D)[v][q].top = D[v][q].top
             /\ MarkOutboxRead(mark, D)[v][q].date = D[v][q].date
             /\ MarkOutboxRead(mark, D)[v][q].readInboxMaxId = D[v][q].readInboxMaxId
             /\ MarkOutboxRead(mark, D)[v][q].unread = D[v][q].unread
             /\ MarkOutboxRead(mark, D)[v][q].readOutboxMaxId =
                  IF v = a /\ q = b /\ D[v][q].readOutboxMaxId < id
                  THEN id ELSE D[v][q].readOutboxMaxId
    BY <1>4, <2>2, MarkOutbox
  <2>. QED  BY <1>2, <2>1, <2>3
<1>6. ASSUME NEW v \in Users, NEW q \in Users
      PROVE  DialogAfterRead(v, q, u, p, maxId, m)
  <2>1. dialog'[v][q] \in Dialog
    BY <1>5
  <2>2. /\ D[v][q].top = dialog[v][q].top
        /\ D[v][q].date = dialog[v][q].date
        /\ D[v][q].readOutboxMaxId = dialog[v][q].readOutboxMaxId
        /\ D[v][q].readInboxMaxId =
             IF v = u /\ q = p THEN maxId ELSE dialog[v][q].readInboxMaxId
        /\ D[v][q].unread =
             IF v = u /\ q = p
             THEN Minus(dialog[v][q].unread, Cardinality(AffectedMessages(u, p, maxId)))
             ELSE dialog[v][q].unread
    BY <1>0, ReadInboxDialogs DEF D
  <2>. QED  BY <1>5, <2>1, <2>2 DEF DialogAfterRead, MarksOutbox
<1>. QED  BY <1>5, <1>6 DEF m, u

\* The users whose sessions hear of the read mark of message m.
MarkedUsers(m) == {v \in {m.from} : MarksOutbox(v, m.to, m)}

\* The users whose sessions hear of message m, which u has read, once more.
RepeatedUsers(u, m) == {v \in {m.from} : Dc[m.from] # Dc[u]}

\* A session is told of the new pts of its user and of a read mark of its user's.
ToldOfRead(t, u, m) ==
  LET hears == Owner[t] \in MarkedUsers(m)
      again == Owner[t] \in RepeatedUsers(u, m)
  IN
  /\ view'[t] \in View
  /\ view'[t].since = view[t].since /\ view'[t].new = view[t].new
  /\ view'[t].known = view[t].known
  /\ view'[t].pts = IF again THEN 0
                    ELSE IF Owner[t] = u \/ hears THEN pts'[Owner[t]] ELSE view[t].pts
  /\ view'[t].maxPts = IF Owner[t] = u \/ hears THEN Larger(view[t].maxPts, pts'[Owner[t]])
                       ELSE view[t].maxPts
  /\ \A q \in Users :
       /\ view'[t].outbox[q] =
            IF (hears \/ again) /\ q = m.to THEN m.ref[m.from] ELSE view[t].outbox[q]
       /\ view'[t].maxOutbox[q] =
            IF (hears \/ again) /\ q = m.to THEN Larger(view[t].maxOutbox[q], m.ref[m.from])
            ELSE view[t].maxOutbox[q]

\* What the updates of a readHistory leave in the view of a session.
ToldRight(v, old, n, inbox, outbox, repeated, mark) ==
  /\ v \in View
  /\ v.since = old.since /\ v.new = old.new /\ v.known = old.known
  /\ v.pts = IF repeated THEN 0 ELSE IF inbox \/ outbox THEN n ELSE old.pts
  /\ v.maxPts = IF inbox \/ outbox THEN Larger(old.maxPts, n) ELSE old.maxPts
  /\ \A q \in Users :
       /\ v.outbox[q] = IF (outbox \/ repeated) /\ q = mark.peer THEN mark.id ELSE old.outbox[q]
       /\ v.maxOutbox[q] = IF (outbox \/ repeated) /\ q = mark.peer
                           THEN Larger(old.maxOutbox[q], mark.id) ELSE old.maxOutbox[q]

\* ReadTold field by field.
LEMMA ToldFields ==
  ASSUME NEW t, view[t] \in View, NEW n \in Nat, NEW inbox, NEW outbox, NEW repeated,
         NEW mark, mark.peer \in Users, mark.id \in Nat
  PROVE  ToldRight(ReadTold(t, n, inbox, outbox, repeated, mark), view[t], n, inbox, outbox,
                   repeated, mark)
<1>. DEFINE old == view[t]  most == Larger(old.maxPts, n)
            told == IF inbox \/ outbox THEN [old EXCEPT !.pts = n, !.maxPts = most] ELSE old
            out == [told.outbox EXCEPT ![mark.peer] = mark.id]
            maxOut == [told.maxOutbox EXCEPT ![mark.peer] = Larger(@, mark.id)]
            marked == [told EXCEPT !.outbox = out, !.maxOutbox = maxOut]
            again == [marked EXCEPT !.pts = 0]
            v == ReadTold(t, n, inbox, outbox, repeated, mark)
<1>0. old \in View /\ most \in Nat
  BY LargerOf DEF View
<1>1. told \in View /\ told.since = old.since /\ told.new = old.new /\ told.known = old.known
      /\ told.pts = (IF inbox \/ outbox THEN n ELSE old.pts)
      /\ told.maxPts = (IF inbox \/ outbox THEN most ELSE old.maxPts)
      /\ told.outbox = old.outbox /\ told.maxOutbox = old.maxOutbox
  <2>. HIDE DEF most, old
  <2>1. CASE inbox \/ outbox
    <3>1. told = [old EXCEPT !.pts = n, !.maxPts = most]
      BY <2>1
    <3>. HIDE DEF told
    <3>. QED  BY <1>0, <2>1, <3>1 DEF View
  <2>2. CASE ~(inbox \/ outbox)
    BY <1>0, <2>2
  <2>. QED  BY <2>1, <2>2
<1>2. /\ out \in [Users -> Nat] /\ maxOut \in [Users -> Nat]
      /\ \A q \in Users :
           /\ out[q] = (IF q = mark.peer THEN mark.id ELSE old.outbox[q])
           /\ maxOut[q] = (IF q = mark.peer THEN Larger(old.maxOutbox[q], mark.id)
                           ELSE old.maxOutbox[q])
  <2>1. told.outbox \in [Users -> Nat] /\ told.maxOutbox \in [Users -> Nat]
    BY <1>1 DEF View
  <2>2. Larger(told.maxOutbox[mark.peer], mark.id) \in Nat
    BY <2>1, LargerOf
  <2>. HIDE DEF told, old
  <2>. QED  BY <1>1, <2>1, <2>2
<1>3. v = IF repeated THEN again ELSE IF outbox THEN marked ELSE told
  BY DEF ReadTold
<1>. HIDE DEF told, out, maxOut
<1>4. /\ marked \in View /\ marked.since = told.since /\ marked.new = told.new
      /\ marked.known = told.known /\ marked.pts = told.pts /\ marked.maxPts = told.maxPts
      /\ marked.outbox = out /\ marked.maxOutbox = maxOut
  BY <1>1, <1>2 DEF View
<1>. HIDE DEF marked
<1>5. /\ again \in View /\ again.since = told.since /\ again.new = told.new
      /\ again.known = told.known /\ again.pts = 0 /\ again.maxPts = told.maxPts
      /\ again.outbox = out /\ again.maxOutbox = maxOut
  BY <1>4 DEF View
<1>. HIDE DEF again, v, most, old
<1>6. CASE repeated
  BY <1>1, <1>2, <1>3, <1>5, <1>6 DEF ToldRight, most, old, v
<1>7. CASE ~repeated /\ outbox
  BY <1>1, <1>2, <1>3, <1>4, <1>7 DEF ToldRight, most, old, v
<1>8. CASE ~repeated /\ ~outbox
  BY <1>1, <1>3, <1>8 DEF ToldRight, most, old, v
<1>. QED  BY <1>6, <1>7, <1>8

\* The pts and the views after readHistory, user by user and session by session.
LEMMA ReadMarked ==
  ASSUME ServerTyped, SessionsTyped, Filed, TopsRight, NEW s \in Sessions, NEW p \in Users,
         NEW maxId, ReadHistory(s, p, maxId)
  PROVE  /\ pts' \in [Users -> Nat] /\ view' \in [Sessions -> View]
         /\ \A v \in Users : /\ pts[v] <= pts'[v]
                             /\ v # Owner[s] /\ v \notin MarkedUsers(ReadMessage(s, maxId))
                                  => pts'[v] = pts[v]
         /\ \A t \in Sessions \ active : view'[t] = view[t]
         /\ \A t \in active : ToldOfRead(t, Owner[s], ReadMessage(s, maxId))
<1>. DEFINE u == Owner[s]  m == ReadMessage(s, maxId)  mark == OutboxMark(u, m)
            read == ReadInbox(u, p, maxId)
            marked == IF MarkOutboxRead(mark, read) = read THEN {} ELSE {mark.user}
            repeated == IF OutboxRepeated(u, mark) THEN {mark.user} ELSE {}
<1>0. u \in Users /\ maxId \in Nat /\ dialog[u][p].top <= maxId
  BY MessagingAssumption, ReadStep
<1>1. m.from \in Users /\ m.to \in Users /\ m.ref[m.from] \in Nat
  BY ReadStep
<1>2. mark = [user |-> m.from, peer |-> m.to, id |-> m.ref[m.from]]
  BY DEF OutboxMark
<1>3. marked = MarkedUsers(m)
  <2>1. read \in [Users -> [Users -> Dialog]]
    BY <1>0, ReadInboxDialogs
  <2>2. read[m.from][m.to].readOutboxMaxId = dialog[m.from][m.to].readOutboxMaxId
    <3>1. \A v, q \in Users : read[v][q].readOutboxMaxId = dialog[v][q].readOutboxMaxId
      BY <1>0, ReadInboxDialogs
    <3>. QED  BY <1>1, <3>1
  <2>3. read[m.from][m.to] \in Dialog
    BY <1>1, <2>1
  <2>. HIDE DEF m, mark, read, u
  <2>4. MarkOutboxRead(mark, read) = read
          <=> read[m.from][m.to].readOutboxMaxId >= m.ref[m.from]
    <3>1. PICK from \in Users, to \in Users, id \in Nat :
            from = m.from /\ to = m.to /\ id = m.ref[m.from]
      BY <1>1, Zenon
    <3>2. mark = [user |-> from, peer |-> to, id |-> id]
      BY <1>2, <3>1, Zenon
    <3>3. MarkOutboxRead(mark, read) = read <=> read[from][to].readOutboxMaxId >= id
      BY <2>1, <3>2, MarkIdle, Zenon
    <3>. QED  BY <3>1, <3>3, Zenon
  <2>5. (read[m.from][m.to].readOutboxMaxId >= m.ref[m.from]) <=> ~MarksOutbox(m.from, m.to, m)
    BY <1>1, <2>2, <2>3 DEF MarksOutbox, Dialog
  <2>6. mark.user = m.from
    BY <1>2
  <2>. QED  BY <2>4, <2>5, <2>6 DEF MarkedUsers
<1>4. mark.user = m.from /\ mark.peer = m.to /\ mark.id = m.ref[m.from]
  BY <1>2
<1>5. pts' = [v \in Users |->
                pts[v] + (Cardinality({u} \cap {v}) + Cardinality(marked \cap {v}))]
  BY Zenon DEF ReadHistory, ReadMessage, ReadInbox
<1>6. view' = [t \in Sessions |->
                 IF t \notin active THEN view[t]
                 ELSE ReadTold(t, pts'[Owner[t]], ReadInboxTold(s, t), Owner[t] \in marked,
                               Owner[t] \in repeated, mark)]
  BY Zenon DEF ReadHistory, ReadMessage, ReadInbox
<1>7. repeated = RepeatedUsers(u, m)
  <2>. HIDE DEF m, mark, u
  <2>. QED  BY <1>4, Zenon DEF RepeatedUsers, OutboxRepeated
<1>. HIDE DEF m, mark, marked, repeated, u
<1>8. ASSUME NEW v \in Users
      PROVE  pts'[v] \in Nat /\ pts[v] <= pts'[v] /\ (v # u /\ v \notin marked => pts'[v] = pts[v])
  <2>1. pts'[v] = pts[v] + (Cardinality({u} \cap {v}) + Cardinality(marked \cap {v}))
    BY <1>5
  <2>2. \A S : /\ Cardinality(S \cap {v}) \in Nat
               /\ v \notin S => Cardinality(S \cap {v}) = 0
    <3>. SUFFICES ASSUME NEW S
         PROVE  /\ Cardinality(S \cap {v}) \in Nat
                /\ v \notin S => Cardinality(S \cap {v}) = 0
      OBVIOUS
    <3>1. CASE v \in S
      <4>1. S \cap {v} = {v}
        BY <3>1
      <4>2. Cardinality({v}) = 1
        BY FS_Singleton
      <4>. QED  BY <3>1, <4>1, <4>2
    <3>2. CASE v \notin S
      <4>1. S \cap {v} = {}
        BY <3>2
      <4>. QED  BY <4>1, FS_EmptySet
    <3>. QED  BY <3>1, <3>2
  <2>3. Cardinality({u} \cap {v}) \in Nat /\ (v # u => Cardinality({u} \cap {v}) = 0)
    BY <2>2
  <2>4. Cardinality(marked \cap {v}) \in Nat
        /\ (v \notin marked => Cardinality(marked \cap {v}) = 0)
    BY <2>2
  <2>5. pts[v] \in Nat
    BY DEF ServerTyped
  <2>. QED  BY <2>1, <2>3, <2>4, <2>5
<1>9. pts' \in [Users -> Nat]
  BY <1>5, <1>8
<1>10. ASSUME NEW t \in Sessions, t \in active
       PROVE  ToldOfRead(t, u, m)
  <2>. DEFINE w == Owner[t]
  <2>0. w \in Users /\ view[t] \in View /\ pts'[w] \in Nat
    BY <1>8, MessagingAssumption DEF SessionsTyped
  <2>1. view'[t] = ReadTold(t, pts'[w], ReadInboxTold(s, t), w \in marked, w \in repeated, mark)
    BY <1>6, <1>10
  <2>2. ReadInboxTold(s, t) <=> w = u
    BY DEF ReadInboxTold, u
  <2>3. PICK n, inbox, outbox, again :
          /\ n = pts'[w] /\ inbox = ReadInboxTold(s, t)
          /\ outbox = (w \in marked) /\ again = (w \in repeated)
    OBVIOUS
  <2>4. ToldRight(ReadTold(t, n, inbox, outbox, again, mark), view[t], n, inbox, outbox, again,
                  mark)
    BY <1>1, <1>4, <2>0, <2>3, ToldFields
  <2>5. ToldRight(view'[t], view[t], n, inbox, outbox, again, mark)
    BY <2>1, <2>3, <2>4
  <2>6. /\ inbox <=> Owner[t] = u
        /\ outbox <=> Owner[t] \in MarkedUsers(m)
        /\ again <=> Owner[t] \in RepeatedUsers(u, m)
    BY <1>3, <1>7, <2>2, <2>3
  <2>. HIDE DEF w
  <2>. QED  BY <1>4, <2>3, <2>5, <2>6 DEF ToldRight, ToldOfRead, w
<1>11. \A t \in Sessions \ active : view'[t] = view[t]
  BY <1>6
<1>12. view' \in [Sessions -> View]
  <2>1. \A t \in Sessions : view'[t] \in View
    BY <1>10, <1>11 DEF ToldOfRead, SessionsTyped
  <2>2. view' = [t \in Sessions |-> view'[t]]
    BY <1>6
  <2>. QED  BY <2>1, <2>2, Zenon
<1>13. \A v \in Users : pts[v] <= pts'[v] /\ (v # u /\ v \notin MarkedUsers(m) => pts'[v] = pts[v])
  BY <1>3, <1>8
<1>14. active \subseteq Sessions
  BY DEF SessionsTyped
<1>. QED  BY <1>9, <1>10, <1>11, <1>12, <1>13, <1>14 DEF m, u

\* readHistory leaves the messages and their places alone.
LEMMA ReadKeeps ==
  ASSUME NEW s \in Sessions, NEW p \in Users, NEW maxId, ReadHistory(s, p, maxId)
  PROVE  /\ messages' = messages /\ box' = box /\ order' = order /\ active' = active
         /\ paging' = paging
         /\ \A v, q : DialogIds(v, q)' = DialogIds(v, q) /\ Incoming(v, q)' = Incoming(v, q)
         /\ unread' = [unread EXCEPT ![Owner[s]] =
                         Minus(@, Cardinality(AffectedMessages(Owner[s], p, maxId)))]
<1>1. messages' = messages /\ box' = box /\ order' = order /\ active' = active /\ paging' = paging
  BY Zenon DEF ReadHistory
<1>2. \A v, q : DialogIds(v, q)' = DialogIds(v, q)
  BY <1>1 DEF DialogIds, DialogPeer
<1>3. \A v, q : Incoming(v, q)' = Incoming(v, q)
  BY <1>1, <1>2, Zenon DEF Incoming
<1>4. unread' = [unread EXCEPT ![Owner[s]] =
                   Minus(@, Cardinality(AffectedMessages(Owner[s], p, maxId)))]
  BY Zenon DEF ReadHistory
<1>. QED  BY <1>1, <1>2, <1>3, <1>4, Zenon

\* The messages readHistory takes off the counters are the unread ones.
LEMMA ReadUnread ==
  ASSUME ServerTyped, Filed, TopsRight, UnreadCountsMessages,
         NEW s \in Sessions, NEW p \in Users, NEW maxId, ReadHistory(s, p, maxId)
  PROVE  UnreadCountsMessages' /\ unread' \in [Users -> Nat]
<1>. DEFINE u == Owner[s]  m == ReadMessage(s, maxId)
            affected == AffectedMessages(u, p, maxId)
<1>0. u \in Users /\ maxId \in Nat /\ dialog[u][p].top <= maxId
  BY MessagingAssumption, ReadStep
<1>1. affected = UnreadIds(u, p) /\ IsFiniteSet(affected) /\ Cardinality(affected) \in Nat
  BY <1>0, AffectedUnread, UnreadFinite, FS_CardinalityType
<1>2. \A v, q \in Users :
        /\ dialog'[v][q].readInboxMaxId =
             IF v = u /\ q = p THEN maxId ELSE dialog[v][q].readInboxMaxId
        /\ dialog'[v][q].unread =
             IF v = u /\ q = p THEN Minus(dialog[v][q].unread, Cardinality(affected))
             ELSE dialog[v][q].unread
  BY ReadDialogs DEF DialogAfterRead
<1>3. /\ \A v, q \in Users : dialog[v][q].unread = Cardinality(UnreadIds(v, q))
      /\ \A v \in Users : unread[v] = Cardinality(AllUnreadIds(v))
  BY UnreadByIds
<1>. HIDE DEF u, m, affected
<1>4. ASSUME NEW v \in Users, NEW q \in Users
      PROVE  dialog'[v][q].unread = Cardinality(UnreadIds(v, q)')
  <2>1. CASE v = u /\ q = p
    <3>1. \A id \in Incoming(v, q) : id <= dialog[v][q].top /\ id \in Nat
      BY DEF TopsRight, Incoming, DialogIds, ServerTyped
    <3>2. dialog[v][q].top \in Nat /\ dialog[v][q].top <= maxId
      BY <1>0, <2>1, TopBound DEF Dialog, u
    <3>3. UnreadIds(v, q)' = {}
      BY <1>0, <1>2, <2>1, <3>1, <3>2, ReadKeeps DEF UnreadIds
    <3>4. dialog'[v][q].unread = 0
      BY <1>1, <1>2, <1>3, <2>1 DEF Minus
    <3>. QED  BY <3>3, <3>4, FS_EmptySet
  <2>2. CASE ~(v = u /\ q = p)
    <3>1. dialog'[v][q].unread = dialog[v][q].unread
          /\ dialog'[v][q].readInboxMaxId = dialog[v][q].readInboxMaxId
      BY <1>2, <2>2
    <3>2. UnreadIds(v, q)' = UnreadIds(v, q)
      BY <3>1, ReadKeeps DEF UnreadIds
    <3>. QED  BY <1>3, <3>1, <3>2
  <2>. QED  BY <2>1, <2>2
<1>5. ASSUME NEW v \in Users
      PROVE  unread'[v] = Cardinality(AllUnreadIds(v)') /\ unread'[v] \in Nat
  <2>0. unread \in [Users -> Nat] /\ IsFiniteSet(AllUnreadIds(v))
    BY UnreadFinite DEF ServerTyped
  <2>1. unread' = [unread EXCEPT ![u] = Minus(@, Cardinality(affected))]
    BY ReadKeeps DEF u, affected
  <2>2. \A id \in DOMAIN box[v] :
          id \in AllUnreadIds(v)' <=>
            /\ id \in AllUnreadIds(v)
            /\ ~(v = u /\ DialogPeer(v, box[v][id]) = p)
    <3>. SUFFICES ASSUME NEW id \in DOMAIN box[v]
         PROVE  id \in AllUnreadIds(v)' <=>
                  /\ id \in AllUnreadIds(v)
                  /\ ~(v = u /\ DialogPeer(v, box[v][id]) = p)
      OBVIOUS
    <3>. DEFINE q == DialogPeer(v, box[v][id])
    <3>1. q \in Users
      BY PeerTyped
    <3>2. messages' = messages /\ box' = box /\ DialogPeer(v, box[v][id])' = q
      BY ReadKeeps DEF DialogPeer
    <3>3. id \in AllUnreadIds(v)' <=> messages[box[v][id]].from # v /\ id > dialog'[v][q].readInboxMaxId
      BY <3>2 DEF AllUnreadIds
    <3>4. id \in AllUnreadIds(v) <=> messages[box[v][id]].from # v /\ id > dialog[v][q].readInboxMaxId
      BY DEF AllUnreadIds
    <3>5. id <= dialog[v][q].top
      BY <3>1 DEF TopsRight, DialogIds
    <3>6. id \in Nat /\ dialog[v][q].top \in Nat
      <4>1. DOMAIN box[v] = 1..Len(box[v])
        BY DEF ServerTyped
      <4>2. dialog[v][q] \in Dialog
        BY <3>1, TopBound
      <4>. HIDE DEF q
      <4>. QED  BY <4>1, <4>2 DEF Dialog
    <3>. HIDE DEF q
    <3>7. CASE v = u /\ q = p
      <4>1. dialog'[v][q].readInboxMaxId = maxId /\ dialog[v][q].top <= maxId
        BY <1>0, <1>2, <3>1, <3>7 DEF u
      <4>. QED  BY <1>0, <3>3, <3>5, <3>6, <3>7, <4>1 DEF q
    <3>8. CASE ~(v = u /\ q = p)
      <4>1. dialog'[v][q].readInboxMaxId = dialog[v][q].readInboxMaxId
        BY <1>2, <3>1, <3>8
      <4>. QED  BY <3>3, <3>4, <3>8, <4>1 DEF q
    <3>. QED  BY <3>7, <3>8
  <2>3. AllUnreadIds(v)' \subseteq DOMAIN box[v] /\ AllUnreadIds(v) \subseteq DOMAIN box[v]
    BY ReadKeeps DEF AllUnreadIds
  <2>4. CASE v = u
    <3>1. affected = {id \in AllUnreadIds(v) : DialogPeer(v, box[v][id]) = p}
      BY <1>1, <2>4, UnreadFinite
    <3>2. AllUnreadIds(v)' = AllUnreadIds(v) \ affected /\ affected \subseteq AllUnreadIds(v)
      BY <2>2, <2>3, <2>4, <3>1
    <3>3. AllUnreadIds(v) \cap affected = affected
      BY <3>2
    <3>4. Cardinality(AllUnreadIds(v)') = Cardinality(AllUnreadIds(v)) - Cardinality(affected)
      BY <2>0, <3>2, <3>3, FS_Difference
    <3>5. Cardinality(affected) <= Cardinality(AllUnreadIds(v))
      BY <2>0, <3>2, FS_Subset
    <3>6. unread'[v] = Minus(unread[v], Cardinality(affected))
      BY <2>0, <2>1, <2>4
    <3>7. Minus(unread[v], Cardinality(affected)) = unread[v] - Cardinality(affected)
      BY <1>1, <1>3, <2>0, <3>5 DEF Minus
    <3>. QED  BY <1>1, <1>3, <2>0, <3>4, <3>5, <3>6, <3>7
  <2>5. CASE v # u
    <3>1. AllUnreadIds(v)' = AllUnreadIds(v)
      BY <2>2, <2>3, <2>5
    <3>2. unread'[v] = unread[v]
      BY <2>0, <2>1, <2>5
    <3>. QED  BY <1>3, <2>0, <3>1, <3>2
  <2>. QED  BY <2>4, <2>5
<1>6. unread' \in [Users -> Nat]
  <2>1. unread' = [v \in Users |-> unread'[v]]
    BY ReadKeeps DEF ServerTyped
  <2>. QED  BY <1>5, <2>1, Zenon
<1>7. UnreadCountsMessages' <=>
        \A v \in Users :
          /\ \A q \in Users : dialog'[v][q].unread = Cardinality(UnreadIds(v, q)')
          /\ unread'[v] = Cardinality(AllUnreadIds(v)')
  BY DEF UnreadCountsMessages, UnreadIds, AllUnreadIds
<1>. QED  BY <1>4, <1>5, <1>6, <1>7

\* readHistory moves a mark to an id of the post box and leaves tops alone.
LEMMA ReadTops ==
  ASSUME ServerTyped, Filed, TopsRight, Ordered,
         NEW s \in Sessions, NEW p \in Users, NEW maxId, ReadHistory(s, p, maxId)
  PROVE  Filed' /\ TopsRight' /\ Ordered'
<1>1. \A v, q \in Users :
        /\ dialog'[v][q].top = dialog[v][q].top
        /\ dialog'[v][q].date = dialog[v][q].date
        /\ \/ dialog'[v][q].readInboxMaxId = dialog[v][q].readInboxMaxId
           \/ v = Owner[s] /\ dialog'[v][q].readInboxMaxId = maxId
  BY ReadDialogs DEF DialogAfterRead
<1>2. maxId <= Len(box[Owner[s]])
  <2>1. Owner[s] \in Users /\ maxId \in DOMAIN box[Owner[s]]
    BY MessagingAssumption, ReadStep
  <2>2. DOMAIN box[Owner[s]] = 1..Len(box[Owner[s]])
    BY <2>1 DEF ServerTyped
  <2>. QED  BY <2>1, <2>2
<1>3. messages' = messages /\ box' = box /\ order' = order
      /\ \A v, q : DialogIds(v, q)' = DialogIds(v, q)
  BY ReadKeeps
<1>4. Filed'
  BY <1>3 DEF Filed
<1>5. TopsRight'
  <2>. SUFFICES ASSUME NEW v \in Users, NEW q \in Users
       PROVE  /\ \A id \in DialogIds(v, q)' : id <= dialog'[v][q].top
              /\ dialog'[v][q].top # 0 =>
                   /\ dialog'[v][q].top \in DialogIds(v, q)'
                   /\ dialog'[v][q].date = box'[v][dialog'[v][q].top]
              /\ dialog'[v][q].readInboxMaxId <= Len(box'[v])
    BY DEF TopsRight
  <2>1. /\ \A id \in DialogIds(v, q) : id <= dialog[v][q].top
        /\ dialog[v][q].top # 0 =>
             /\ dialog[v][q].top \in DialogIds(v, q)
             /\ dialog[v][q].date = box[v][dialog[v][q].top]
        /\ dialog[v][q].readInboxMaxId <= Len(box[v])
    BY DEF TopsRight
  <2>2. dialog'[v][q].readInboxMaxId <= Len(box[v])
    BY <1>1, <1>2, <2>1
  <2>. QED  BY <1>1, <1>3, <2>1, <2>2
<1>6. Ordered'
  <2>1. ASSUME NEW v \in Users
        PROVE  Sorted(order'[v], dialog'[v])
    <3>0. Sorted(order[v], dialog[v]) /\ order'[v] = order[v]
      BY <1>3 DEF Ordered
    <3>1. \A i \in DOMAIN order[v] : order[v][i] \in Users
      BY <3>0 DEF Sorted
    <3>2. \A q \in Users : dialog'[v][q].top = dialog[v][q].top
                           /\ dialog'[v][q].date = dialog[v][q].date
      BY <1>1
    <3>3. {q \in Users : dialog'[v][q].top # 0} = {q \in Users : dialog[v][q].top # 0}
      BY <3>2
    <3>4. \A i \in DOMAIN order[v] : dialog'[v][order[v][i]].date = dialog[v][order[v][i]].date
      BY <3>1, <3>2
    <3>. QED  BY <3>0, <3>3, <3>4 DEF Sorted
  <2>. QED  BY <1>3, <2>1 DEF Ordered
<1>. QED  BY <1>4, <1>5, <1>6

\* readHistory does not change what the sessions know of messages and pages.
LEMMA ReadSessions ==
  ASSUME ServerTyped, SessionsTyped, Filed, TopsRight, SinceRight, PagesRight,
         EveryMessageToldOnce,
         NEW s \in Sessions, NEW p \in Users, NEW maxId, ReadHistory(s, p, maxId)
  PROVE  SessionsTyped' /\ SinceRight' /\ EveryMessageToldOnce' /\ PagesRight'
<1>1. active' = active /\ paging' = paging /\ box' = box /\ active \subseteq Sessions
  BY ReadKeeps DEF SessionsTyped
<1>2. SessionsTyped'
  BY <1>1, ReadMarked DEF SessionsTyped
<1>3. \A t \in active : /\ view'[t].since = view[t].since /\ view'[t].new = view[t].new
                        /\ view'[t].known = view[t].known
  BY ReadMarked DEF ToldOfRead
<1>4. SinceRight' /\ EveryMessageToldOnce'
  BY <1>1, <1>3 DEF SinceRight, EveryMessageToldOnce
<1>5. \A v, q \in Users : /\ dialog'[v][q].top = dialog[v][q].top
                          /\ dialog'[v][q].date = dialog[v][q].date
  BY ReadDialogs DEF DialogAfterRead
<1>6. PagesRight'
  <2>. SUFFICES ASSUME NEW t \in Sessions, paging[t].state \in {"more", "undefined"}
       PROVE  LET u == Owner[t]  off == paging[t].offset IN
         /\ t \in active /\ off \in Users /\ off \in view'[t].known
         /\ dialog'[u][off].top # 0 /\ paging[t].top # 0
         /\ paging[t].top <= dialog'[u][off].top
         /\ paging[t].state = "more" /\ paging[t].top = dialog'[u][off].top =>
              \A q \in Users : dialog'[u][q].top # 0 /\ dialog'[u][q].date > dialog'[u][off].date
                                 => q \in view'[t].known
         /\ paging[t].state = "undefined" => paging[t].top < dialog'[u][off].top
    BY <1>1 DEF PagesRight
  <2>. DEFINE u == Owner[t]  off == paging[t].offset
  <2>1. /\ t \in active /\ off \in Users /\ off \in view[t].known
        /\ dialog[u][off].top # 0 /\ paging[t].top # 0
        /\ paging[t].top <= dialog[u][off].top
        /\ paging[t].state = "more" /\ paging[t].top = dialog[u][off].top =>
             \A q \in Users : dialog[u][q].top # 0 /\ dialog[u][q].date > dialog[u][off].date
                                => q \in view[t].known
        /\ paging[t].state = "undefined" => paging[t].top < dialog[u][off].top
    BY DEF PagesRight
  <2>2. u \in Users
    BY MessagingAssumption
  <2>3. view'[t].known = view[t].known
    BY <1>3, <2>1
  <2>. QED  BY <1>5, <2>1, <2>2, <2>3
<1>. QED  BY <1>2, <1>4, <1>6

\* The sessions of the reader and of the marked user are told the pts and the mark;
\* what is repeated is no news.
LEMMA ReadUpToDate ==
  ASSUME ServerTyped, SessionsTyped, Filed, TopsRight, SessionsUpToDate,
         NEW s \in Sessions, NEW p \in Users, NEW maxId, ReadHistory(s, p, maxId)
  PROVE  SessionsUpToDate'
<1>. DEFINE u == Owner[s]  m == ReadMessage(s, maxId)
<1>0. active' = active /\ active \subseteq Sessions /\ u \in Users
  BY MessagingAssumption, ReadKeeps DEF SessionsTyped
<1>1. \A v, q \in Users : dialog'[v][q].readOutboxMaxId =
        IF MarksOutbox(v, q, m) THEN m.ref[m.from] ELSE dialog[v][q].readOutboxMaxId
  BY ReadDialogs DEF DialogAfterRead
<1>2. m.from \in Users /\ m.to \in Users /\ u \in {m.from, m.to} /\ m.ref[m.from] \in Nat
  <2>1. maxId \in DOMAIN box[u]
    BY ReadStep
  <2>. QED  BY <2>1, ReadMessageRight
<1>3. ASSUME NEW t \in active
      PROVE  KnowsState(t)'
  <2>. DEFINE w == Owner[t]  ref == m.ref[m.from]
              hears == w \in MarkedUsers(m)  again == w \in RepeatedUsers(u, m)
  <2>0. /\ w \in Users /\ pts[w] \in Nat /\ pts'[w] \in Nat /\ pts[w] <= pts'[w]
        /\ w # u /\ ~hears => pts'[w] = pts[w]
    <3>1. w \in Users
      BY <1>0, MessagingAssumption
    <3>2. pts[w] \in Nat
      BY <3>1 DEF ServerTyped
    <3>. QED  BY <3>1, <3>2, ReadMarked
  <2>1. KnowsState(t)
    BY AllKnow
  <2>2. ToldOfRead(t, u, m)
    BY ReadMarked
  <2>3. view'[t].maxPts = pts'[w]
    BY <2>0, <2>1, <2>2, LargerOf DEF KnowsState, ToldOfRead
  <2>4. \/ view'[t].pts = pts'[w]
        \/ view'[t].pts = 0 /\ \E q \in Users : Dc[q] # Dc[w]
    <3>1. CASE again
      <4>1. view'[t].pts = 0
        BY <2>2, <3>1 DEF ToldOfRead
      <4>2. Dc[u] # Dc[w]
        BY <3>1 DEF RepeatedUsers
      <4>. QED  BY <1>0, <4>1, <4>2
    <3>2. CASE ~again
      BY <2>0, <2>1, <2>2, <3>2 DEF KnowsState, ToldOfRead
    <3>. QED  BY <3>1, <3>2
  <2>5. ASSUME NEW q \in Users
        PROVE  /\ view'[t].maxOutbox[q] = dialog'[w][q].readOutboxMaxId
               /\ \/ view'[t].outbox[q] = dialog'[w][q].readOutboxMaxId
                  \/ /\ view'[t].outbox[q] < dialog'[w][q].readOutboxMaxId
                     /\ Dc[q] # Dc[w]
    <3>. DEFINE mark == dialog[w][q].readOutboxMaxId
    <3>0. /\ view[t].maxOutbox[q] = mark
          /\ view[t].outbox[q] = mark \/ (view[t].outbox[q] < mark /\ Dc[q] # Dc[w])
          /\ mark \in Nat
      <4>1. dialog[w][q] \in Dialog
        BY <2>0 DEF ServerTyped
      <4>. QED  BY <2>1, <4>1 DEF KnowsState, Dialog
    <3>1. dialog'[w][q].readOutboxMaxId = IF MarksOutbox(w, q, m) THEN ref ELSE mark
      BY <1>1, <2>0
    <3>2. MarksOutbox(w, q, m) <=> hears /\ q = m.to
      BY DEF MarkedUsers, MarksOutbox
    <3>3. /\ view'[t].outbox[q] = IF (hears \/ again) /\ q = m.to THEN ref
                                  ELSE view[t].outbox[q]
          /\ view'[t].maxOutbox[q] = IF (hears \/ again) /\ q = m.to
                                     THEN Larger(view[t].maxOutbox[q], ref)
                                     ELSE view[t].maxOutbox[q]
      BY <2>2 DEF ToldOfRead
    <3>4. CASE hears /\ q = m.to
      <4>1. mark < ref
        BY <3>2, <3>4 DEF MarksOutbox
      <4>. HIDE DEF mark, ref, hears, again
      <4>2. Larger(mark, ref) = ref
        BY <1>2, <3>0, <4>1, LargerOf DEF ref
      <4>. QED  BY <3>0, <3>1, <3>2, <3>3, <3>4, <4>2
    <3>5. CASE ~hears /\ again /\ q = m.to
      <4>1. w = m.from /\ Dc[m.from] # Dc[u] /\ Dc[q] # Dc[w]
        BY <1>2, <3>5 DEF RepeatedUsers
      <4>2. ~(mark < ref)
        BY <3>2, <3>5, <4>1 DEF MarksOutbox
      <4>. HIDE DEF mark, ref, hears, again
      <4>3. ref \in Nat /\ ref <= mark
        BY <1>2, <3>0, <4>2 DEF ref
      <4>4. Larger(mark, ref) = mark
        BY <3>0, <4>3, LargerOf
      <4>5. ref = mark \/ ref < mark
        BY <3>0, <4>3
      <4>. QED  BY <3>0, <3>1, <3>2, <3>3, <3>5, <4>1, <4>4, <4>5
    <3>6. CASE ~((hears \/ again) /\ q = m.to)
      <4>. HIDE DEF mark, ref, hears, again
      <4>. QED  BY <3>0, <3>1, <3>2, <3>3, <3>6
    <3>. QED  BY <3>4, <3>5, <3>6
  <2>. QED  BY <2>3, <2>4, <2>5 DEF KnowsState
<1>4. SessionsUpToDate' <=> \A t \in active' : KnowsState(t)'
  BY DEF SessionsUpToDate, KnowsState
<1>. QED  BY <1>0, <1>3, <1>4

\* An incoming message of the dialog is reported, and with it all before it.
LEMMA ReadReported ==
  ASSUME ServerTyped, Filed, TopsRight, ReadIsReported,
         NEW s \in Sessions, NEW p \in Users, NEW maxId, ReadHistory(s, p, maxId)
  PROVE  ReadIsReported'
<1>. DEFINE u == Owner[s]  g2 == box[u][maxId]  m2 == ReadMessage(s, maxId)
<1>0. /\ messages' = messages
      /\ \A v, q : Incoming(v, q)' = Incoming(v, q)
  BY ReadKeeps
<1>. SUFFICES ASSUME NEW g \in DOMAIN messages, NEW m, m = messages[g], m.from # m.to,
                     dialog'[m.to][m.from].readInboxMaxId >= m.ref[m.to],
                     dialog'[m.to][m.from].readInboxMaxId \in Incoming(m.to, m.from)
     PROVE  dialog'[m.from][m.to].readOutboxMaxId >= m.ref[m.from]
  BY <1>0 DEF ReadIsReported
<1>1. PICK a \in Users, b \in Users : a = m.from /\ b = m.to
  BY MessageTyped
<1>2. PICK ia \in Nat, ib \in Nat : ia = m.ref[a] /\ ib = m.ref[b]
  <2>1. m.ref[a] \in DOMAIN box[a] /\ m.ref[b] \in DOMAIN box[b]
    BY <1>1 DEF Filed
  <2>2. DOMAIN box[a] = 1..Len(box[a]) /\ DOMAIN box[b] = 1..Len(box[b])
    BY DEF ServerTyped
  <2>. QED  BY <2>1, <2>2
<1>3. /\ ia \in DOMAIN box[a] /\ box[a][ia] = g
      /\ ib \in DOMAIN box[b] /\ box[b][ib] = g
  BY <1>1, <1>2 DEF Filed
<1>4. dialog'[a][b] \in Dialog /\ dialog[a][b] \in Dialog /\ dialog[b][a] \in Dialog
  BY ReadDialogs DEF ServerTyped, DialogAfterRead
<1>5. dialog'[a][b].readOutboxMaxId >= dialog[a][b].readOutboxMaxId
  <2>1. dialog'[a][b].readOutboxMaxId =
          IF MarksOutbox(a, b, m2) THEN m2.ref[m2.from] ELSE dialog[a][b].readOutboxMaxId
    BY ReadDialogs DEF DialogAfterRead
  <2>2. dialog[a][b].readOutboxMaxId \in Nat /\ dialog'[a][b].readOutboxMaxId \in Nat
    BY <1>4 DEF Dialog
  <2>3. CASE MarksOutbox(a, b, m2)
    <3>1. dialog[a][b].readOutboxMaxId < m2.ref[m2.from]
      BY <2>3 DEF MarksOutbox
    <3>. HIDE DEF m2
    <3>. QED  BY <2>1, <2>2, <2>3, <3>1
  <2>. QED  BY <2>1, <2>2, <2>3
<1>6. CASE ~(b = u /\ a = p)
  <2>1. dialog'[b][a].readInboxMaxId = dialog[b][a].readInboxMaxId
    BY <1>6, ReadDialogs DEF DialogAfterRead
  <2>2. dialog[a][b].readOutboxMaxId >= ia
    BY <1>1, <1>2, <2>1 DEF ReadIsReported
  <2>3. dialog'[a][b].readOutboxMaxId >= ia
    BY <1>4, <1>5, <2>2 DEF Dialog
  <2>. QED  BY <1>1, <1>2, <2>3
<1>7. CASE b = u /\ a = p
  <2>0. maxId \in Nat /\ maxId \in DOMAIN box[u]
    BY ReadStep
  <2>1. dialog'[b][a].readInboxMaxId = maxId
    <3>1. DialogAfterRead(b, a, u, p, maxId, m2)
      BY ReadDialogs
    <3>. QED  BY <1>7, <3>1, Zenon DEF DialogAfterRead
  <2>2. maxId \in Incoming(b, a) /\ ib <= maxId
    BY <1>1, <1>2, <2>1
  <2>3. /\ g2 \in DOMAIN messages /\ m2 = messages[g2]
        /\ m2.from = p /\ m2.to = u
    <3>1. g2 \in DOMAIN messages /\ u \in {m2.from, m2.to} /\ m2 = messages[g2]
      BY <2>0, ReadMessageRight DEF ReadMessage
    <3>2. m2.from # u /\ DialogPeer(u, g2) = p
      BY <1>7, <2>2 DEF Incoming, DialogIds, ReadMessage
    <3>. QED  BY <3>1, <3>2 DEF DialogPeer
  <2>. DEFINE i2 == m2.ref[m2.from]
  <2>4. i2 \in DOMAIN box[a] /\ box[a][i2] = g2
    <3>1. a \in {messages[g2].from, messages[g2].to} /\ g2 \in DOMAIN messages
      BY <1>7, <2>3
    <3>2. messages[g2].ref[a] \in DOMAIN box[a] /\ box[a][messages[g2].ref[a]] = g2
      <4>. HIDE DEF g2
      <4>. QED  BY <3>1 DEF Filed
    <3>3. i2 = messages[g2].ref[a]
      BY <1>7, <2>3
    <3>. QED  BY <3>2, <3>3, Zenon
  <2>5. /\ box[a] \in Seq(Nat) /\ DOMAIN box[a] = 1..Len(box[a])
        /\ box[b] \in Seq(Nat) /\ DOMAIN box[b] = 1..Len(box[b])
    BY DEF ServerTyped
  <2>6. g <= g2
    <3>1. ib < maxId => box[b][ib] < box[b][maxId]
      BY <1>3, <1>7, <2>0, Zenon DEF Filed
    <3>2. box[b][ib] \in Nat /\ box[b][maxId] \in Nat
      <4>1. \A k \in DOMAIN box[b] : box[b][k] \in Nat
        BY <2>5
      <4>2. ib \in DOMAIN box[b] /\ maxId \in DOMAIN box[b]
        BY <1>3, <1>7, <2>0
      <4>. QED  BY <4>1, <4>2
    <3>3. ib < maxId \/ ib = maxId
      BY <2>0, <2>2
    <3>4. box[b][ib] = g /\ box[b][maxId] = g2
      BY <1>3, <1>7
    <3>. HIDE DEF g2
    <3>. QED  BY <3>1, <3>2, <3>3, <3>4
  <2>7. ia <= i2
    <3>0. i2 \in Nat /\ g \in Nat /\ g2 \in Nat
      <4>1. DOMAIN messages = 1..Len(messages)
        BY DEF ServerTyped
      <4>2. g \in DOMAIN messages /\ g2 \in DOMAIN messages
        BY <2>3
      <4>. HIDE DEF i2, g2
      <4>. QED  BY <2>4, <2>5, <4>1, <4>2
    <3>1. i2 < ia => box[a][i2] < box[a][ia]
      BY <1>3, <2>4 DEF Filed
    <3>. HIDE DEF i2, g2
    <3>. QED  BY <1>3, <2>4, <2>6, <3>0, <3>1
  <2>8. dialog'[a][b].readOutboxMaxId >= i2
    <3>1. dialog'[a][b].readOutboxMaxId =
            IF dialog[a][b].readOutboxMaxId < i2 THEN i2 ELSE dialog[a][b].readOutboxMaxId
      <4>1. DialogAfterRead(a, b, u, p, maxId, m2)
        BY ReadDialogs
      <4>. QED  BY <1>7, <2>3, <4>1 DEF DialogAfterRead, MarksOutbox
    <3>2. dialog[a][b].readOutboxMaxId \in Nat
      BY <1>4 DEF Dialog
    <3>. HIDE DEF i2
    <3>3. i2 \in Nat
      BY <2>4, <2>5
    <3>. QED  BY <3>1, <3>2, <3>3
  <2>. HIDE DEF i2
  <2>9. dialog'[a][b].readOutboxMaxId \in Nat /\ i2 \in Nat
    <3>1. dialog'[a][b].readOutboxMaxId \in Nat
      BY <1>4 DEF Dialog
    <3>2. i2 \in Nat
      BY <2>4, <2>5
    <3>. QED  BY <3>1, <3>2
  <2>10. dialog'[a][b].readOutboxMaxId >= ia
    BY <2>7, <2>8, <2>9
  <2>. QED  BY <1>1, <1>2, <2>10, Zenon
<1>. QED  BY <1>6, <1>7
-----------------------------------------------------------------------------
(***************************************************************************)
(* Pages of dialogs.                                                       *)
(***************************************************************************)
LEMMA ElemsFinite ==
  ASSUME NEW S, NEW seq \in Seq(S)
  PROVE  IsFiniteSet(Elems(seq)) /\ Elems(seq) \subseteq S
<1>1. DOMAIN seq = 1..Len(seq) /\ Len(seq) \in Nat /\ seq \in [1..Len(seq) -> S]
  OBVIOUS
<1>2. seq \in Surjection(1..Len(seq), Elems(seq))
  BY <1>1 DEF Surjection, Elems
<1>3. IsFiniteSet(1..Len(seq))
  BY <1>1, FS_Interval
<1>4. IsFiniteSet(Elems(seq))
  BY <1>2, <1>3, FS_Surjection
<1>. QED  BY <1>1, <1>4 DEF Elems

\* A sorted list shows no dialog twice, so it has as many dialogs as its length says.
LEMMA SortedCount ==
  ASSUME NEW list, NEW dialogs \in [Users -> Dialog], Sorted(list, dialogs)
  PROVE  Cardinality(Elems(list)) = Len(list)
<1>1. /\ list \in Seq(Users) /\ DOMAIN list = 1..Len(list) /\ Len(list) \in Nat
      /\ list \in [1..Len(list) -> Users]
  BY DEF Sorted
<1>2. ASSUME NEW i \in DOMAIN list, NEW j \in DOMAIN list, list[i] = list[j]
      PROVE  i = j
  <2>1. dialogs[list[i]] \in Dialog /\ dialogs[list[j]] \in Dialog
    BY <1>1
  <2>2. dialogs[list[i]].date \in Nat /\ dialogs[list[j]].date \in Nat
    BY <2>1 DEF Dialog
  <2>3. ~(i < j) /\ ~(j < i)
    BY <1>2, <2>2 DEF Sorted
  <2>. QED  BY <1>1, <2>3
<1>3. list \in Bijection(1..Len(list), Elems(list))
  BY <1>1, <1>2 DEF Bijection, Injection, Surjection, IsInjective, Elems
<1>4. ExistsBijection(1..Len(list), Elems(list))
  BY <1>3 DEF ExistsBijection
<1>5. IsFiniteSet(1..Len(list)) /\ Cardinality(1..Len(list)) = Len(list)
  BY <1>1, FS_Interval
<1>. QED  BY <1>4, <1>5, FS_Bijection

\* A page ends at the dialog with index m.
PageEnds(u, first, m) ==
  /\ m \in first..Len(order[u])
  /\ Page(u, first) # <<>>
  /\ Last(Page(u, first)) = order[u][m]
  /\ \A j \in first..m : order[u][j] \in Elems(Page(u, first))

\* A page is the part of the list from its first dialog on.
LEMMA PageShape ==
  ASSUME Ordered, NEW u \in Users, NEW first \in 1..(Len(order[u]) + 1)
  PROVE  /\ Page(u, first) \in Seq(Users)
         /\ first = Len(order[u]) + 1 => Page(u, first) = <<>>
         /\ first # Len(order[u]) + 1 => \E m : PageEnds(u, first, m)
<1>. DEFINE list == order[u]  n == Len(list)  page == Page(u, first)
            m == IF first + Slice - 1 > n THEN n ELSE first + Slice - 1
<1>0. list \in Seq(Users) /\ n \in Nat /\ Slice \in Nat /\ Slice >= 1 /\ first \in 1..(n + 1)
  BY MessagingAssumption DEF Ordered
<1>1. page = SubSeq(list, first, m)
  BY DEF Page
<1>2. m \in (first - 1)..n /\ m \in Int
  <2>. HIDE DEF n
  <2>. QED  BY <1>0
<1>. HIDE DEF page, list, m
<1>3. /\ page \in Seq(Users)
      /\ Len(page) = IF first <= m THEN m - first + 1 ELSE 0
      /\ \A i \in 1..(m - first + 1) : page[i] = list[first + i - 1]
  BY <1>0, <1>1, <1>2, SubSeqProperties DEF n
<1>. HIDE DEF n
<1>4. first = n + 1 => page = <<>>
  <2>1. first = n + 1 => Len(page) = 0
    BY <1>0, <1>2, <1>3
  <2>. QED  BY <1>3, <2>1
<1>5. ASSUME first # n + 1
      PROVE  PageEnds(u, first, m)
  <2>1. m \in first..n
    BY <1>0, <1>5 DEF m
  <2>2. Len(page) = m - first + 1 /\ Len(page) \in 1..Len(page) /\ DOMAIN page = 1..Len(page)
    BY <1>0, <1>3, <2>1
  <2>3. page[Len(page)] = list[m] /\ page # <<>>
    <3>1. m - first + 1 \in 1..(m - first + 1) /\ first + (m - first + 1) - 1 = m
      BY <1>0, <2>1
    <3>2. page[m - first + 1] = list[first + (m - first + 1) - 1]
      BY <1>3, <3>1
    <3>. QED  BY <2>2, <3>1, <3>2
  <2>4. \A j \in first..m : list[j] \in Elems(page)
    <3>. SUFFICES ASSUME NEW j \in first..m
         PROVE  list[j] \in Elems(page)
      OBVIOUS
    <3>1. j - first + 1 \in 1..(m - first + 1) /\ first + (j - first + 1) - 1 = j
      BY <1>0, <2>1
    <3>2. page[j - first + 1] = list[j]
      BY <1>3, <3>1
    <3>. QED  BY <2>2, <3>1, <3>2 DEF Elems
  <2>5. Last(page) = list[m]
    BY <2>3 DEF Last
  <2>. QED  BY <2>1, <2>3, <2>4, <2>5 DEF PageEnds, page, list, n
<1>. QED  BY <1>3, <1>4, <1>5 DEF page, list, n

\* What a page changes: what the session knows and where its paging stands.
PageTaken(s, page) ==
  LET u == Owner[s] IN
  /\ view'[s].since = view[s].since /\ view'[s].new = view[s].new
  /\ view'[s].pts = view[s].pts /\ view'[s].outbox = view[s].outbox
  /\ view'[s].maxPts = view[s].maxPts /\ view'[s].maxOutbox = view[s].maxOutbox
  /\ view'[s].known = view[s].known \cup Elems(page)
  /\ IF Cardinality(view'[s].known) >= Len(order[u]) THEN paging'[s].state = "done"
     ELSE IF page = <<>>
          THEN /\ paging'[s].state = "undefined"
               /\ paging'[s].offset = paging[s].offset /\ paging'[s].top = paging[s].top
          ELSE /\ paging'[s].state = "more" /\ paging'[s].offset = Last(page)
               /\ paging'[s].top = dialog[u][Last(page)].top
  /\ \A t \in Sessions \ {s} : view'[t] = view[t] /\ paging'[t] = paging[t]

\* A page is added to what the session knows, and the paging goes on or ends.
LEMMA PageEffect ==
  ASSUME ServerTyped, SessionsTyped, Ordered, NEW s \in Sessions,
         NEW page \in Seq(Users), PageReceived(s, page)
  PROVE  SessionsTyped' /\ PageTaken(s, page)
<1>. DEFINE u == Owner[s]  known == view[s].known \cup Elems(page)
            next == IF Cardinality(known) >= Len(order[u]) THEN [Idle EXCEPT !.state = "done"]
                    ELSE IF page = <<>> THEN [paging[s] EXCEPT !.state = "undefined"]
                    ELSE [state |-> "more", offset |-> Last(page),
                          top |-> dialog[u][Last(page)].top]
<1>0. /\ view \in [Sessions -> View] /\ paging \in [Sessions -> Paging] /\ u \in Users
      /\ view[s] \in View /\ paging[s] \in Paging
  BY MessagingAssumption DEF SessionsTyped
<1>1. /\ view' = [view EXCEPT ![s].known = known]
      /\ paging' = [paging EXCEPT ![s] = next]
      /\ active' = active
  BY DEF PageReceived
<1>2. known \in SUBSET Users
  BY <1>0, ElemsFinite DEF View
<1>. DEFINE v == [view[s] EXCEPT !.known = known]
<1>3. view' = [view EXCEPT ![s] = v]
  BY <1>1
<1>4. /\ v \in View /\ v.known = known /\ v.since = view[s].since /\ v.new = view[s].new
      /\ v.pts = view[s].pts /\ v.outbox = view[s].outbox
      /\ v.maxPts = view[s].maxPts /\ v.maxOutbox = view[s].maxOutbox
  <2>. HIDE DEF known
  <2>. QED  BY <1>0, <1>2 DEF View
<1>5. page # <<>> => Last(page) \in Users /\ dialog[u][Last(page)].top \in Nat
  <2>1. page # <<>> => Last(page) \in Users
    BY DEF Last
  <2>2. \A q \in Users : dialog[u][q] \in Dialog
    BY <1>0 DEF ServerTyped
  <2>. QED  BY <2>1, <2>2 DEF Dialog
<1>6. /\ next \in Paging
      /\ IF Cardinality(known) >= Len(order[u]) THEN next.state = "done"
         ELSE IF page = <<>>
              THEN /\ next.state = "undefined"
                   /\ next.offset = paging[s].offset /\ next.top = paging[s].top
              ELSE /\ next.state = "more" /\ next.offset = Last(page)
                   /\ next.top = dialog[u][Last(page)].top
  <2>. HIDE DEF known, u
  <2>1. CASE Cardinality(known) >= Len(order[u])
    <3>1. next = [state |-> "done", offset |-> None, top |-> 0]
      BY <2>1 DEF Idle
    <3>. QED  BY <2>1, <3>1 DEF Paging
  <2>2. CASE ~(Cardinality(known) >= Len(order[u])) /\ page = <<>>
    <3>1. next = [paging[s] EXCEPT !.state = "undefined"]
      BY <2>2
    <3>. HIDE DEF next
    <3>. QED  BY <1>0, <2>2, <3>1 DEF Paging
  <2>3. CASE ~(Cardinality(known) >= Len(order[u])) /\ page # <<>>
    <3>1. next = [state |-> "more", offset |-> Last(page), top |-> dialog[u][Last(page)].top]
      BY <2>3
    <3>. HIDE DEF next
    <3>. QED  BY <1>5, <2>3, <3>1 DEF Paging
  <2>. QED  BY <2>1, <2>2, <2>3
<1>. HIDE DEF v, next, known
<1>7. /\ view' \in [Sessions -> View] /\ view'[s] = v
      /\ \A t \in Sessions \ {s} : view'[t] = view[t]
  BY <1>0, <1>3, <1>4
<1>8. /\ paging' \in [Sessions -> Paging] /\ paging'[s] = next
      /\ \A t \in Sessions \ {s} : paging'[t] = paging[t]
  BY <1>0, <1>1, <1>6
<1>9. SessionsTyped'
  BY <1>1, <1>7, <1>8 DEF SessionsTyped
<1>10. PageTaken(s, page)
  BY <1>4, <1>6, <1>7, <1>8 DEF PageTaken, known
<1>. QED  BY <1>9, <1>10

\* A page adds finitely many dialogs.
LEMMA PageKeepsFinite ==
  ASSUME KnownFinite, NEW s \in Sessions, NEW page \in Seq(Users), PageTaken(s, page)
  PROVE  KnownFinite'
<1>1. IsFiniteSet(view[s].known) /\ IsFiniteSet(Elems(page))
  BY ElemsFinite DEF KnownFinite
<1>2. IsFiniteSet(view'[s].known)
  <2>1. IsFiniteSet(view[s].known \cup Elems(page))
    BY <1>1, FS_Union
  <2>2. view'[s].known = view[s].known \cup Elems(page)
    BY DEF PageTaken
  <2>. QED  BY <2>1, <2>2
<1>3. \A t \in Sessions \ {s} : IsFiniteSet(view'[t].known)
  BY DEF KnownFinite, PageTaken
<1>. QED  BY <1>2, <1>3 DEF KnownFinite

\* A page of a session that knows all dialogs before it.
LEMMA PageInOrder ==
  ASSUME ServerTyped, SessionsTyped, TopsRight, Ordered, KnownFinite, PagesRight,
         NEW s \in active, NEW first \in 1..(Len(order[Owner[s]]) + 1),
         \A j \in 1..Len(order[Owner[s]]) :
           j < first => order[Owner[s]][j] \in view[s].known,
         PageReceived(s, Page(Owner[s], first))
  PROVE  PagesRight'
<1>. DEFINE u == Owner[s]  list == order[u]  n == Len(list)  page == Page(u, first)
<1>0. /\ s \in Sessions /\ u \in Users /\ list \in Seq(Users) /\ n \in Nat
      /\ DOMAIN list = 1..n /\ first \in 1..(n + 1) /\ page \in Seq(Users)
  <2>1. s \in Sessions /\ u \in Users
    BY MessagingAssumption DEF SessionsTyped
  <2>2. list \in Seq(Users)
    BY <2>1 DEF Ordered
  <2>3. page \in Seq(Users)
    BY <2>1, PageShape
  <2>. QED  BY <2>1, <2>2, <2>3
<1>1. PageTaken(s, page) /\ dialog' = dialog /\ active' = active
  BY <1>0, PageEffect DEF PageReceived, serverVars
<1>2. Sorted(list, dialog[u]) /\ dialog[u] \in [Users -> Dialog]
  BY <1>0 DEF Ordered, ServerTyped
<1>3. KnownFinite'
  BY <1>0, <1>1, PageKeepsFinite
<1>4. view'[s].known = view[s].known \cup Elems(page)
  BY <1>1 DEF PageTaken
<1>5. CASE first = n + 1
  <2>1. Elems(list) \subseteq view'[s].known
    <3>1. \A j \in 1..n : list[j] \in view[s].known
      BY <1>0, <1>5
    <3>. HIDE DEF list, n
    <3>. QED  BY <1>0, <1>4, <3>1 DEF Elems
  <2>2. Cardinality(Elems(list)) <= Cardinality(view'[s].known)
    BY <1>0, <1>3, <2>1, FS_Subset DEF KnownFinite
  <2>3. Cardinality(Elems(list)) = n
    BY <1>2, SortedCount
  <2>4. Cardinality(view'[s].known) \in Nat
    BY <1>0, <1>3, FS_CardinalityType DEF KnownFinite
  <2>5. Cardinality(view'[s].known) >= n
    BY <1>0, <2>2, <2>3, <2>4
  <2>6. paging'[s].state = "done"
    BY <1>1, <2>5 DEF PageTaken
  <2>7. \A t \in Sessions \ {s} : view'[t] = view[t] /\ paging'[t] = paging[t]
    BY <1>1 DEF PageTaken
  <2>. QED  BY <1>1, <2>6, <2>7 DEF PagesRight
<1>6. CASE first # n + 1
  <2>1. PICK m : PageEnds(u, first, m)
    BY <1>0, <1>6, PageShape
  <2>2. /\ m \in first..n /\ page # <<>> /\ Last(page) = list[m]
        /\ \A j \in first..m : list[j] \in Elems(page)
    BY <2>1 DEF PageEnds
  <2>. DEFINE off == list[m]
  <2>3. off \in Users /\ off \in Elems(page) /\ dialog[u][off].top # 0 /\ m \in 1..n
    <3>1. m \in 1..n /\ m \in first..m
      BY <1>0, <2>2
    <3>2. list[m] \in Elems(list)
      BY <1>0, <3>1 DEF Elems
    <3>. QED  BY <1>2, <2>2, <3>1, <3>2 DEF Sorted
  <2>4. dialog[u][off] \in Dialog
    BY <1>2, <2>3
  <2>5. ASSUME NEW q \in Users, dialog[u][q].top # 0, dialog[u][q].date > dialog[u][off].date
        PROVE  q \in view'[s].known
    <3>1. PICK j \in 1..n : list[j] = q
      BY <1>0, <1>2, <2>5 DEF Sorted, Elems
    <3>2. dialog[u][q].date \in Nat /\ dialog[u][off].date \in Nat
      BY <1>2, <2>4, <2>5 DEF Dialog
    <3>3. ~(m < j) /\ j # m
      <4>1. m < j => dialog[u][list[m]].date > dialog[u][list[j]].date
        BY <1>0, <1>2, <2>3 DEF Sorted
      <4>. QED  BY <2>5, <3>1, <3>2, <4>1
    <3>4. j < m
      BY <1>0, <2>3, <3>3
    <3>5. CASE j < first
      BY <1>4, <3>1, <3>5
    <3>6. CASE ~(j < first)
      <4>1. j \in first..m
        BY <1>0, <2>2, <3>1, <3>4, <3>6
      <4>2. list[j] \in Elems(page)
        BY <2>2, <4>1
      <4>. QED  BY <1>4, <3>1, <4>2
    <3>. QED  BY <3>5, <3>6
  <2>6. \/ paging'[s].state = "done"
        \/ paging'[s].state = "more" /\ paging'[s].offset = off
           /\ paging'[s].top = dialog[u][off].top
    BY <1>1, <2>2 DEF PageTaken
  <2>7. \A t \in Sessions \ {s} : view'[t] = view[t] /\ paging'[t] = paging[t]
    BY <1>1 DEF PageTaken
  <2>8. dialog[u][off].top \in Nat /\ off \in view'[s].known
    BY <1>4, <2>3, <2>4 DEF Dialog
  <2>. HIDE DEF off
  <2>9. /\ paging'[s].state \in {"more", "undefined"} =>
             /\ s \in active /\ paging'[s].offset \in Users
             /\ paging'[s].offset \in view'[s].known
             /\ dialog[u][paging'[s].offset].top # 0 /\ paging'[s].top # 0
             /\ paging'[s].top <= dialog[u][paging'[s].offset].top
        /\ paging'[s].state = "more" =>
             \A q \in Users : dialog[u][q].top # 0
                  /\ dialog[u][q].date > dialog[u][paging'[s].offset].date
                                => q \in view'[s].known
        /\ paging'[s].state # "undefined"
    BY <2>3, <2>5, <2>6, <2>8
  <2>. QED  BY <1>1, <2>7, <2>9 DEF PagesRight
<1>. QED  BY <1>5, <1>6

\* The page after an offset that has moved is empty; the paging ends or reads the last
\* dialog of nothing.
LEMMA PageAfterMove ==
  ASSUME ServerTyped, SessionsTyped, Ordered, PagesRight, NEW s \in Sessions,
         paging[s].state = "more",
         paging[s].top # dialog[Owner[s]][paging[s].offset].top,
         PageReceived(s, Page(Owner[s], Len(order[Owner[s]]) + 1))
  PROVE  PagesRight'
<1>. DEFINE u == Owner[s]  off == paging[s].offset  first == Len(order[u]) + 1
<1>0. u \in Users /\ first \in 1..(Len(order[u]) + 1)
  <2>1. u \in Users
    BY MessagingAssumption
  <2>2. order[u] \in Seq(Users)
    BY <2>1 DEF Ordered
  <2>. QED  BY <2>1, <2>2
<1>1. Page(u, first) = <<>>
  BY <1>0, PageShape
<1>2. PageTaken(s, <<>>) /\ dialog' = dialog /\ active' = active
  <2>0. Page(u, first) \in Seq(Users) /\ PageReceived(s, Page(u, first))
    BY <1>0, PageShape
  <2>1. PICK page \in Seq(Users) : page = <<>> /\ PageReceived(s, page)
    <3>. HIDE DEF u, first
    <3>. QED  BY <1>1, <2>0
  <2>2. PageTaken(s, page)
    BY <2>1, PageEffect
  <2>3. dialog' = dialog /\ active' = active
    BY <2>1 DEF PageReceived, serverVars
  <2>. QED  BY <2>1, <2>2, <2>3
<1>3. /\ s \in active /\ off \in Users /\ off \in view[s].known
      /\ dialog[u][off].top # 0 /\ paging[s].top # 0
      /\ paging[s].top <= dialog[u][off].top
  BY DEF PagesRight
<1>4. paging[s].top \in Nat /\ dialog[u][off].top \in Nat
  <2>1. paging[s] \in Paging
    BY DEF SessionsTyped
  <2>2. dialog[u][off] \in Dialog
    BY <1>0, <1>3 DEF ServerTyped
  <2>. QED  BY <2>1, <2>2 DEF Paging, Dialog
<1>5. paging[s].top < dialog[u][off].top
  BY <1>3, <1>4
<1>6. \/ paging'[s].state = "done"
      \/ paging'[s].state = "undefined" /\ paging'[s].offset = off /\ paging'[s].top = paging[s].top
  BY <1>2 DEF PageTaken
<1>7. off \in view'[s].known
  BY <1>2, <1>3 DEF PageTaken
<1>8. \A t \in Sessions \ {s} : view'[t] = view[t] /\ paging'[t] = paging[t]
  BY <1>2 DEF PageTaken
<1>. HIDE DEF off
<1>9. /\ paging'[s].state \in {"more", "undefined"} =>
           /\ s \in active /\ paging'[s].offset \in Users
           /\ paging'[s].offset \in view'[s].known
           /\ dialog[u][paging'[s].offset].top # 0 /\ paging'[s].top # 0
           /\ paging'[s].top <= dialog[u][paging'[s].offset].top
      /\ paging'[s].state # "more"
      /\ paging'[s].state = "undefined" => paging'[s].top < dialog[u][paging'[s].offset].top
  BY <1>3, <1>5, <1>6, <1>7
<1>. QED  BY <1>2, <1>8, <1>9 DEF PagesRight

\* The next page starts right after the offset, so that all before it is known.
LEMMA MorePages ==
  ASSUME ServerTyped, SessionsTyped, TopsRight, Ordered, KnownFinite, PagesRight,
         NEW s \in Sessions, GetMoreDialogs(s)
  PROVE  PagesRight'
<1>. DEFINE u == Owner[s]  off == paging[s].offset  list == order[u]  n == Len(list)
            first == FromDialogIndex(u, off, paging[s].top)
<1>1. paging[s].state = "more" /\ PageReceived(s, Page(u, first))
  BY DEF GetMoreDialogs
<1>2. CASE paging[s].top # dialog[u][off].top
  <2>1. first = n + 1
    BY <1>2 DEF FromDialogIndex
  <2>. QED  BY <1>1, <1>2, <2>1, PageAfterMove
<1>3. CASE paging[s].top = dialog[u][off].top
  <2>0. u \in Users /\ Sorted(list, dialog[u]) /\ dialog[u] \in [Users -> Dialog]
    BY MessagingAssumption DEF Ordered, ServerTyped
  <2>1. /\ s \in active /\ off \in Users /\ off \in view[s].known /\ dialog[u][off].top # 0
        /\ \A q \in Users : dialog[u][q].top # 0 /\ dialog[u][q].date > dialog[u][off].date
                              => q \in view[s].known
    BY <1>1, <1>3 DEF PagesRight
  <2>2. list \in Seq(Users) /\ n \in Nat /\ DOMAIN list = 1..n
    BY <2>0 DEF Sorted
  <2>3. \E i \in DOMAIN list : list[i] = off
    BY <2>0, <2>1 DEF Sorted, Elems
  <2>4. PICK i : i = CHOOSE j \in DOMAIN list : list[j] = off
    OBVIOUS
  <2>5. i \in DOMAIN list /\ list[i] = off
    BY <2>3, <2>4
  <2>6. first = i + 1
    BY <1>3, <2>4 DEF FromDialogIndex
  <2>. HIDE DEF first, off
  <2>7. first \in 1..(n + 1)
    BY <2>2, <2>5, <2>6
  <2>8. ASSUME NEW j \in 1..n, j < first
        PROVE  list[j] \in view[s].known
    <3>1. j = i \/ j < i
      BY <2>2, <2>5, <2>6, <2>8
    <3>2. CASE j < i
      <4>1. dialog[u][list[j]].date > dialog[u][off].date
        BY <2>0, <2>2, <2>5, <3>2 DEF Sorted
      <4>2. list[j] \in Elems(list)
        BY <2>2 DEF Elems
      <4>3. list[j] \in Users /\ dialog[u][list[j]].top # 0
        BY <2>0, <4>2 DEF Sorted
      <4>. QED  BY <2>1, <4>1, <4>3
    <3>. QED  BY <2>1, <2>5, <3>1, <3>2
  <2>. QED  BY <1>1, <2>1, <2>7, <2>8, PageInOrder
<1>. QED  BY <1>2, <1>3

\* The first page starts with the newest dialog.
LEMMA FirstPages ==
  ASSUME ServerTyped, SessionsTyped, TopsRight, Ordered, KnownFinite, PagesRight,
         NEW s \in Sessions, GetDialogs(s)
  PROVE  PagesRight'
<1>1. s \in active /\ PageReceived(s, Page(Owner[s], 1))
  BY DEF GetDialogs
<1>2. Owner[s] \in Users
  BY MessagingAssumption
<1>3. order[Owner[s]] \in Seq(Users)
  BY <1>2 DEF Ordered
<1>4. 1 \in 1..(Len(order[Owner[s]]) + 1)
  BY <1>3
<1>5. \A j \in 1..Len(order[Owner[s]]) : j < 1 => order[Owner[s]][j] \in view[s].known
  BY <1>3
<1>. QED  BY <1>1, <1>4, <1>5, PageInOrder
-----------------------------------------------------------------------------
(***************************************************************************)
(* The invariant holds initially and every step preserves it.              *)
(***************************************************************************)
\* The part of the invariant about the server, which sessions do not change.
ServerInv ==
  ServerTyped /\ Filed /\ TopsRight /\ Ordered /\ UnreadCountsMessages /\ ReadIsReported

\* A step that leaves the servers alone keeps their part of the invariant.
LEMMA ServerKept ==
  ASSUME ServerInv, UNCHANGED serverVars
  PROVE  ServerInv'
<1>1. /\ messages' = messages /\ box' = box /\ pts' = pts /\ unread' = unread
      /\ order' = order /\ dialog' = dialog
  BY DEF serverVars
<1>2. ServerTyped' /\ Filed' /\ Ordered'
  BY <1>1 DEF ServerInv, ServerTyped, Filed, Ordered
<1>3. \A u, p : DialogIds(u, p)' = DialogIds(u, p)
  BY <1>1 DEF DialogIds, DialogPeer
<1>4. \A u, p : Incoming(u, p)' = Incoming(u, p)
  BY <1>1, <1>3 DEF Incoming
<1>5. TopsRight'
  BY <1>1, <1>3 DEF ServerInv, TopsRight
<1>6. UnreadCountsMessages'
  <2>1. \A u, p : UnreadIds(u, p)' = UnreadIds(u, p)
    BY <1>1, <1>4 DEF UnreadIds
  <2>2. \A u : AllUnreadIds(u)' = AllUnreadIds(u)
    BY <1>1 DEF AllUnreadIds, DialogPeer
  <2>3. \A u \in Users : /\ \A p \in Users : dialog[u][p].unread = Cardinality(UnreadIds(u, p))
                         /\ unread[u] = Cardinality(AllUnreadIds(u))
    BY UnreadByIds DEF ServerInv
  <2>4. UnreadCountsMessages' <=>
          \A u \in Users :
            /\ \A p \in Users : dialog'[u][p].unread = Cardinality(UnreadIds(u, p)')
            /\ unread'[u] = Cardinality(AllUnreadIds(u)')
    BY DEF UnreadCountsMessages, UnreadIds, AllUnreadIds
  <2>. QED  BY <1>1, <2>1, <2>2, <2>3, <2>4
<1>7. ReadIsReported'
  BY <1>1, <1>3, <1>4 DEF ServerInv, ReadIsReported
<1>. QED  BY <1>2, <1>5, <1>6, <1>7 DEF ServerInv

\* The part about the sessions.
SessionsInv ==
  SessionsTyped /\ SinceRight /\ KnownFinite /\ PagesRight
    /\ EveryMessageToldOnce /\ SessionsUpToDate

\* The invariant in two parts, of the servers and of the sessions.
LEMMA InvParts == MessagingInv <=> ServerInv /\ SessionsInv
  BY DEF MessagingInv, ServerInv, SessionsInv

\* The invariant holds for empty post boxes without sessions.
LEMMA InvInit == Init => MessagingInv
<1>. SUFFICES ASSUME Init PROVE ServerInv /\ SessionsInv
  BY InvParts
<1>1. EmptyDialog \in Dialog
  BY DEF EmptyDialog, Dialog
<1>2. ServerTyped
  BY <1>1 DEF Init, ServerTyped
<1>3. \A u \in Users : DOMAIN box[u] = {} /\ order[u] = <<>> /\ box[u] = <<>>
  BY DEF Init
<1>4. \A u, p \in Users : DialogIds(u, p) = {} /\ Incoming(u, p) = {}
  BY <1>3 DEF DialogIds, Incoming
<1>5. Filed
  BY <1>3 DEF Init, Filed
<1>6. TopsRight
  BY <1>4 DEF Init, TopsRight, EmptyDialog
<1>7. Ordered
  <2>1. \A u \in Users : Sorted(order[u], dialog[u])
    BY <1>3 DEF Init, Sorted, Elems, EmptyDialog
  <2>2. order \in [Users -> Seq(Users)]
    BY DEF Init
  <2>. QED  BY <2>1, <2>2 DEF Ordered
<1>8. UnreadCountsMessages
  <2>1. \A u, p \in Users : UnreadIds(u, p) = {} /\ AllUnreadIds(u) = {}
    BY <1>3, <1>4 DEF UnreadIds, AllUnreadIds
  <2>2. \A u, p \in Users : dialog[u][p].unread = 0 /\ unread[u] = 0
    BY DEF Init, EmptyDialog
  <2>3. Cardinality({}) = 0
    BY FS_EmptySet
  <2>. QED  BY <2>1, <2>2, <2>3, UnreadByIds
<1>9. ReadIsReported
  BY DEF Init, ReadIsReported
<1>10. NoView \in View /\ Idle \in Paging
  <2>1. [p \in Users |-> 0] \in [Users -> Nat] /\ <<>> \in Seq(Nat) /\ {} \in SUBSET Users
    OBVIOUS
  <2>2. NoView \in View
    BY <2>1 DEF NoView, View
  <2>. QED  BY <2>2 DEF Idle, Paging
<1>11. SessionsTyped /\ KnownFinite
  <2>1. SessionsTyped
    BY <1>10 DEF Init, SessionsTyped
  <2>2. \A s \in Sessions : view[s].known = {}
    BY DEF Init, NoView
  <2>. QED  BY <2>1, <2>2, FS_EmptySet DEF KnownFinite
<1>12. SinceRight /\ PagesRight /\ EveryMessageToldOnce /\ SessionsUpToDate
  <2>1. \A s \in Sessions : paging[s].state = "idle"
    BY DEF Init, Idle
  <2>2. active = {}
    BY DEF Init
  <2>. QED  BY <2>1, <2>2 DEF SinceRight, PagesRight, EveryMessageToldOnce, SessionsUpToDate
<1>. QED  BY <1>2, <1>5, <1>6, <1>7, <1>8, <1>9, <1>11, <1>12 DEF ServerInv, SessionsInv

\* A session that connects knows nothing and has missed nothing.
LEMMA InvConnect ==
  ASSUME ServerInv, SessionsInv, NEW s \in Sessions, Connect(s)
  PROVE  SessionsInv'
<1>. DEFINE u == Owner[s]
            marks == [p \in Users |-> dialog[u][p].readOutboxMaxId]
            v == [since |-> Len(box[u]), new |-> <<>>, known |-> {}, pts |-> pts[u],
                  maxPts |-> pts[u], outbox |-> marks, maxOutbox |-> marks]
<1>0. /\ u \in Users /\ s \notin active /\ active \subseteq Sessions
      /\ view \in [Sessions -> View] /\ paging \in [Sessions -> Paging]
      /\ Len(box[u]) \in Nat
  <2>1. u \in Users
    BY MessagingAssumption
  <2>2. s \notin active
    BY DEF Connect
  <2>3. /\ active \subseteq Sessions
        /\ view \in [Sessions -> View] /\ paging \in [Sessions -> Paging]
    BY DEF SessionsInv, SessionsTyped
  <2>4. Len(box[u]) \in Nat
    BY <2>1 DEF ServerInv, ServerTyped
  <2>. QED  BY <2>1, <2>2, <2>3, <2>4
<1>1. /\ active' = active \cup {s} /\ view' = [view EXCEPT ![s] = v]
      /\ paging' = paging /\ box' = box /\ pts' = pts /\ dialog' = dialog
  BY DEF Connect, serverVars
<1>2. v \in View
  <2>1. \A p \in Users : dialog[u][p].readOutboxMaxId \in Nat
    <3>1. \A p \in Users : dialog[u][p] \in Dialog
      BY <1>0 DEF ServerInv, ServerTyped
    <3>. QED  BY <3>1 DEF Dialog
  <2>2. Len(box[u]) \in Nat /\ pts[u] \in Nat
    BY <1>0 DEF ServerInv, ServerTyped
  <2>3. <<>> \in Seq(Nat) /\ {} \in SUBSET Users
    OBVIOUS
  <2>. QED  BY <2>1, <2>2, <2>3 DEF View
<1>3. /\ v.since = Len(box[u]) /\ v.new = <<>> /\ v.known = {}
      /\ v.pts = pts[u] /\ v.maxPts = pts[u]
      /\ \A p \in Users : /\ v.outbox[p] = dialog[u][p].readOutboxMaxId
                         /\ v.maxOutbox[p] = dialog[u][p].readOutboxMaxId
  OBVIOUS
<1>. HIDE DEF v
<1>4. /\ view' \in [Sessions -> View] /\ view'[s] = v
      /\ \A t \in Sessions \ {s} : view'[t] = view[t]
  BY <1>0, <1>1, <1>2
<1>5. SessionsTyped'
  BY <1>0, <1>1, <1>4 DEF SessionsTyped
<1>6. KnownFinite'
  <2>1. IsFiniteSet(view'[s].known)
    BY <1>3, <1>4, FS_EmptySet
  <2>. QED  BY <1>4, <2>1 DEF SessionsInv, KnownFinite
<1>7. SinceRight'
  BY <1>0, <1>1, <1>3, <1>4 DEF SessionsInv, SinceRight
<1>8. EveryMessageToldOnce'
  <2>1. ASSUME NEW t \in active'
        PROVE  view'[t].new = [i \in 1..(Len(box'[Owner[t]]) - view'[t].since) |->
                                 view'[t].since + i]
    <3>1. CASE t = s
      <4>1. view'[t].new = <<>> /\ Len(box'[Owner[t]]) - view'[t].since = 0
        BY <1>0, <1>1, <1>3, <1>4, <3>1
      <4>2. 1..0 = {}
        OBVIOUS
      <4>. QED  BY <4>1, <4>2
    <3>2. CASE t # s
      <4>1. t \in active /\ view'[t] = view[t]
        BY <1>0, <1>1, <1>4, <2>1, <3>2
      <4>. QED  BY <1>1, <4>1 DEF SessionsInv, EveryMessageToldOnce
    <3>. QED  BY <3>1, <3>2
  <2>. QED  BY <2>1 DEF EveryMessageToldOnce
<1>9. SessionsUpToDate'
  BY <1>0, <1>1, <1>3, <1>4 DEF SessionsInv, SessionsUpToDate
<1>10. PagesRight'
  <2>1. paging[s].state \notin {"more", "undefined"}
    BY <1>0 DEF SessionsInv, PagesRight
  <2>. QED  BY <1>1, <1>4, <2>1 DEF SessionsInv, PagesRight
<1>. QED  BY <1>5, <1>6, <1>7, <1>8, <1>9, <1>10 DEF SessionsInv

\* A session that disconnects is no longer spoken of.
LEMMA InvDisconnect ==
  ASSUME ServerInv, SessionsInv, NEW s \in Sessions, Disconnect(s)
  PROVE  SessionsInv'
<1>0. /\ active \subseteq Sessions
      /\ view \in [Sessions -> View] /\ paging \in [Sessions -> Paging]
  BY DEF SessionsInv, SessionsTyped
<1>1. /\ active' = active \ {s} /\ view' = [view EXCEPT ![s] = NoView]
      /\ paging' = [paging EXCEPT ![s] = Idle]
      /\ box' = box /\ pts' = pts /\ dialog' = dialog
  BY DEF Disconnect, serverVars
<1>2. NoView \in View /\ Idle \in Paging /\ NoView.known = {} /\ Idle.state = "idle"
  BY DEF NoView, View, Idle, Paging
<1>3. /\ view' \in [Sessions -> View] /\ view'[s] = NoView
      /\ \A t \in Sessions \ {s} : view'[t] = view[t]
  BY <1>0, <1>1, <1>2
<1>4. /\ paging' \in [Sessions -> Paging] /\ paging'[s] = Idle
      /\ \A t \in Sessions \ {s} : paging'[t] = paging[t]
  BY <1>0, <1>1, <1>2
<1>5. SessionsTyped'
  BY <1>0, <1>1, <1>3, <1>4 DEF SessionsTyped
<1>6. KnownFinite'
  <2>1. IsFiniteSet(view'[s].known)
    BY <1>2, <1>3, FS_EmptySet
  <2>. QED  BY <1>3, <2>1 DEF SessionsInv, KnownFinite
<1>7. \A t \in active' : t \in active /\ view'[t] = view[t]
  BY <1>0, <1>1, <1>3
<1>8. SinceRight' /\ EveryMessageToldOnce'
  BY <1>1, <1>7 DEF SessionsInv, SinceRight, EveryMessageToldOnce
<1>9. SessionsUpToDate'
  BY <1>1, <1>7 DEF SessionsInv, SessionsUpToDate
<1>10. PagesRight'
  BY <1>1, <1>2, <1>3, <1>4 DEF SessionsInv, PagesRight
<1>. QED  BY <1>5, <1>6, <1>8, <1>9, <1>10 DEF SessionsInv

\* A page changes one session only.
LEMMA InvPage ==
  ASSUME ServerInv, SessionsInv, NEW s \in Sessions, NEW page \in Seq(Users),
         PageReceived(s, page), PagesRight'
  PROVE  SessionsInv'
<1>1. active' = active /\ box' = box /\ pts' = pts /\ dialog' = dialog /\ active \subseteq Sessions
  BY DEF PageReceived, serverVars, SessionsInv, SessionsTyped
<1>2. SessionsTyped' /\ PageTaken(s, page)
  BY PageEffect DEF ServerInv, SessionsInv
<1>3. KnownFinite'
  BY <1>2, PageKeepsFinite DEF SessionsInv
<1>4. \A t \in Sessions : /\ view'[t].since = view[t].since /\ view'[t].new = view[t].new
                          /\ view'[t].pts = view[t].pts /\ view'[t].outbox = view[t].outbox
                          /\ view'[t].maxPts = view[t].maxPts
                          /\ view'[t].maxOutbox = view[t].maxOutbox
  BY <1>2 DEF PageTaken
<1>5. SinceRight' /\ EveryMessageToldOnce'
  BY <1>1, <1>4 DEF SessionsInv, SinceRight, EveryMessageToldOnce
<1>6. SessionsUpToDate'
  BY <1>1, <1>4 DEF SessionsInv, SessionsUpToDate
<1>. QED  BY <1>2, <1>3, <1>5, <1>6 DEF SessionsInv

\* sendMessage keeps the invariant.
LEMMA InvSend ==
  ASSUME ServerInv, SessionsInv, NEW s \in Sessions, NEW to \in Users, SendMessage(s, to)
  PROVE  ServerInv' /\ SessionsInv'
<1>1. ServerTyped /\ Filed /\ TopsRight /\ Ordered /\ UnreadCountsMessages /\ ReadIsReported
  BY DEF ServerInv
<1>2. SessionsTyped /\ SinceRight /\ KnownFinite /\ PagesRight
      /\ EveryMessageToldOnce /\ SessionsUpToDate
  BY DEF SessionsInv
<1>3. ServerTyped' /\ Filed' /\ TopsRight'
  BY <1>1, SendTyped, SendFiled, SendTops
<1>4. Ordered' /\ UnreadCountsMessages' /\ ReadIsReported'
  BY <1>1, SendOrdered, SendUnread, SendReported
<1>5. SessionsTyped' /\ SinceRight' /\ EveryMessageToldOnce'
  BY <1>1, <1>2, SendSessionsTyped, SendTold
<1>6. SessionsUpToDate' /\ PagesRight'
  BY <1>1, <1>2, SendUpToDate, SendPages
<1>7. KnownFinite'
  <2>1. ASSUME NEW t \in Sessions
        PROVE  IsFiniteSet(view'[t].known)
    <3>0. IsFiniteSet(view[t].known)
      BY <1>2 DEF KnownFinite
    <3>1. CASE t \in active /\ Owner[t] \in {Owner[s], to}
      <4>1. Hears(t, PeerOf(Owner[t], Owner[s], to))
        BY <1>2, <3>1, SendViews
      <4>2. view'[t].known = view[t].known \cup {PeerOf(Owner[t], Owner[s], to)}
        BY <4>1 DEF Hears
      <4>. QED  BY <3>0, <4>2, FS_AddElement
    <3>2. CASE ~(t \in active /\ Owner[t] \in {Owner[s], to})
      <4>1. view'[t] = view[t]
        BY <3>2, SendViewsOther
      <4>. QED  BY <3>0, <4>1
    <3>. QED  BY <3>1, <3>2
  <2>. QED  BY <2>1 DEF KnownFinite
<1>. QED  BY <1>3, <1>4, <1>5, <1>6, <1>7 DEF ServerInv, SessionsInv

\* readHistory keeps the invariant.
LEMMA InvRead ==
  ASSUME ServerInv, SessionsInv, NEW s \in Sessions, NEW p \in Users, NEW maxId,
         ReadHistory(s, p, maxId)
  PROVE  ServerInv' /\ SessionsInv'
<1>1. ServerTyped /\ Filed /\ TopsRight /\ Ordered /\ UnreadCountsMessages /\ ReadIsReported
  BY DEF ServerInv
<1>2. SessionsTyped /\ SinceRight /\ KnownFinite /\ PagesRight
      /\ EveryMessageToldOnce /\ SessionsUpToDate
  BY DEF SessionsInv
<1>3. Filed' /\ TopsRight' /\ Ordered'
  BY <1>1, ReadTops
<1>4. UnreadCountsMessages' /\ ReadIsReported'
  BY <1>1, ReadUnread, ReadReported
<1>5. ServerTyped'
  <2>1. dialog' \in [Users -> [Users -> Dialog]]
    BY <1>1, ReadDialogs
  <2>2. unread' \in [Users -> Nat]
    BY <1>1, ReadUnread
  <2>3. pts' \in [Users -> Nat]
    BY <1>1, <1>2, ReadMarked
  <2>4. messages' = messages /\ box' = box
    BY ReadKeeps
  <2>. QED  BY <1>1, <2>1, <2>2, <2>3, <2>4 DEF ServerTyped
<1>6. SessionsTyped' /\ SinceRight' /\ EveryMessageToldOnce' /\ PagesRight'
  BY <1>1, <1>2, ReadSessions
<1>7. SessionsUpToDate'
  BY <1>1, <1>2, ReadUpToDate
<1>8. KnownFinite'
  <2>1. \A t \in active : view'[t].known = view[t].known
    BY <1>1, <1>2, ReadMarked DEF ToldOfRead
  <2>2. \A t \in Sessions \ active : view'[t] = view[t]
    BY <1>1, <1>2, ReadMarked
  <2>. QED  BY <1>2, <2>1, <2>2 DEF KnownFinite
<1>. QED  BY <1>3, <1>4, <1>5, <1>6, <1>7, <1>8 DEF ServerInv, SessionsInv

\* A reply that there is nothing new to read repeats the pts.
LEMMA InvReadAgain ==
  ASSUME ServerInv, SessionsInv, NEW s \in Sessions, NEW p \in Users, ReadHistoryAgain(s, p)
  PROVE  SessionsInv'
<1>. DEFINE u == Owner[s]  n == pts[u]
            v == [view[s] EXCEPT !.pts = n, !.maxPts = Larger(@, n)]
<1>0. /\ active \subseteq Sessions /\ s \in active /\ u \in Users
      /\ view \in [Sessions -> View] /\ paging \in [Sessions -> Paging]
      /\ view[s] \in View /\ n \in Nat
  BY MessagingAssumption DEF ReadHistoryAgain, SessionsInv, SessionsTyped, ServerInv, ServerTyped
<1>1. /\ active' = active /\ paging' = paging /\ view' = [view EXCEPT ![s] = v]
      /\ box' = box /\ pts' = pts /\ dialog' = dialog
  BY DEF ReadHistoryAgain, serverVars
<1>2. KnowsState(s)
  BY <1>0, AllKnow DEF SessionsInv
<1>3. Larger(view[s].maxPts, n) = n
  BY <1>0, <1>2, LargerOf DEF KnowsState
<1>4. v = [view[s] EXCEPT !.pts = n, !.maxPts = n]
  BY <1>3
<1>. HIDE DEF v
<1>5. /\ v \in View /\ v.pts = n /\ v.maxPts = n
      /\ v.since = view[s].since /\ v.new = view[s].new /\ v.known = view[s].known
      /\ v.outbox = view[s].outbox /\ v.maxOutbox = view[s].maxOutbox
  <2>. HIDE DEF n
  <2>. QED  BY <1>0, <1>4 DEF View
<1>6. /\ view' \in [Sessions -> View] /\ view'[s] = v
      /\ \A t \in Sessions \ {s} : view'[t] = view[t]
  BY <1>0, <1>1, <1>5
<1>7. \A t \in Sessions : /\ view'[t].since = view[t].since /\ view'[t].new = view[t].new
                          /\ view'[t].known = view[t].known
  BY <1>5, <1>6
<1>8. SessionsTyped' /\ KnownFinite'
  BY <1>0, <1>1, <1>6, <1>7 DEF SessionsInv, SessionsTyped, KnownFinite
<1>9. SinceRight' /\ EveryMessageToldOnce'
  BY <1>0, <1>1, <1>7 DEF SessionsInv, SinceRight, EveryMessageToldOnce
<1>10. PagesRight'
  BY <1>1, <1>7 DEF SessionsInv, PagesRight
<1>11. SessionsUpToDate'
  <2>1. KnowsState(s)'
    BY <1>1, <1>2, <1>5, <1>6 DEF KnowsState
  <2>2. \A t \in active \ {s} : KnowsState(t)'
    BY <1>0, <1>1, <1>6, AllKnow DEF SessionsInv, KnowsState
  <2>3. SessionsUpToDate' <=> \A t \in active' : KnowsState(t)'
    BY DEF SessionsUpToDate, KnowsState
  <2>. QED  BY <1>1, <2>1, <2>2, <2>3
<1>. QED  BY <1>8, <1>9, <1>10, <1>11 DEF SessionsInv

\* Without a process there are no sessions.
LEMMA InvCrash ==
  ASSUME ServerInv, SessionsInv, ReadHistoryUnknown
  PROVE  SessionsInv'
<1>1. /\ active' = {} /\ view' = [t \in Sessions |-> NoView]
      /\ paging' = [t \in Sessions |-> Idle]
  BY DEF ReadHistoryUnknown
<1>2. NoView \in View /\ Idle \in Paging /\ NoView.known = {} /\ Idle.state = "idle"
  BY DEF NoView, View, Idle, Paging
<1>3. SessionsTyped' /\ KnownFinite'
  BY <1>1, <1>2, FS_EmptySet DEF SessionsTyped, KnownFinite
<1>4. SinceRight' /\ EveryMessageToldOnce' /\ SessionsUpToDate' /\ PagesRight'
  BY <1>1, <1>2 DEF SinceRight, EveryMessageToldOnce, SessionsUpToDate, PagesRight
<1>. QED  BY <1>3, <1>4 DEF SessionsInv

\* Every step keeps the invariant.
LEMMA InvNext == MessagingInv /\ [Next]_vars => MessagingInv'
<1>. SUFFICES ASSUME ServerInv, SessionsInv, [Next]_vars
     PROVE  ServerInv' /\ SessionsInv'
  BY DEF MessagingInv, ServerInv, SessionsInv
<1>0. /\ ServerTyped /\ TopsRight /\ Ordered
      /\ SessionsTyped /\ KnownFinite /\ PagesRight
  BY DEF ServerInv, SessionsInv
<1>1. CASE UNCHANGED vars
  <2>1. UNCHANGED serverVars /\ active' = active /\ view' = view /\ paging' = paging
    BY <1>1 DEF vars, serverVars
  <2>2. ServerInv'
    BY <2>1, ServerKept
  <2>3. box' = box /\ pts' = pts /\ dialog' = dialog
    BY <2>1 DEF serverVars
  <2>4. SessionsInv'
    BY <2>1, <2>3 DEF SessionsInv, SessionsTyped, SinceRight, KnownFinite, PagesRight,
                      EveryMessageToldOnce, SessionsUpToDate
  <2>. QED  BY <2>2, <2>4
<1>2. ASSUME NEW s \in Sessions, Connect(s)
      PROVE  ServerInv' /\ SessionsInv'
  BY <1>2, InvConnect, ServerKept DEF Connect
<1>3. ASSUME NEW s \in Sessions, Disconnect(s)
      PROVE  ServerInv' /\ SessionsInv'
  BY <1>3, InvDisconnect, ServerKept DEF Disconnect
<1>4. ASSUME NEW s \in Sessions, NEW to \in Users, SendMessage(s, to)
      PROVE  ServerInv' /\ SessionsInv'
  BY <1>4, InvSend
<1>5. ASSUME NEW s \in Sessions, NEW p \in Users, NEW maxId, ReadHistory(s, p, maxId)
      PROVE  ServerInv' /\ SessionsInv'
  BY <1>5, InvRead
<1>6. ASSUME NEW s \in Sessions, GetDialogs(s)
      PROVE  ServerInv' /\ SessionsInv'
  <2>1. PageReceived(s, Page(Owner[s], 1))
    BY <1>6 DEF GetDialogs
  <2>2. Page(Owner[s], 1) \in Seq(Users)
    <3>1. Owner[s] \in Users /\ order[Owner[s]] \in Seq(Users)
      BY <1>0, MessagingAssumption DEF Ordered
    <3>2. 1 \in 1..(Len(order[Owner[s]]) + 1)
      BY <3>1
    <3>. QED  BY <1>0, <3>1, <3>2, PageShape
  <2>3. PagesRight'
    BY <1>0, <1>6, FirstPages
  <2>4. ServerInv'
    BY <2>1, ServerKept DEF PageReceived
  <2>. QED  BY <2>1, <2>2, <2>3, <2>4, InvPage
<1>7. ASSUME NEW s \in Sessions, GetMoreDialogs(s)
      PROVE  ServerInv' /\ SessionsInv'
  <2>. DEFINE u == Owner[s]  first == FromDialogIndex(u, paging[s].offset, paging[s].top)
  <2>1. PageReceived(s, Page(u, first)) /\ paging[s].state = "more"
    BY <1>7 DEF GetMoreDialogs
  <2>2. Page(u, first) \in Seq(Users)
    <3>1. u \in Users /\ order[u] \in Seq(Users)
      BY <1>0, MessagingAssumption DEF Ordered
    <3>2. first \in 1..(Len(order[u]) + 1)
      <4>1. CASE dialog[u][paging[s].offset].top # paging[s].top
        BY <3>1, <4>1 DEF FromDialogIndex
      <4>2. CASE dialog[u][paging[s].offset].top = paging[s].top
        <5>1. paging[s].offset \in Users /\ dialog[u][paging[s].offset].top # 0
          BY <1>0, <2>1 DEF PagesRight
        <5>2. Sorted(order[u], dialog[u])
          BY <1>0, <3>1 DEF Ordered
        <5>3. \E i \in DOMAIN order[u] : order[u][i] = paging[s].offset
          BY <5>1, <5>2 DEF Sorted, Elems
        <5>4. PICK i : i = CHOOSE j \in DOMAIN order[u] : order[u][j] = paging[s].offset
          OBVIOUS
        <5>5. i \in DOMAIN order[u]
          BY <5>3, <5>4
        <5>6. first = i + 1
          BY <4>2, <5>4 DEF FromDialogIndex
        <5>. HIDE DEF first
        <5>. QED  BY <3>1, <5>5, <5>6
      <4>. QED  BY <4>1, <4>2
    <3>. HIDE DEF first
    <3>. QED  BY <1>0, <3>1, <3>2, PageShape
  <2>3. PagesRight'
    BY <1>0, <1>7, MorePages
  <2>4. ServerInv'
    BY <2>1, ServerKept DEF PageReceived
  <2>. HIDE DEF first
  <2>. QED  BY <2>1, <2>2, <2>3, <2>4, InvPage
<1>8. ASSUME NEW s \in Sessions, NEW p \in Users, ReadHistoryAgain(s, p)
      PROVE  ServerInv' /\ SessionsInv'
  BY <1>8, InvReadAgain, ServerKept DEF ReadHistoryAgain
<1>9. ASSUME ReadHistoryUnknown
      PROVE  ServerInv' /\ SessionsInv'
  BY <1>9, InvCrash, ServerKept DEF ReadHistoryUnknown
<1>. QED  BY <1>1, <1>2, <1>3, <1>4, <1>5, <1>6, <1>7, <1>8, <1>9 DEF Next
-----------------------------------------------------------------------------
(***************************************************************************)
(* The theorems.                                                           *)
(***************************************************************************)
\* The inductive invariant: post boxes, messages and dialogs agree, dialogs are in
\* order, and sessions and their paging know what they should.
THEOREM MessagingInvariant == Spec => []MessagingInv
<1>1. Init => MessagingInv
  BY InvInit
<1>2. MessagingInv /\ [Next]_vars => MessagingInv'
  BY InvNext
<1>. QED  BY <1>1, <1>2, PTL DEF Spec

\* The unread counters that sending and reading keep (bumpDialogUnreadCount,
\* runReadHistory) are the numbers of unread messages.
THEOREM UnreadExact == Spec => []UnreadCountsMessages
<1>1. MessagingInv => UnreadCountsMessages
  BY DEF MessagingInv
<1>. QED  BY <1>1, MessagingInvariant, PTL

\* The dialog list that ensureDialog and syncDialogsOrder keep shows every peer with a
\* message once, the newest first.
THEOREM DialogsInOrder == Spec => []NewestDialogFirst
<1>1. ASSUME MessagingInv
      PROVE  NewestDialogFirst
  <2>0. ServerTyped /\ TopsRight /\ Ordered
    BY <1>1 DEF MessagingInv
  <2>. SUFFICES ASSUME NEW u \in Users
       PROVE  /\ Elems(order[u]) = {p \in Users : DialogIds(u, p) # {}}
              /\ \A i, j \in DOMAIN order[u] : i < j =>
                   box[u][dialog[u][order[u][i]].top] > box[u][dialog[u][order[u][j]].top]
              /\ \A p \in Elems(order[u]) : \A id \in DialogIds(u, p) : id <= dialog[u][p].top
    BY DEF NewestDialogFirst
  <2>1. Sorted(order[u], dialog[u])
    BY <2>0 DEF Ordered
  <2>2. ASSUME NEW p \in Users
        PROVE  dialog[u][p].top # 0 <=> DialogIds(u, p) # {}
    <3>1. dialog[u][p].top # 0 => DialogIds(u, p) # {}
      BY <2>0 DEF TopsRight
    <3>2. ASSUME NEW id \in DialogIds(u, p)
          PROVE  dialog[u][p].top # 0
      <4>1. DOMAIN box[u] = 1..Len(box[u]) /\ id \in DOMAIN box[u]
        BY <2>0 DEF ServerTyped, DialogIds
      <4>2. id <= dialog[u][p].top
        BY <2>0 DEF TopsRight
      <4>. QED  BY <4>1, <4>2
    <3>. QED  BY <3>1, <3>2
  <2>3. Elems(order[u]) = {p \in Users : DialogIds(u, p) # {}}
    BY <2>1, <2>2 DEF Sorted
  <2>4. \A i \in DOMAIN order[u] :
          dialog[u][order[u][i]].date = box[u][dialog[u][order[u][i]].top]
    <3>1. \A i \in DOMAIN order[u] : order[u][i] \in Elems(order[u])
      BY DEF Elems
    <3>2. \A p \in Elems(order[u]) : p \in Users /\ dialog[u][p].top # 0
      BY <2>1 DEF Sorted
    <3>3. \A p \in Users : dialog[u][p].top # 0 => dialog[u][p].date = box[u][dialog[u][p].top]
      BY <2>0 DEF TopsRight
    <3>. QED  BY <3>1, <3>2, <3>3
  <2>5. \A i, j \in DOMAIN order[u] : i < j =>
          box[u][dialog[u][order[u][i]].top] > box[u][dialog[u][order[u][j]].top]
    BY <2>1, <2>4 DEF Sorted
  <2>6. \A p \in Elems(order[u]) : \A id \in DialogIds(u, p) : id <= dialog[u][p].top
    BY <2>0, <2>3 DEF TopsRight
  <2>. QED  BY <2>3, <2>5, <2>6
<1>. QED  BY <1>1, MessagingInvariant, PTL

\* A session that stays connected is told of every message of its user once and in
\* order (submitMessageData, queueUpdates).
THEOREM ToldExactlyOnce == Spec => []EveryMessageToldOnce
<1>1. MessagingInv => EveryMessageToldOnce
  BY DEF MessagingInv
<1>. QED  BY <1>1, MessagingInvariant, PTL

\* No session is left behind the pts and the read marks of its user, and what it was
\* told last is older only when a server has queued a read twice (queueServerUpdates).
THEOREM NoSessionBehind == Spec => []SessionsUpToDate
<1>1. MessagingInv => SessionsUpToDate
  BY DEF MessagingInv
<1>. QED  BY <1>1, MessagingInvariant, PTL

\* What a recipient has read is marked for the sender, when the id it was read up to
\* is that of a message of the sender (runReadHistory, reportMessageRead).
THEOREM ReadsReported == Spec => []ReadIsReported
<1>1. MessagingInv => ReadIsReported
  BY DEF MessagingInv
<1>. QED  BY <1>1, MessagingInvariant, PTL

\* Paging through the dialogs misses none, and reads the last dialog of an empty page
\* only when the offset dialog has moved (runGetDialogs, onGetDialogsFinished).
THEOREM NothingSkipped == Spec => []PagingSkipsNothing
<1>1. ASSUME MessagingInv
      PROVE  PagingSkipsNothing
  <2>0. ServerTyped /\ SessionsTyped /\ Ordered /\ PagesRight
    BY <1>1 DEF MessagingInv
  <2>. SUFFICES ASSUME NEW s \in active
       PROVE  LET u == Owner[s]
                  unmoved == dialog[u][paging[s].offset].top = paging[s].top
                  skipped == {order[u][j] : j \in {k \in DOMAIN order[u] :
                                \E i \in DOMAIN order[u] : k < i /\ order[u][i] = paging[s].offset}}
              IN  /\ paging[s].state = "more" /\ unmoved => skipped \subseteq view[s].known
                  /\ paging[s].state = "undefined" => ~unmoved
    BY DEF PagingSkipsNothing
  <2>. DEFINE u == Owner[s]  off == paging[s].offset
  <2>1. s \in Sessions /\ u \in Users
    BY <2>0, MessagingAssumption DEF SessionsTyped
  <2>2. Sorted(order[u], dialog[u])
    BY <2>0, <2>1 DEF Ordered
  <2>3. ASSUME paging[s].state = "more", dialog[u][off].top = paging[s].top,
               NEW k \in DOMAIN order[u], NEW i \in DOMAIN order[u], k < i, order[u][i] = off
        PROVE  order[u][k] \in view[s].known
    <3>1. dialog[u][order[u][k]].date > dialog[u][off].date
      BY <2>2, <2>3 DEF Sorted
    <3>2. order[u][k] \in Elems(order[u])
      BY DEF Elems
    <3>3. order[u][k] \in Users /\ dialog[u][order[u][k]].top # 0
      BY <2>2, <3>2 DEF Sorted
    <3>4. \A p \in Users : dialog[u][p].top # 0 /\ dialog[u][p].date > dialog[u][off].date
                             => p \in view[s].known
      BY <2>0, <2>1, <2>3 DEF PagesRight
    <3>. QED  BY <3>1, <3>3, <3>4
  <2>4. ASSUME paging[s].state = "undefined"
        PROVE  dialog[u][off].top # paging[s].top
    <3>1. paging[s].top < dialog[u][off].top /\ off \in Users
      BY <2>0, <2>1, <2>4 DEF PagesRight
    <3>2. dialog[u][off] \in Dialog /\ paging[s] \in Paging
      BY <2>0, <2>1, <3>1 DEF ServerTyped, SessionsTyped
    <3>3. dialog[u][off].top \in Nat /\ paging[s].top \in Nat
      BY <3>2 DEF Dialog, Paging
    <3>. QED  BY <3>1, <3>3
  <2>. QED  BY <2>3, <2>4
<1>. QED  BY <1>1, MessagingInvariant, PTL
=============================================================================
