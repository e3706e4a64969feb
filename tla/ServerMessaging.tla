-------------------------- MODULE ServerMessaging --------------------------
(***************************************************************************)
(* Messages between users: the message service all servers of a cluster    *)
(* share, the post box and the dialogs of each user, and the updates sent  *)
(* to the sessions of a user.  The servers of a cluster run in one thread  *)
(* and call each other directly, so a request is one step, its share on    *)
(* the other server included.                                              *)
(*                                                                         *)
(* A message is known by its global id, which also stands for its date:    *)
(* getMessageUniqueTs makes dates strictly increase.  A message id of a    *)
(* user is a position in the user's post box.                              *)
(***************************************************************************)
EXTENDS Naturals, FiniteSets, Sequences, SequencesExt

CONSTANTS
  Users,        \* the users of the cluster
  Sessions,     \* their sessions
  Owner,        \* Owner[s]: the user of a session
  Dc,           \* Dc[u]: the server (DC) of a user
  Pagers,       \* the sessions that fetch their dialogs
  Writes,       \* bound: the sessions that write, and to whom
  Unstable,     \* bound: the sessions whose connection may be lost
  Slice,        \* c_serverDialogsSliceLimit
  MaxMessages,  \* bound on the messages sent
  None

ASSUME MessagingAssumption ==
  /\ Owner \in [Sessions -> Users] /\ Pagers \subseteq Sessions /\ None \notin Users
  /\ Slice \in Nat \ {0} /\ MaxMessages \in Nat

VARIABLES
  messages,  \* MessageService::m_messages
  box,       \* PostBox::m_messages: the global ids of a user's messages, by message id
  pts,       \* PostBox::m_pts
  unread,    \* UserPostBox::m_unreadCount
  order,     \* LocalUser::m_dialogs: the peers, in the order of the list
  dialog,    \* the UserDialog of a user with a peer in that list
  active,    \* the sessions with a connection
  view,      \* history: what a session was told since it connected
  paging,    \* the getDialogs operation of a session
  crashed    \* the process of the servers followed a null pointer

serverVars == <<messages, box, pts, unread, order, dialog>>
vars == <<messages, box, pts, unread, order, dialog, active, view, paging, crashed>>

Elems(seq) == {seq[i] : i \in DOMAIN seq}

EmptyDialog == [top |-> 0, date |-> 0, readInboxMaxId |-> 0, readOutboxMaxId |-> 0, unread |-> 0]
Idle == [state |-> "idle", offset |-> None, top |-> 0]
NoView == [since |-> 0, new |-> <<>>, known |-> {}, pts |-> 0, maxPts |-> 0,
           outbox |-> [p \in Users |-> 0], maxOutbox |-> [p \in Users |-> 0]]

Larger(m, n) == IF m < n THEN n ELSE m

SessionsOf(u) == {s \in active : Owner[s] = u}

\* MessageData::getDialogPeer, of the message with a global id
DialogPeer(u, g) == IF messages[g].to = u THEN messages[g].from ELSE messages[g].to

\* the ids of the messages of u's dialog with p
DialogIds(u, p) == {id \in DOMAIN box[u] : DialogPeer(u, box[u][id]) = p}

Incoming(u, p) == {id \in DialogIds(u, p) : messages[box[u][id]].from # u}
-----------------------------------------------------------------------------
(***************************************************************************)
(* Sessions come and go; a new connection starts from the state the server *)
(* answers with (getState and the read marks of the dialogs).  A view has  *)
(* the last pts and read marks the session was told of and the highest.    *)
(***************************************************************************)
Connect(s) ==
  LET u == Owner[s]
      marks == [p \in Users |-> dialog[u][p].readOutboxMaxId]
  IN
  /\ s \notin active
  /\ active' = active \cup {s}
  /\ view' = [view EXCEPT ![s] =
       [since |-> Len(box[u]), new |-> <<>>, known |-> {}, pts |-> pts[u], maxPts |-> pts[u],
        outbox |-> marks, maxOutbox |-> marks]]
  /\ UNCHANGED <<serverVars, paging, crashed>>

Disconnect(s) ==
  /\ s \in active \cap Unstable
  /\ active' = active \ {s}
  /\ view' = [view EXCEPT ![s] = NoView]
  /\ paging' = [paging EXCEPT ![s] = Idle]
  /\ UNCHANGED <<serverVars, crashed>>
-----------------------------------------------------------------------------
(***************************************************************************)
(* messages.sendMessage                                                    *)
(***************************************************************************)
\* fault: the dialog list is not sorted again.
UnsortedDialogs(seq, dates) == seq

\* syncDialogsOrder: std::sort, a dialog with a later date before one with an earlier
SyncDialogsOrder(seq, dates) ==
  LET Sorts(f) == \A i, j \in DOMAIN seq :
                    i < j => dates[seq[f[i]]].date >= dates[seq[f[j]]].date
      perm == CHOOSE f \in Bijection(DOMAIN seq, DOMAIN seq) : Sorts(f)
  IN  [i \in DOMAIN seq |-> seq[perm[i]]]

\* fault: the message the user sent counts as unread too.
WithNewMessageCounted(d, id, date, isOwn) ==
  [d EXCEPT !.top = id, !.date = date, !.unread = @ + 1]

\* addNewMessage and, for a user who is not the sender, bumpDialogUnreadCount
WithNewMessage(d, id, date, isOwn) ==
  [d EXCEPT !.top = id, !.date = date, !.unread = IF isOwn THEN @ ELSE @ + 1]

\* MessageService::addMessage, with the references processMessage adds
AddMessage(from, to) ==
  messages' = Append(messages, [from |-> from, to |-> to,
                                ref |-> [u \in {from, to} |-> Len(box[u]) + 1]])

\* PostBox::addMessage, in the post box of the recipient and of the sender
AddToPostBoxes(targets) ==
  /\ box' = [u \in Users |-> IF u \in targets THEN Append(box[u], Len(messages) + 1) ELSE box[u]]
  /\ pts' = [u \in Users |-> IF u \in targets THEN pts[u] + 1 ELSE pts[u]]

\* ensureDialog
EnsureDialog(u, p) == IF p \in Elems(order[u]) THEN order[u] ELSE Append(order[u], p)

\* processMessage; a recipient of another server gets the same through the
\* queueServerUpdates of that server.
ProcessMessage(from, to) ==
  LET targets == {from, to}
      peer == [u \in targets |-> IF u = from THEN to ELSE from]
      old(u) == dialog[u][peer[u]]
      new == [u \in targets |->
                WithNewMessage(old(u), Len(box[u]) + 1, Len(messages) + 1, u = from)]
      dialogs(u) == [dialog[u] EXCEPT ![peer[u]] = new[u]]
      Updated(f, g(_)) == [u \in Users |-> IF u \in targets THEN g(u) ELSE f[u]]
  IN  /\ AddToPostBoxes(targets)
      /\ unread' = Updated(unread, LAMBDA u : unread[u] + new[u].unread - old(u).unread)
      /\ dialog' = Updated(dialog, dialogs)
      /\ order' = Updated(order, LAMBDA u : SyncDialogsOrder(EnsureDialog(u, peer[u]), dialogs(u)))

\* fault: the session that sends is told twice, by the reply and by the update.
ToldAlsoToSender(s, t, id) == IF t = s THEN <<id, id>> ELSE <<id>>

\* submitMessageData: the calling session learns the message from the reply and
\* is left out by queueUpdates; every other active session gets the update.
NewMessageTold(s, t, id) == <<id>>

\* queueUpdates of the notifications for the new message
QueueNewMessage(s, to) ==
  LET from == Owner[s] IN
  view' = [t \in Sessions |->
    IF t \notin active \/ Owner[t] \notin {from, to} THEN view[t]
    ELSE LET u == Owner[t] IN
         [view[t] EXCEPT !.new = @ \o NewMessageTold(s, t, Len(box[u]) + 1),
                         !.pts = pts[u] + 1, !.maxPts = Larger(@, pts[u] + 1),
                         !.known = @ \cup {IF u = from THEN to ELSE from}]]

\* runSendMessage
SendMessage(s, to) ==
  /\ s \in active /\ <<s, to>> \in Writes /\ Len(messages) < MaxMessages
  /\ AddMessage(Owner[s], to)
  /\ ProcessMessage(Owner[s], to)
  /\ QueueNewMessage(s, to)
  /\ UNCHANGED <<active, paging, crashed>>
-----------------------------------------------------------------------------
(***************************************************************************)
(* messages.readHistory                                                    *)
(***************************************************************************)
\* fault: the other sessions of the reader are not told.
ReadInboxNotTold(s, t) == t = s

\* The calling session learns the new pts from the reply; the others get
\* UpdateReadHistoryInbox when the user has more than one active session.
ReadInboxTold(s, t) == Owner[t] = Owner[s]

\* fault: the newest incoming message is left out of the count.
AffectedMessagesButTop(u, p, maxId) ==
  {id \in Incoming(u, p) : id > dialog[u][p].readInboxMaxId /\ id < maxId}

AffectedMessages(u, p, maxId) ==
  {id \in Incoming(u, p) : id > dialog[u][p].readInboxMaxId /\ id <= maxId}

\* fault: the read mark is set in the dialog of the reader.
OutboxMarkOfReader(reader, m) ==
  [user |-> reader, peer |-> m.from, id |-> m.ref[m.from]]

\* reportMessageRead: whose dialog gets the read mark, and the message id there.
\* The message is the one the reader has at maxId, which may be the reader's own or
\* one of another dialog.
OutboxMark(reader, m) == [user |-> m.from, peer |-> m.to, id |-> m.ref[m.from]]

\* reportLocalMessageRead, for the dialogs as the reader has left them
MarkOutboxRead(mark, dialogs) ==
  IF dialogs[mark.user][mark.peer].readOutboxMaxId >= mark.id THEN dialogs
  ELSE [dialogs EXCEPT ![mark.user][mark.peer].readOutboxMaxId = mark.id]

Minus(m, n) == IF m < n THEN 0 ELSE m - n

\* The server of a sender on another DC queues the notification of reportMessageRead
\* as it came once more, with pts 0, whether the mark has changed anything or not
\* (queueServerUpdates).
OutboxRepeated(reader, mark) == Dc[mark.user] # Dc[reader]

\* What session t was told when all updates of the request are sent: of the new pts, and
\* of the mark with the new pts and, repeated, with none.
ReadTold(t, newPts, inbox, outbox, repeated, mark) ==
  LET told == IF inbox \/ outbox THEN [view[t] EXCEPT !.pts = newPts, !.maxPts = Larger(@, newPts)]
              ELSE view[t]
      marked == [told EXCEPT !.outbox[mark.peer] = mark.id,
                             !.maxOutbox[mark.peer] = Larger(@, mark.id)]
  IN  IF repeated THEN [marked EXCEPT !.pts = 0] ELSE IF outbox THEN marked ELSE told

\* runReadHistory; maxId is the larger of the top message of the dialog and the id asked
\* for, which may be that of a message of another dialog.  When the reader is also the
\* one whose outbox is marked the pts goes up twice.
ReadHistory(s, p, maxId) ==
  LET u == Owner[s]
      affected == Cardinality(AffectedMessages(u, p, maxId))
      read == [dialog EXCEPT ![u][p].readInboxMaxId = maxId,
                             ![u][p].unread = Minus(@, affected)]
      mark == OutboxMark(u, messages[box[u][maxId]])
      marked == IF MarkOutboxRead(mark, read) = read THEN {} ELSE {mark.user}
      repeated == IF OutboxRepeated(u, mark) THEN {mark.user} ELSE {}
      bumps(v) == Cardinality({u} \cap {v}) + Cardinality(marked \cap {v})
  IN
  /\ s \in active /\ p \in Elems(order[u])
  /\ maxId \in DOMAIN box[u] /\ dialog[u][p].top <= maxId
  /\ dialog[u][p].readInboxMaxId < maxId
  /\ unread' = [unread EXCEPT ![u] = Minus(@, affected)]
  /\ dialog' = MarkOutboxRead(mark, read)
  /\ pts' = [v \in Users |-> pts[v] + bumps(v)]
  /\ view' = [t \in Sessions |->
       IF t \notin active THEN view[t]
       ELSE ReadTold(t, pts'[Owner[t]], ReadInboxTold(s, t), Owner[t] \in marked,
                     Owner[t] \in repeated, mark)]
  /\ UNCHANGED <<messages, box, order, active, paging, crashed>>

\* Everything up to maxId is read already: the reply has the pts.
ReadHistoryAgain(s, p) ==
  LET u == Owner[s] IN
  /\ s \in active /\ p \in Elems(order[u])
  /\ dialog[u][p].readInboxMaxId >= dialog[u][p].top
  /\ view' = [view EXCEPT ![s].pts = pts[u], ![s].maxPts = Larger(@, pts[u])]
  /\ UNCHANGED <<serverVars, active, paging, crashed>>

\* An id the post box does not have: getMessage returns a null pointer, which
\* reportMessageRead follows.  The connections end with the process.
ReadHistoryUnknown ==
  /\ \E s \in active : order[Owner[s]] # <<>>
  /\ crashed' = TRUE
  /\ active' = {}
  /\ view' = [s \in Sessions |-> NoView]
  /\ paging' = [s \in Sessions |-> Idle]
  /\ UNCHANGED serverVars
-----------------------------------------------------------------------------
(***************************************************************************)
(* messages.getDialogs, page by page, and the client's loop around it      *)
(***************************************************************************)
\* fault: the page starts one dialog too late.
FromDialogIndexOffByOne(u, offset, top) ==
  IF dialog[u][offset].top # top THEN Len(order[u]) + 1
  ELSE (CHOOSE i \in DOMAIN order[u] : order[u][i] = offset) + 2

\* The position of the first dialog of the page.  When the top message of the
\* offset dialog has changed the dates are compared, a 64-bit date that holds the
\* seconds in its upper half with 32-bit seconds: none is old enough.
FromDialogIndex(u, offset, top) ==
  IF dialog[u][offset].top # top THEN Len(order[u]) + 1
  ELSE (CHOOSE i \in DOMAIN order[u] : order[u][i] = offset) + 1

\* onGetDialogsFinished: another page is asked for while there are fewer dialogs
\* known than the user has; the last dialog of an empty page is then read, which
\* is undefined.
PageReceived(s, page) ==
  LET u == Owner[s]
      known == view[s].known \cup Elems(page)
  IN  /\ view' = [view EXCEPT ![s].known = known]
      /\ paging' = [paging EXCEPT ![s] =
           IF Cardinality(known) >= Len(order[u]) THEN [Idle EXCEPT !.state = "done"]
           ELSE IF page = <<>> THEN [paging[s] EXCEPT !.state = "undefined"]
           ELSE [state |-> "more", offset |-> Last(page), top |-> dialog[u][Last(page)].top]]
      /\ UNCHANGED <<serverVars, active, crashed>>

\* runGetDialogs: the dialogs from a position on, as many as a slice holds
Page(u, first) ==
  SubSeq(order[u], first, IF first + Slice - 1 > Len(order[u]) THEN Len(order[u])
                          ELSE first + Slice - 1)

GetDialogs(s) ==
  /\ s \in active \cap Pagers /\ paging[s].state = "idle"
  /\ PageReceived(s, Page(Owner[s], 1))

GetMoreDialogs(s) ==
  /\ paging[s].state = "more"
  /\ PageReceived(s, Page(Owner[s], FromDialogIndex(Owner[s], paging[s].offset, paging[s].top)))
-----------------------------------------------------------------------------
Init ==
  /\ messages = <<>>
  /\ box = [u \in Users |-> <<>>]
  /\ pts = [u \in Users |-> 0]
  /\ unread = [u \in Users |-> 0]
  /\ order = [u \in Users |-> <<>>]
  /\ dialog = [u \in Users |-> [p \in Users |-> EmptyDialog]]
  /\ active = {}
  /\ view = [s \in Sessions |-> NoView]
  /\ paging = [s \in Sessions |-> Idle]
  /\ crashed = FALSE

Next ==
  /\ ~crashed
  /\ \/ ReadHistoryUnknown
     \/ \E s \in Sessions :
          \/ Connect(s)
          \/ Disconnect(s)
          \/ \E to \in Users : SendMessage(s, to)
          \/ \E p \in Users :
               \/ \E maxId \in DOMAIN box[Owner[s]] : ReadHistory(s, p, maxId)
               \/ ReadHistoryAgain(s, p)
          \/ GetDialogs(s)
          \/ GetMoreDialogs(s)

Spec == Init /\ [][Next]_vars
-----------------------------------------------------------------------------
(***************************************************************************)
(* Properties.                                                             *)
(***************************************************************************)
\* The unread counters that sending, reading on any session and reading at the
\* same time as sending update one by one agree with the messages themselves: a
\* dialog counts the incoming messages past its read mark, the post box all of them.
UnreadCountsMessages ==
  \A u \in Users :
    /\ \A p \in Users : dialog[u][p].unread =
         Cardinality({id \in Incoming(u, p) : id > dialog[u][p].readInboxMaxId})
    /\ unread[u] = Cardinality({id \in DOMAIN box[u] :
         LET p == DialogPeer(u, box[u][id])
         IN  messages[box[u][id]].from # u /\ id > dialog[u][p].readInboxMaxId})

\* The dialog list of a user shows each peer once, the one with the newest message
\* first, and names the newest message of each (syncDialogsOrder, addNewMessage).
NewestDialogFirst ==
  \A u \in Users :
    /\ Elems(order[u]) = {p \in Users : DialogIds(u, p) # {}}
    /\ \A i, j \in DOMAIN order[u] : i < j =>
         box[u][dialog[u][order[u][i]].top] > box[u][dialog[u][order[u][j]].top]
    /\ \A p \in Elems(order[u]) : \A id \in DialogIds(u, p) : id <= dialog[u][p].top

\* A session that stays connected is told of every message of its user once and
\* in the order of the post box, whichever session or server sent it.
EveryMessageToldOnce ==
  \A s \in active : view[s].new = [i \in 1..(Len(box[Owner[s]]) - view[s].since) |->
                                     view[s].since + i]

\* No change of a post box stays unknown to a connected session: it was told of the
\* current pts and of the current marks of what the peers have read.  What it was
\* told last is the current state too, except for the read of a peer of another DC,
\* which is told once more, with pts 0 and perhaps with a mark below the current one.
SessionsUpToDate ==
  \A s \in active :
    LET u == Owner[s] IN
    /\ view[s].maxPts = pts[u]
    /\ view[s].pts = pts[u] \/ (view[s].pts = 0 /\ \E p \in Users : Dc[p] # Dc[u])
    /\ \A p \in Users :
         LET mark == dialog[u][p].readOutboxMaxId
         IN  /\ view[s].maxOutbox[p] = mark
             /\ view[s].outbox[p] = mark \/ (view[s].outbox[p] < mark /\ Dc[p] # Dc[u])

\* A message its recipient has read is marked as read for its sender, unless the last
\* id the dialog was read up to is not the sender's: reportMessageRead reports the
\* message at that id alone, which may be one of the recipient's own or, when the id
\* asked for is beyond the top of the dialog, one of another dialog.
ReadIsReported ==
  \A g \in DOMAIN messages :
    LET m == messages[g]
        readTo == dialog[m.to][m.from].readInboxMaxId
    IN  (m.from # m.to /\ readTo >= m.ref[m.to] /\ readTo \in Incoming(m.to, m.from)) =>
          dialog[m.from][m.to].readOutboxMaxId >= m.ref[m.from]

\* While a session pages through the dialogs new messages move dialogs between two
\* pages.  Every dialog the session does not know yet stays after its offset, and an
\* empty page is taken for one with a last dialog (which is undefined), only when the
\* offset dialog itself has moved.
PagingSkipsNothing ==
  \A s \in active :
    LET u == Owner[s]
        unmoved == dialog[u][paging[s].offset].top = paging[s].top
        skipped == {order[u][j] : j \in {k \in DOMAIN order[u] :
                      \E i \in DOMAIN order[u] : k < i /\ order[u][i] = paging[s].offset}}
    IN  /\ paging[s].state = "more" /\ unmoved => skipped \subseteq view[s].known
        /\ paging[s].state = "undefined" => ~unmoved
=============================================================================
