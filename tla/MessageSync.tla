---------------------------- MODULE MessageSync ----------------------------
(***************************************************************************)
(* MessagingApi in ManualSync mode: how an application gets the messages   *)
(* that were added since it last ran and those that arrive meanwhile, each *)
(* one once.  The client stores for every dialog the id of the last        *)
(* message it has given to the application, fetches the history back to    *)
(* that message and holds new messages until then.                         *)
(*                                                                         *)
(* A message is its id in the user's post box, history[id] the peer of its *)
(* dialog.  Requests and what the server sends are in order; the server    *)
(* handles a request at any later time.                                    *)
(***************************************************************************)
EXTENDS Naturals, FiniteSets, Sequences, SequencesExt

CONSTANTS
  Peers,        \* the peers the user has or may get a dialog with
  Portion,      \* c_fetchLimit
  SyncLimits,   \* the values of setSyncLimit (0: none)
  MaxMessages,  \* bound on the messages of the post box
  MaxSaves,     \* bound on the calls of saveState
  Losses        \* whether connections are lost

ASSUME SyncAssumption ==
  /\ IsFiniteSet(Peers)
  /\ Portion \in Nat \ {0} /\ SyncLimits \subseteq Nat
  /\ MaxMessages \in Nat /\ MaxSaves \in Nat /\ Losses \in BOOLEAN

VARIABLES
  history,    \* the server's post box
  requests,   \* to the server
  wire,       \* to the client: replies and updates
  online,     \* the client has a connection
  limit,      \* m_syncLimit
  sync,       \* m_syncState
  jobs,       \* m_syncJobs
  listed,     \* the dialog list has been received
  top,        \* UserDialog::topMessage of the client's storage
  state,      \* DataInternalApi::m_dialogStates
  saved,      \* what saveState wrote: the syncedMessageId of each dialog
  saves,
  delivered,  \* history: the messages given to the application, as the saved state knows
  repeated,   \* history: those given a second time
  omitted,    \* history: the dialogs the list of this run has left out
  forgone,    \* history: the dialogs without a mark that the list of some run has left out
  disturbed   \* history: something happened that the synchronization does not make up for

netVars == <<history, requests, wire, online>>
clientVars == <<limit, sync, jobs, listed, top, state>>
givenVars == <<delivered, repeated>>
listVars == <<omitted, forgone>>
savedVars == <<saved, saves>>
vars == <<history, requests, wire, online, limit, sync, jobs, listed, top, state, saved, saves,
          delivered, repeated, omitted, forgone, disturbed>>

Elems(seq) == {seq[i] : i \in DOMAIN seq}
Ids(p) == {id \in DOMAIN history : history[id] = p}

\* The ids of a set, the greatest first.
NewestFirst(ids) == [i \in 1..Cardinality(ids) |->
                       CHOOSE x \in ids : Cardinality({y \in ids : y > x}) = i - 1]

NewState == [syncedMessageId |-> 0, synced |-> FALSE, pendingIds |-> <<>>]

\* DialogState::isValid
IsValid(st) == st.syncedMessageId # 0 \/ st.pendingIds # <<>> \/ st.synced

\* syncMessagesReceived of a list, or messageReceived of one message; list is what
\* each of the peers gets.
Give(list, peers) ==
  /\ delivered' = delivered \cup UNION {Elems(list[p]) : p \in peers}
  /\ repeated' = repeated \cup UNION {
       {list[p][i] : i \in {j \in DOMAIN list[p] :
          list[p][j] \in delivered \/ \E k \in 1..(j - 1) : list[p][k] = list[p][j]}} : p \in peers}
-----------------------------------------------------------------------------
(***************************************************************************)
(* The server: what others send, and its answers.                          *)
(***************************************************************************)
\* the bound, with the messages that are on their way to the server
Room == Len(history) + Len(SelectSeq(requests, LAMBDA r : r.type = "send")) < MaxMessages

NewMessage(p) ==
  /\ Room
  /\ history' = Append(history, p)
  /\ wire' = IF online THEN Append(wire, [type |-> "new", id |-> Len(history) + 1]) ELSE wire
  /\ UNCHANGED <<requests, online, clientVars, savedVars, givenVars, listVars, disturbed>>

\* fault: the message the request names is part of the answer again.
HistoryPageInclusive(p, offsetId, count, minId) ==
  LET ids == {id \in Ids(p) : (offsetId # 0 => id <= offsetId) /\ id > minId}
      all == NewestFirst(ids)
  IN  SubSeq(all, 1, IF count < Len(all) THEN count ELSE Len(all))

\* runGetHistory
HistoryPage(p, offsetId, count, minId) ==
  LET ids == {id \in Ids(p) : (offsetId # 0 => id < offsetId) /\ id > minId}
      all == NewestFirst(ids)
  IN  SubSeq(all, 1, IF count < Len(all) THEN count ELSE Len(all))

\* getDialogs, getHistory and sendMessage; the answer to the last one comes as
\* UpdateMessageID and UpdateNewMessage.
HandleRequest ==
  LET r == Head(requests) IN
  /\ requests # <<>>
  /\ requests' = Tail(requests)
  /\ history' = IF r.type = "send" THEN Append(history, r.peer) ELSE history
  /\ wire' = Append(wire,
       CASE r.type = "dialogs" ->
              [type |-> "dialogs",
               top |-> [p \in Peers |-> IF Ids(p) = {} THEN 0 ELSE Head(NewestFirst(Ids(p)))]]
         [] r.type = "history" ->
              [type |-> "history", peer |-> r.peer,
               ids |-> HistoryPage(r.peer, r.offsetId, r.limit, r.minId)]
         [] r.type = "send" -> [type |-> "sent", id |-> Len(history) + 1])
  /\ UNCHANGED <<online, clientVars, savedVars, givenVars, listVars, disturbed>>
-----------------------------------------------------------------------------
(***************************************************************************)
(* The synchronization of a dialog.                                        *)
(***************************************************************************)
\* fault: an empty answer is not taken as the end of the history.
FetchedUnlessEmpty(st, ids) ==
  ids # <<>> /\ (Last(ids) <= st.syncedMessageId \/ Last(ids) = 1)

AllMessagesFetched(st, ids) ==
  ids = <<>> \/ Last(ids) <= st.syncedMessageId \/ Last(ids) = 1

LimitIsReached(st) == limit # 0 /\ Len(st.pendingIds) >= limit

\* The messages of a list up to the first one that is not newer than the mark.
Newer(ids, mark) ==
  LET known == {i \in DOMAIN ids : ids[i] <= mark}
  IN  IF known = {} THEN ids ELSE SubSeq(ids, 1, Min(known) - 1)

\* pendingIds starts with newer and ends with older messages
WithFetched(st, ids) ==
  [st EXCEPT !.pendingIds = @ \o Newer(ids, st.syncedMessageId)]

\* onPeerSyncFinished; the pending messages are given to the application.
SyncFinished(st) ==
  [syncedMessageId |-> IF st.pendingIds = <<>> THEN st.syncedMessageId ELSE Head(st.pendingIds),
   synced |-> TRUE, pendingIds |-> <<>>]

\* syncMorePeerMessages
SyncMorePeerMessages(p, st) ==
  [type |-> "history", peer |-> p,
   offsetId |-> IF st.pendingIds = <<>> THEN 0 ELSE Last(st.pendingIds),
   limit |-> IF limit # 0 /\ limit - Len(st.pendingIds) < Portion
               THEN limit - Len(st.pendingIds) ELSE Portion,
   minId |-> IF st.syncedMessageId > 0 THEN st.syncedMessageId - 1 ELSE 0]

\* onPeerSyncFinished: --m_syncJobs
JobsLeft(count, peers, done) == count - Cardinality(done)

\* processNewSyncMessages for each peer of a set (feed[p]: the messages received),
\* of the synchronizations still to be finished, and checkIfSyncFinished.
ProcessNewSyncMessages(peers, feed, count) ==
  LET st == [p \in peers |-> WithFetched(state[p], feed[p])]
      done == {p \in peers : AllMessagesFetched(state[p], feed[p]) \/ LimitIsReached(st[p])}
      cut == {p \in done : ~AllMessagesFetched(state[p], feed[p])}
      more == SetToSeq(peers \ done)
  IN  /\ state' = [p \in Peers |-> IF p \in done THEN SyncFinished(st[p])
                                   ELSE IF p \in peers THEN st[p] ELSE state[p]]
      /\ Give([p \in done |-> st[p].pendingIds], done)
      /\ requests' = requests \o [i \in DOMAIN more |-> SyncMorePeerMessages(more[i], st[more[i]])]
      /\ jobs' = JobsLeft(count, peers, done)
      /\ sync' = IF jobs' = 0 THEN "finished" ELSE "inProgress"
      /\ disturbed' = (disturbed \/ cut # {})

\* The first feed of a dialog is its top message; a peer without a dialog has none.
TopMessage(p) == IF top[p] # 0 THEN <<top[p]>> ELSE <<>>

\* fault: the synchronization can be started while it is in progress.
SyncPeersAgain(peers) ==
  LET others == {p \in Peers \ peers : top[p] # 0} IN
  /\ sync # "finished" /\ listed /\ online
  /\ ProcessNewSyncMessages(peers, [p \in peers |-> TopMessage(p)], Cardinality(peers))
  /\ omitted' = others
  /\ forgone' = forgone \cup {p \in others : state[p].syncedMessageId = 0}
  /\ UNCHANGED <<history, wire, online, limit, listed, top, savedVars>>

\* syncPeers with any list of peers, each once, after the dialogs have been received.
\* It does nothing about the dialogs that are not in the list: one with a stored mark
\* stays valid and not synced, one without is new to the next message.
SyncPeers(peers) ==
  LET others == {p \in Peers \ peers : top[p] # 0} IN
  /\ sync = "notStarted" /\ listed /\ online
  /\ ProcessNewSyncMessages(peers, [p \in peers |-> TopMessage(p)], Cardinality(peers))
  /\ omitted' = others
  /\ forgone' = forgone \cup {p \in others : state[p].syncedMessageId = 0}
  /\ UNCHANGED <<history, wire, online, limit, listed, top, savedVars>>
-----------------------------------------------------------------------------
(***************************************************************************)
(* What the client receives.                                               *)
(***************************************************************************)
\* fault: a held message does not stop the usual signal.
FilterMessageGiven(p, st, id) ==
  IF st.synced \/ ~IsValid(st)
  THEN [state |-> [st EXCEPT !.synced = TRUE, !.syncedMessageId = id], given |-> <<id>>]
  ELSE [state |-> st, given |-> <<id>>]

\* fault: a held message moves the mark of its dialog.
FilterMessageMarked(p, st, id) ==
  IF st.synced \/ ~IsValid(st)
  THEN [state |-> [st EXCEPT !.synced = TRUE, !.syncedMessageId = id], given |-> <<id>>]
  ELSE [state |-> [st EXCEPT !.pendingIds = <<id>> \o @, !.syncedMessageId = id], given |-> <<>>]

\* fault: a new dialog waits for a synchronization too.
FilterMessageNewDialog(p, st, id) ==
  IF st.synced
  THEN [state |-> [st EXCEPT !.syncedMessageId = id], given |-> <<id>>]
  ELSE [state |-> [st EXCEPT !.pendingIds = <<id>> \o @], given |-> <<>>]

\* syncAndFilterMessage once the synchronization has started: a dialog that is not
\* synchronized yet holds the message, a new one counts as synchronized.
SyncAndFilterMessage(p, st, id) ==
  IF st.synced \/ ~IsValid(st)
  THEN [state |-> [st EXCEPT !.synced = TRUE, !.syncedMessageId = id], given |-> <<id>>]
  ELSE [state |-> [st EXCEPT !.pendingIds = <<id>> \o @], given |-> <<>>]

\* processNewMessage and onMessageReceived, of a dialog in state st
ProcessNewMessage(id, st) ==
  LET p == history[id]
      filtered == SyncAndFilterMessage(p, st, id)
      known == top[p] >= id
      examined == ~known /\ sync # "notStarted"
  IN  /\ top' = IF known THEN top ELSE [top EXCEPT ![p] = id]
      /\ state' = [state EXCEPT ![p] = IF examined THEN filtered.state ELSE st]
      /\ Give([q \in {p} |-> IF examined THEN filtered.given ELSE <<>>], {p})

ReceiveNewMessage ==
  /\ wire # <<>> /\ Head(wire).type = "new"
  /\ wire' = Tail(wire)
  /\ ProcessNewMessage(Head(wire).id, state[history[Head(wire).id]])
  /\ UNCHANGED <<history, requests, online, limit, sync, jobs, listed, savedVars, listVars,
                 disturbed>>

\* onSendMessageResult: onSentMessageIdResolved marks the dialog with the message
\* the user has sent, synchronized or not, then the message is processed.
ReceiveSent ==
  LET id == Head(wire).id
      st == state[history[id]]
  IN  /\ wire # <<>> /\ Head(wire).type = "sent"
      /\ wire' = Tail(wire)
      /\ ProcessNewMessage(id, [st EXCEPT !.syncedMessageId = id])
      /\ disturbed' = (disturbed \/ ~st.synced)
      /\ UNCHANGED <<history, requests, online, limit, sync, jobs, listed, savedVars, listVars>>

\* onGetDialogsFinished and processData; the peers get their top messages.
ReceiveDialogs ==
  /\ wire # <<>> /\ Head(wire).type = "dialogs"
  /\ wire' = Tail(wire)
  /\ listed' = TRUE
  /\ top' = [p \in Peers |-> IF Head(wire).top[p] # 0 THEN Head(wire).top[p] ELSE top[p]]
  /\ UNCHANGED <<history, requests, online, limit, sync, jobs, state, savedVars, givenVars,
                 listVars, disturbed>>

\* onGetHistoryFinished and onSyncHistoryReceived
ReceiveHistory ==
  /\ wire # <<>> /\ Head(wire).type = "history"
  /\ wire' = Tail(wire)
  /\ ProcessNewSyncMessages({Head(wire).peer}, [p \in {Head(wire).peer} |-> Head(wire).ids], jobs)
  /\ UNCHANGED <<history, online, limit, listed, top, savedVars, listVars>>

Receive == ReceiveNewMessage \/ ReceiveSent \/ ReceiveDialogs \/ ReceiveHistory
-----------------------------------------------------------------------------
(***************************************************************************)
(* The application and the connection.                                     *)
(***************************************************************************)
\* The client is signed in; the application sets the limit and asks for the dialogs.
Start(value) ==
  /\ ~online /\ sync = "notStarted" /\ ~listed
  /\ online' = TRUE
  /\ limit' = value
  /\ requests' = <<[type |-> "dialogs"]>>
  /\ UNCHANGED <<history, wire, sync, jobs, listed, top, state, savedVars, givenVars, listVars, disturbed>>

Send(p) ==
  /\ online /\ Room
  /\ requests' = Append(requests, [type |-> "send", peer |-> p])
  /\ UNCHANGED <<history, wire, online, clientVars, savedVars, givenVars, listVars, disturbed>>

\* saveState: a message not covered by it may be given again to the next run.
Save ==
  /\ saves < MaxSaves
  /\ saved' = [p \in Peers |-> state[p].syncedMessageId]
  /\ saves' = saves + 1
  /\ UNCHANGED <<netVars, clientVars, givenVars, listVars, disturbed>>

\* The application ends, at any moment, and a new one calls loadState.
Restart ==
  /\ online \/ listed
  /\ online' = FALSE /\ requests' = <<>> /\ wire' = <<>>
  /\ limit' = 0 /\ sync' = "notStarted" /\ jobs' = 0 /\ listed' = FALSE
  /\ top' = [p \in Peers |-> 0]
  /\ state' = [p \in Peers |-> [NewState EXCEPT !.syncedMessageId = saved[p]]]
  /\ delivered' = {id \in delivered : id <= saved[history[id]]}
  /\ omitted' = {}
  /\ UNCHANGED <<history, savedVars, repeated, forgone, disturbed>>

\* The operations under way fail, and a failed getHistory is one without messages.
ConnectionLost ==
  LET asked == {p \in Peers : \E m \in Elems(requests) \cup Elems(wire) :
                                m.type = "history" /\ m.peer = p}
      st == [p \in asked |-> SyncFinished(state[p])]
  IN  /\ Losses /\ online
      /\ online' = FALSE /\ requests' = <<>> /\ wire' = <<>>
      /\ state' = [p \in Peers |-> IF p \in asked THEN st[p] ELSE state[p]]
      /\ Give([p \in asked |-> state[p].pendingIds], asked)
      /\ jobs' = jobs - Cardinality(asked)
      /\ sync' = IF sync = "inProgress" /\ jobs' = 0 THEN "finished" ELSE sync
      /\ listed' = TRUE
      /\ disturbed' = TRUE
      /\ UNCHANGED <<history, limit, top, savedVars, listVars>>

Reconnected ==
  /\ ~online /\ listed
  /\ online' = TRUE
  /\ UNCHANGED <<history, requests, wire, clientVars, savedVars, givenVars, listVars, disturbed>>
-----------------------------------------------------------------------------
Init ==
  /\ history = <<>> /\ requests = <<>> /\ wire = <<>> /\ online = FALSE
  /\ limit = 0 /\ sync = "notStarted" /\ jobs = 0 /\ listed = FALSE
  /\ top = [p \in Peers |-> 0]
  /\ state = [p \in Peers |-> NewState]
  /\ saved = [p \in Peers |-> 0] /\ saves = 0
  /\ delivered = {} /\ repeated = {} /\ omitted = {} /\ forgone = {}
  /\ disturbed = FALSE

Next ==
  \/ \E p \in Peers : NewMessage(p) \/ Send(p)
  \/ \E value \in SyncLimits : Start(value)
  \/ HandleRequest
  \/ Receive
  \/ \E peers \in SUBSET Peers : SyncPeers(peers)
  \/ Save
  \/ Restart
  \/ ConnectionLost
  \/ Reconnected

Spec == Init /\ [][Next]_vars

\* The server answers and the client reads what it is sent.
FairSpec == Spec /\ WF_vars(HandleRequest) /\ WF_vars(Receive)
-----------------------------------------------------------------------------
(***************************************************************************)
(* Properties.                                                             *)
(***************************************************************************)
\* No message is given to the application twice, neither by the history and an
\* update nor by two runs of which the first saved its state after the message.
GivenOnce == repeated = {}

\* The mark of a dialog stands for everything before it: a message that is not newer
\* than the mark in memory or in the saved state, and will not be fetched any more,
\* has been given to the application.  A dialog that the list leaves out loses nothing
\* either, it catches up when a later run names it, unless it had no mark to catch up from.
NothingMissed ==
  ~disturbed => \A id \in DOMAIN history :
                  /\ history[id] \notin forgone
                  /\ \/ id <= state[history[id]].syncedMessageId
                     \/ id <= saved[history[id]]
                  => id \in delivered

\* Messages are held while their dialog is synchronized and not any longer; in a dialog
\* that the list has left out they may be held to the end of the run.
HeldOnlyWhileSyncing ==
  ~disturbed => (sync = "finished" => \A p \in Peers \ omitted : state[p].pendingIds = <<>>)

\* A dialog that waits for its synchronization has a request for the next part of
\* its history under way, at most one, and the counter of jobs is right about it.
OneRequestPerDialog ==
  LET flow == requests \o wire
      asked == {i \in DOMAIN flow : flow[i].type = "history"}
  IN  Cardinality(asked) = jobs /\ Cardinality({flow[i].peer : i \in asked}) = jobs

\* The application gets the messages of a dialog in their order: a later signal
\* never brings an older message.
GivenInOrder ==
  [][\A new \in delivered' \ delivered, old \in delivered :
       (old \in delivered' /\ history[new] = history[old]) => new > old]_vars

\* The operation that syncPeers returns finishes, whatever arrives or fails meanwhile.
SyncEnds == (sync = "inProgress") ~> (sync # "inProgress")

\* A message that arrives when the synchronization is over is not held.
HeldOnlyInProgress == sync = "finished" => \A p \in Peers : state[p].pendingIds = <<>>
=============================================================================
