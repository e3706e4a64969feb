------------------------------ MODULE FilesApi ------------------------------
(***************************************************************************)
(* Downloads: FilesApi takes the requested files one after the other,      *)
(* each over a media connection to the file's DC that ConnectionApi opens  *)
(* and authorizes, and asks for it chunk by chunk.                         *)
(*                                                                         *)
(* The client is one thread; an action is what it does for one event.  A   *)
(* connection can break at any moment, in the ways the code tells apart:   *)
(* the operation that connects fails, the server sends an error packet, or *)
(* the socket is disconnected (also by the timeout of the transport, which *)
(* reports no error).  The bytes of a file are the numbers 0..Size[f]-1.   *)
(***************************************************************************)
EXTENDS Naturals, Sequences

CONSTANTS
  Files,
  Main,        \* the DC of the main connection
  Others,      \* the other DCs of the configuration
  Dc,          \* the DC of each file, which may be one the configuration lacks
  Size,        \* the bytes the server has of each file
  Declared,    \* FileRequestDescriptor::size (0: not known)
  Missing,     \* the files the server does not find
  ChunkSize,   \* FileRequestDescriptor::chunkSize
  Unit,        \* the 1024 that offsets must be a multiple of
  NoFile,
  MaxLosses    \* bound on the failures of connections and calls

DCs == {Main} \cup Others

ASSUME FilesAssumption ==
  /\ Size \in [Files -> Nat] /\ Declared \in [Files -> Nat] /\ DOMAIN Dc = Files
  /\ Missing \subseteq Files /\ NoFile \notin Files /\ Main \notin Others
  /\ {"none", "rpc", "fail"} \cap DCs = {} /\ MaxLosses \in Nat
  /\ Unit \in Nat \ {0} /\ ChunkSize \in Nat \ {0} /\ ChunkSize % Unit = 0

VARIABLES
  queue,      \* m_fileRequests
  cur,        \* m_currentOperation
  result,     \* of each FileOperation
  offset,     \* FileRequestDescriptor::offset
  written,    \* the bytes written to each device, in order
  net,        \* the connections and calls under way, see NetInit
  exported,   \* the DCs of m_exportedAuthorizations
  posted,     \* a queued call of processCurrentRequest
  crashed,    \* a null pointer was followed
  losses,
  disturbed   \* history: something happened that no code makes up for

fileVars == <<queue, cur, result>>
dataVars == <<offset, written>>
vars == <<queue, cur, result, offset, written, net, exported, posted, crashed, losses, disturbed>>

\* op is the ConnectOperation of m_connectionOperations, status that of its
\* Connection, heard: FilesApi waits for the end of op, listening: FilesApi gets
\* the changes of status, importing: the importAuthorization calls.
NoConnection ==
  [op |-> "none", status |-> "none", heard |-> FALSE, listening |-> FALSE, importing |-> 0]
NewConnection == [NoConnection EXCEPT !.op = "running", !.status = "Connecting"]

\* child is m_childOperation: a getFile call, the ConnectOperation of a DC, or the
\* delayed failure that connectToExtraDc returns when the DC is not known; rpc are the
\* getFile calls over each connection, exporting the exportAuthorization calls.
NetInit ==
  [conn |-> [d \in DCs |-> NoConnection], child |-> "none",
   rpc |-> [d \in DCs |-> <<>>], exporting |-> [d \in DCs |-> 0]]

Init ==
  /\ queue = <<>> /\ cur = NoFile
  /\ result = [f \in Files |-> "new"]
  /\ offset = [f \in Files |-> 0] /\ written = [f \in Files |-> <<>>]
  /\ net = NetInit /\ exported = {} /\ posted = FALSE
  /\ crashed = FALSE /\ losses = 0 /\ disturbed = FALSE

Needed(d) == cur # NoFile /\ Dc[cur] = d
-----------------------------------------------------------------------------
(***************************************************************************)
(* The steps of a download; each gives the new value of net.               *)
(***************************************************************************)
\* connectToExtraDc: an operation is used again whatever became of it; the main DC
\* needs no exported authorization.
ConnectToExtraDc(n, d) ==
  IF n.conn[d].op # "none" THEN n
  ELSE [n EXCEPT !.conn[d] = NewConnection,
                 !.exporting[d] = IF d # Main /\ d \notin exported THEN @ + 1 ELSE @]

\* processFileRequestForConnection
GetFile(n, f, at) ==
  [n EXCEPT !.child = "rpc", !.rpc[Dc[f]] = Append(@, [file |-> f, offset |-> at])]

\* onConnectOperationFinished, when the operation succeeded
Connected(n, f) ==
  LET waiting == [n EXCEPT !.child = "none", !.conn[Dc[f]].listening = TRUE]
  IN  IF n.conn[Dc[f]].status = "Signed" THEN GetFile(waiting, f, offset[f]) ELSE waiting

\* processCurrentRequest, unless the operation has already failed
ProcessCurrentRequest(n, f) ==
  IF Dc[f] \notin DCs THEN [n EXCEPT !.child = "fail"]
  ELSE LET d == Dc[f]
           m == ConnectToExtraDc(n, d)
       IN  IF m.conn[d].op = "running"
             THEN [m EXCEPT !.child = d, !.conn[d].heard = TRUE]
             ELSE Connected(m, f)

HasFailed(n, f) == Dc[f] \in DCs /\ n.conn[Dc[f]].op = "failed"

\* processNextRequest: the files at the head of the list whose connection has failed
\* fail one after the other, the next one becomes the current one.
ProcessNextRequest(n, list, res) ==
  \E k \in 0..Len(list) :
      /\ \A i \in 1..k : HasFailed(n, list[i])
      /\ k < Len(list) => ~HasFailed(n, list[k + 1])
      /\ result' = [f \in Files |-> IF \E i \in 1..k : list[i] = f THEN "failed" ELSE res[f]]
      /\ queue' = SubSeq(list, k + 2, Len(list))
      /\ cur' = IF k = Len(list) THEN NoFile ELSE list[k + 1]
      /\ net' = IF k = Len(list) THEN [n EXCEPT !.child = "none"]
                                 ELSE ProcessCurrentRequest(n, list[k + 1])

\* setFinished or setFinishedWithError, and onFileOperationFinished
Finish(n, f, outcome) ==
  IF f = cur THEN ProcessNextRequest(n, queue, [result EXCEPT ![f] = outcome])
  ELSE result' = [result EXCEPT ![f] = outcome] /\ net' = n /\ UNCHANGED <<queue, cur>>
-----------------------------------------------------------------------------
(***************************************************************************)
(* The events.                                                             *)
(***************************************************************************)
\* downloadFile and addFileRequest
DownloadFile(f) ==
  /\ result[f] = "new"
  /\ LET res == [result EXCEPT ![f] = "wanted"] IN
     IF cur = NoFile THEN ProcessNextRequest(net, Append(queue, f), res)
     ELSE queue' = Append(queue, f) /\ result' = res /\ UNCHANGED <<cur, net>>
  /\ UNCHANGED <<dataVars, exported, posted, crashed, losses, disturbed>>

\* The connection of a running operation gets its key: the status handler of
\* ConnectionApi comes first, then the operation succeeds.
HasDhKey(d) ==
  LET c == net.conn[d]
      n == [net EXCEPT !.conn[d] =
             [c EXCEPT !.op = "ok", !.status = IF d = Main THEN "Signed" ELSE "HasDhKey",
                       !.importing = IF d # Main /\ d \in exported THEN @ + 1 ELSE @]]
  IN  /\ c.op = "running"
      /\ net' = IF c.heard /\ cur # NoFile /\ net.child = d THEN Connected(n, cur) ELSE n
      /\ UNCHANGED <<fileVars, dataVars, exported, posted, crashed, losses, disturbed>>

\* The socket reports an error, or the server sends an error packet, before the
\* operation has finished.
ConnectFails(d) ==
  LET n == [net EXCEPT !.conn[d].op = "failed", !.conn[d].status = "Failed"] IN
  /\ net.conn[d].op = "running" /\ losses < MaxLosses
  /\ losses' = losses + 1
  /\ IF net.conn[d].heard /\ cur # NoFile /\ net.child = d THEN Finish(n, cur, "failed")
     ELSE net' = n /\ UNCHANGED fileVars
  /\ UNCHANGED <<dataVars, exported, posted, crashed, disturbed>>

\* onRpcExportAuthorizationResult
ExportAnswered(d) ==
  /\ net.exporting[d] > 0
  /\ exported' = exported \cup {d}
  /\ net' = [net EXCEPT !.exporting[d] = @ - 1,
                        !.conn[d].importing = IF net.conn[d].status = "HasDhKey" THEN @ + 1 ELSE @]
  /\ UNCHANGED <<fileVars, dataVars, posted, crashed, losses, disturbed>>

\* The connection is there and nothing under way authorizes it: it keeps its key, is never
\* signed, and a download over it waits for nothing.
NeverSigned(n, d) ==
  /\ n.exporting[d] = 0 /\ n.conn[d].importing = 0
  /\ n.conn[d].status = "HasDhKey" \/ (n.conn[d].op = "running" /\ d \notin exported)

\* the same, "TODO: Implement 'op failed' case"
ExportFails(d) ==
  /\ net.exporting[d] > 0 /\ losses < MaxLosses
  /\ losses' = losses + 1
  /\ net' = [net EXCEPT !.exporting[d] = @ - 1]
  /\ disturbed' = (disturbed \/ NeverSigned(net', d))
  /\ UNCHANGED <<fileVars, dataVars, exported, posted, crashed>>

\* fault: setStatus reports the status although it is the same as before.
SignedAgain(n, d) ==
  LET m == [n EXCEPT !.conn[d].status = "Signed"] IN
  IF Needed(d) /\ n.conn[d].listening THEN GetFile(m, cur, offset[cur]) ELSE m

\* setStatus(Signed) and processConnectionStatus
Signed(n, d) ==
  LET m == [n EXCEPT !.conn[d].status = "Signed"] IN
  IF n.conn[d].status # "Signed" /\ Needed(d) /\ n.conn[d].listening
    THEN GetFile(m, cur, offset[cur]) ELSE m

\* onRpcImportAuthorizationResult
ImportAnswered(d) ==
  /\ net.conn[d].importing > 0
  /\ net' = Signed([net EXCEPT !.conn[d].importing = @ - 1], d)
  /\ UNCHANGED <<fileVars, dataVars, exported, posted, crashed, losses, disturbed>>

\* the same, "TODO: Implement 'op failed' case": runImportAuthorization has refused the
\* authorization.
ImportFails(d) ==
  /\ net.conn[d].importing > 0 /\ losses < MaxLosses
  /\ losses' = losses + 1
  /\ net' = [net EXCEPT !.conn[d].importing = @ - 1]
  /\ disturbed' = (disturbed \/ NeverSigned(net', d))
  /\ UNCHANGED <<fileVars, dataVars, exported, posted, crashed>>
-----------------------------------------------------------------------------
\* runGetFile, for a file the server has and an offset it accepts
ReadFile(r) ==
  LET left == IF Size[r.file] < r.offset THEN 0 ELSE Size[r.file] - r.offset
  IN  [i \in 1..(IF left < ChunkSize THEN left ELSE ChunkSize) |-> r.offset + i - 1]

\* fault: the descriptor keeps its offset.
OffsetKept(f, total) == [offset EXCEPT ![f] = @]

\* fault: the offset is that of the next part, whatever was received.
OffsetOfNextPart(f, total) == [offset EXCEPT ![f] = @ + ChunkSize]

\* setOffset
SetOffset(f, total) == [offset EXCEPT ![f] = total]

IsFinished(f, total, bytes) ==
  IF Declared[f] # 0 THEN total = Declared[f] ELSE bytes = <<>> \/ Len(bytes) % Unit # 0

\* onGetFileResult
GetFileAnswered(d) ==
  LET r == Head(net.rpc[d])
      n == [net EXCEPT !.rpc[d] = Tail(@)]
      bytes == ReadFile(r)
      total == offset[r.file] + Len(bytes)
  IN  /\ net.rpc[d] # <<>>
      /\ \/ /\ r.file \in Missing \/ r.offset % Unit # 0
            /\ Finish(n, r.file, "failed")
            /\ UNCHANGED dataVars
         \/ /\ r.file \notin Missing /\ r.offset % Unit = 0
            /\ written' = [written EXCEPT ![r.file] = @ \o bytes]
            /\ IF Declared[r.file] # 0 /\ bytes = <<>>
                 THEN Finish(n, r.file, "failed") /\ UNCHANGED offset
               ELSE IF IsFinished(r.file, total, bytes)
                 THEN Finish(n, r.file, "ok") /\ UNCHANGED offset
               ELSE /\ offset' = SetOffset(r.file, total)
                    /\ net' = GetFile(n, r.file, offset'[r.file])
                    /\ UNCHANGED fileVars
      /\ UNCHANGED <<exported, posted, crashed, losses, disturbed>>

\* fault: a call that fails with the connection is forgotten.
RetryNever(d) == posted

\* onGetFileResult of the calls that fail with the connection
Retry(d) == posted \/ \E i \in DOMAIN net.rpc[d] : net.rpc[d][i].file = cur

\* The server sends an error packet after the operation has succeeded: its result is
\* overwritten without a signal.
ErrorPacket(d) ==
  /\ net.conn[d].op = "ok" /\ losses < MaxLosses
  /\ losses' = losses + 1
  /\ posted' = Retry(d)
  /\ net' = [net EXCEPT !.rpc[d] = <<>>, !.conn[d].op = "failed", !.conn[d].status = "Failed",
                        !.conn[d].importing = 0]
  /\ disturbed' = (disturbed \/ (Needed(d) /\ net.rpc[d] = <<>> /\ ~posted))
  /\ UNCHANGED <<fileVars, dataVars, exported, crashed>>

\* The socket is disconnected: the calls fail, ConnectionApi deletes the operation and
\* the connection, and processConnectionStatus opens a new one that nobody waits for.
Disconnected(d) ==
  LET c == net.conn[d]
      n == [net EXCEPT !.rpc[d] = <<>>, !.conn[d] = NoConnection]
  IN  /\ c.op # "none" /\ losses < MaxLosses
      /\ losses' = losses + 1
      /\ posted' = Retry(d)
      /\ net' = IF c.listening /\ Needed(d) THEN ConnectToExtraDc(n, d) ELSE n
      /\ disturbed' = (disturbed \/ (Needed(d) /\ net.rpc[d] = <<>> /\ ~posted))
      /\ UNCHANGED <<fileVars, dataVars, exported, crashed>>

\* the queued processCurrentRequest
RunPosted ==
  /\ posted /\ cur # NoFile
  /\ posted' = FALSE
  /\ IF HasFailed(net, cur) THEN Finish(net, cur, "failed")
     ELSE net' = ProcessCurrentRequest(net, cur) /\ UNCHANGED fileVars
  /\ UNCHANGED <<dataVars, exported, crashed, losses, disturbed>>

\* The delayed failure of an operation that has no connection: onConnectOperationFinished
\* asks the connection for its DC before it looks at the failure.
FinishWithoutConnection ==
  /\ net.child = "fail"
  /\ crashed' = TRUE
  /\ UNCHANGED <<fileVars, dataVars, net, exported, posted, losses, disturbed>>
-----------------------------------------------------------------------------
Progress ==
  \/ \E d \in DCs : HasDhKey(d) \/ ExportAnswered(d) \/ ImportAnswered(d) \/ GetFileAnswered(d)
  \/ RunPosted \/ FinishWithoutConnection

Next ==
  /\ ~crashed
  /\ \/ \E f \in Files : DownloadFile(f)
     \/ \E d \in DCs : HasDhKey(d) \/ ExportAnswered(d) \/ ImportAnswered(d) \/ GetFileAnswered(d)
     \/ RunPosted \/ FinishWithoutConnection
     \/ \E d \in DCs : ConnectFails(d) \/ ExportFails(d) \/ ImportFails(d)
     \/ \E d \in DCs : ErrorPacket(d) \/ Disconnected(d)

Spec == Init /\ [][Next]_vars

\* The network and the server go on, and the event loop runs what is posted.
FairSpec == Spec /\ WF_vars(~crashed /\ Progress)
-----------------------------------------------------------------------------
ConnType ==
  [op : {"none", "running", "ok", "failed"},
   status : {"none", "Connecting", "HasDhKey", "Signed", "Failed"},
   heard : BOOLEAN, listening : BOOLEAN, importing : Nat]

NetType ==
  [conn : [DCs -> ConnType],
   child : {"none", "rpc", "fail"} \cup DCs,
   rpc : [DCs -> Seq([file : Files, offset : Nat])],
   exporting : [DCs -> Nat]]

\* The types of the variables; an offset is never beyond the end of the file.
TypeOK ==
  /\ queue \in Seq(Files) /\ cur \in Files \cup {NoFile}
  /\ result \in [Files -> {"new", "wanted", "ok", "failed"}]
  /\ offset \in [Files -> Nat] /\ \A f \in Files : offset[f] <= Size[f]
  /\ written \in [Files -> Seq(Nat)]
  /\ net \in NetType
  /\ exported \subseteq DCs /\ posted \in BOOLEAN /\ crashed \in BOOLEAN
  /\ disturbed \in BOOLEAN /\ losses \in 0..MaxLosses

\* Whatever is lost and asked for again, a device holds the beginning of its file, each
\* byte once and in its place (onGetFileResult writes at the end of the device); a
\* download that succeeded holds as many bytes as the file was said to have, or all.
WrittenExactly ==
  \A f \in Files :
    /\ written[f] = [i \in 1..Len(written[f]) |-> i - 1]
    /\ result[f] = "ok" => Len(written[f]) = IF Declared[f] # 0 THEN Declared[f] ELSE Size[f]

\* At most one getFile call is under way, it is the current file's and asks for what the
\* device does not have; the retry that onGetFileResult posts is for a current operation
\* that has no call ("We can work only with one queue ATM").
OneTransfer ==
  /\ \A d \in DCs : net.rpc[d] # <<>> =>
       /\ Needed(d) /\ net.child = "rpc"
       /\ net.rpc[d] = <<[file |-> cur, offset |-> Len(written[cur])]>>
  /\ posted => cur # NoFile /\ \A d \in DCs : net.rpc[d] = <<>>

\* Every download ends, also one whose calls are lost with their connection and those that
\* wait in m_fileRequests behind others, unless a connection goes while the current
\* download has no call in it, an authorization is not exported or not imported, or a file
\* of a DC that the configuration lacks has crashed the program.
DownloadsEnd ==
  \A f \in Files :
    (result[f] = "wanted") ~> \/ result[f] \in {"ok", "failed"}
                              \/ disturbed
                              \/ crashed /\ Dc[cur] \notin DCs

=============================================================================
