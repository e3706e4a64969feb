---------------------------- MODULE FilesProofs ----------------------------
(***************************************************************************)
(* Proofs about FilesApi, for any files, DCs, sizes and number of losses.  *)
(***************************************************************************)
EXTENDS FilesApi, SequenceTheorems, TLAPS

(***************************************************************************)
(* The inductive invariant.                                                *)
(***************************************************************************)
\* Only the connection of an operation that has succeeded waits for an authorization.
ConnOK(n) ==
  \A d \in DCs : n.conn[d].status = "HasDhKey" \/ n.conn[d].importing > 0
                   => n.conn[d].op = "ok"

\* A call is that of the current file c, alone, for the bytes from off[c] on, and over
\* the signed connection of the file's DC; and it waits for no other connection.
CallsOK(n, c, off) ==
  /\ \A d \in DCs : n.rpc[d] # <<>> =>
       /\ c # NoFile /\ Dc[c] = d
       /\ n.rpc[d] = <<[file |-> c, offset |-> off[c]]>>
       /\ n.child = "rpc" /\ n.conn[d].op = "ok" /\ n.conn[d].status = "Signed"
  /\ n.child \in DCs => c # NoFile /\ Dc[c] = n.child

NoCalls(n) == \A d \in DCs : n.rpc[d] = <<>>

\* While a retry is queued nothing else can start the transfer: the connection that
\* FilesApi listens to is the failed one.
PostedOK ==
  posted => /\ cur \in Files /\ Dc[cur] \in DCs
            /\ net.child = "rpc" /\ NoCalls(net)
            /\ net.conn[Dc[cur]].listening => net.conn[Dc[cur]].op = "failed"

\* A file is the current one or in the list once, and not after it has finished.
Listed(list, res) ==
  /\ \A i \in DOMAIN list : res[list[i]] = "wanted"
  /\ \A i, j \in DOMAIN list : list[i] = list[j] => i = j

QueueOK ==
  /\ Listed(queue, result)
  /\ cur # NoFile => result[cur] = "wanted" /\ \A i \in DOMAIN queue : queue[i] # cur

\* The device of a file that has not finished holds the bytes up to the offset.
OffsetsOK ==
  \A f \in Files : result[f] \in {"new", "wanted"} => offset[f] = Len(written[f])

FilesInv ==
  /\ TypeOK
  /\ ConnOK(net) /\ CallsOK(net, cur, offset) /\ PostedOK
  /\ QueueOK
  /\ OffsetsOK /\ WrittenExactly

\* The invariant implies that there is one transfer at a time.
LEMMA InvOneTransfer == FilesInv => OneTransfer
<1>. SUFFICES ASSUME FilesInv PROVE OneTransfer
  OBVIOUS
<1>1. cur # NoFile => offset[cur] = Len(written[cur])
  BY DEF FilesInv, TypeOK, QueueOK, OffsetsOK
<1>2. \A d \in DCs : net.rpc[d] # <<>> =>
        /\ Needed(d) /\ net.child = "rpc"
        /\ net.rpc[d] = <<[file |-> cur, offset |-> Len(written[cur])]>>
  BY <1>1 DEF FilesInv, CallsOK, Needed
<1>3. posted => cur # NoFile /\ \A d \in DCs : net.rpc[d] = <<>>
  BY FilesAssumption DEF FilesInv, PostedOK, NoCalls
<1> QED
  BY <1>2, <1>3 DEF OneTransfer
-----------------------------------------------------------------------------
(***************************************************************************)
(* What the steps of a download do to the connections and calls.           *)
(***************************************************************************)

\* connectToExtraDc leaves an operation that is there alone.
LEMMA ConnectToExtraDcFacts ==
  ASSUME NEW n \in NetType, NEW d \in DCs, ConnOK(n)
  PROVE  LET m == ConnectToExtraDc(n, d)
         IN  /\ m \in NetType /\ ConnOK(m)
             /\ m.rpc = n.rpc /\ m.child = n.child
             /\ \A e \in DCs : e # d => m.conn[e] = n.conn[e]
             /\ m.conn[d] = IF n.conn[d].op # "none" THEN n.conn[d] ELSE NewConnection
<1>1. CASE n.conn[d].op # "none"
  BY <1>1 DEF ConnectToExtraDc
<1>2. CASE n.conn[d].op = "none"
  <2>. DEFINE e == IF d # Main /\ d \notin exported THEN n.exporting[d] + 1 ELSE n.exporting[d]
              m == ConnectToExtraDc(n, d)
  <2>1. m = [n EXCEPT !.conn = [n.conn EXCEPT ![d] = NewConnection],
                      !.exporting = [n.exporting EXCEPT ![d] = e]]
    BY <1>2 DEF ConnectToExtraDc, NetType
  <2>2. e \in Nat
    BY DEF NetType, ConnType
  <2>. HIDE DEF e
  <2>3. NewConnection \in ConnType
        /\ NewConnection.status = "Connecting" /\ NewConnection.importing = 0
    BY DEF NewConnection, NoConnection, ConnType
  <2>. HIDE DEF m
  <2>4. /\ m \in NetType /\ m.rpc = n.rpc /\ m.child = n.child
        /\ m.conn = [n.conn EXCEPT ![d] = NewConnection]
    BY <2>1, <2>2, <2>3 DEF NetType, ConnType
  <2>5. /\ \A x \in DCs : x # d => m.conn[x] = n.conn[x]
        /\ m.conn[d] = NewConnection
    BY <2>4 DEF NetType, ConnType
  <2>6. ConnOK(m)
    BY <2>3, <2>5 DEF ConnOK
  <2> QED
    BY <1>2, <2>4, <2>5, <2>6 DEF m
<1> QED
  BY <1>1, <1>2

\* processFileRequestForConnection: the only call is the new one.
LEMMA GetFileFacts ==
  ASSUME NEW n \in NetType, ConnOK(n), NoCalls(n), NEW f \in Files, Dc[f] \in DCs,
         NEW off \in [Files -> Nat],
         n.conn[Dc[f]].op = "ok", n.conn[Dc[f]].status = "Signed"
  PROVE  LET m == GetFile(n, f, off[f])
         IN  m \in NetType /\ ConnOK(m) /\ CallsOK(m, f, off) /\ m.conn = n.conn
<1>. DEFINE d == Dc[f]
            call == [file |-> f, offset |-> off[f]]
            m == GetFile(n, f, off[f])
<1>1. call \in [file : Files, offset : Nat] /\ n.rpc[d] = <<>>
  BY DEF NoCalls
<1>2. Append(n.rpc[d], call) = <<call>> /\ <<call>> \in Seq([file : Files, offset : Nat])
  BY <1>1
<1>3. m = [n EXCEPT !.child = "rpc", !.rpc = [n.rpc EXCEPT ![d] = <<call>>]]
  BY <1>2 DEF GetFile, NetType
<1>. HIDE DEF m, call
<1>4. m \in NetType /\ m.conn = n.conn /\ m.child = "rpc" /\ m.rpc = [n.rpc EXCEPT ![d] = <<call>>]
  BY <1>2, <1>3 DEF NetType, ConnType
<1>5. ConnOK(m)
  BY <1>4 DEF ConnOK
<1>6. CallsOK(m, f, off)
  <2>. SUFFICES ASSUME NEW e \in DCs, m.rpc[e] # <<>>
                PROVE  /\ f # NoFile /\ Dc[f] = e
                       /\ m.rpc[e] = <<[file |-> f, offset |-> off[f]]>>
                       /\ m.child = "rpc" /\ m.conn[e].op = "ok" /\ m.conn[e].status = "Signed"
    BY <1>4, FilesAssumption DEF CallsOK
  <2>1. e = d /\ m.rpc[e] = <<call>>
    BY <1>4 DEF NetType, ConnType, NoCalls
  <2> QED
    BY <1>4, <2>1, FilesAssumption DEF call
<1> QED
  BY <1>4, <1>5, <1>6 DEF m

\* The connection of a file's DC is there and has a key.
LEMMA ConnectedFacts ==
  ASSUME NEW n \in NetType, ConnOK(n), NoCalls(n), offset \in [Files -> Nat],
         NEW f \in Files, Dc[f] \in DCs, n.conn[Dc[f]].op = "ok"
  PROVE  LET m == Connected(n, f) IN m \in NetType /\ ConnOK(m) /\ CallsOK(m, f, offset)
<1>. DEFINE d == Dc[f]
            w == [n EXCEPT !.child = "none", !.conn[d].listening = TRUE]
            c == [n.conn[d] EXCEPT !.listening = TRUE]
<1>1. w = [n EXCEPT !.child = "none", !.conn = [n.conn EXCEPT ![d] = c]]
  BY DEF NetType, ConnType
<1>2. c \in ConnType
      /\ c.op = n.conn[d].op /\ c.status = n.conn[d].status /\ c.importing = n.conn[d].importing
  <2>1. n.conn[d] \in ConnType
    BY DEF NetType
  <2> QED
    BY <2>1 DEF ConnType
<1>3. Connected(n, f) = IF n.conn[d].status = "Signed" THEN GetFile(w, f, offset[f]) ELSE w
  BY DEF Connected
<1>. HIDE DEF w, c
<1>4. w \in NetType /\ w.rpc = n.rpc /\ w.child = "none" /\ w.conn = [n.conn EXCEPT ![d] = c]
  BY <1>1, <1>2 DEF NetType, ConnType
<1>5. w.conn[d] = c /\ \A e \in DCs : e # d => w.conn[e] = n.conn[e]
  BY <1>4 DEF NetType, ConnType
<1>6. ConnOK(w)
  BY <1>2, <1>5 DEF ConnOK
<1>7. NoCalls(w) /\ CallsOK(w, f, offset)
  BY <1>4, FilesAssumption DEF NoCalls, CallsOK
<1>8. CASE n.conn[d].status = "Signed"
  <2>1. w.conn[Dc[f]].op = "ok" /\ w.conn[Dc[f]].status = "Signed"
    BY <1>2, <1>5, <1>8
  <2>2. LET m == GetFile(w, f, offset[f])
        IN  m \in NetType /\ ConnOK(m) /\ CallsOK(m, f, offset) /\ m.conn = w.conn
    BY <1>4, <1>6, <1>7, <2>1, GetFileFacts
  <2> QED
    BY <1>3, <1>8, <2>2
<1>9. CASE n.conn[d].status # "Signed"
  BY <1>3, <1>4, <1>6, <1>7, <1>9
<1> QED
  BY <1>8, <1>9

\* processCurrentRequest of a file whose connection has not failed.
LEMMA CurrentFacts ==
  ASSUME NEW n \in NetType, ConnOK(n), NoCalls(n), offset \in [Files -> Nat],
         NEW f \in Files, ~HasFailed(n, f)
  PROVE  LET m == ProcessCurrentRequest(n, f)
         IN  m \in NetType /\ ConnOK(m) /\ CallsOK(m, f, offset)
<1>. DEFINE d == Dc[f]
            m == ProcessCurrentRequest(n, f)
<1>1. CASE d \notin DCs
  <2>1. m = [n EXCEPT !.child = "fail"]
    BY <1>1 DEF ProcessCurrentRequest
  <2>. HIDE DEF m
  <2>2. m \in NetType /\ m.rpc = n.rpc /\ m.conn = n.conn /\ m.child = "fail"
    BY <2>1 DEF NetType, ConnType
  <2> QED
    BY <2>2, FilesAssumption DEF m, ConnOK, CallsOK, NoCalls
<1>2. CASE d \in DCs
  <2>. DEFINE k == ConnectToExtraDc(n, d)
  <2>1. /\ k \in NetType /\ ConnOK(k) /\ k.rpc = n.rpc
        /\ k.conn[d] = IF n.conn[d].op # "none" THEN n.conn[d] ELSE NewConnection
    BY <1>2, ConnectToExtraDcFacts
  <2>2. m = IF k.conn[d].op = "running" THEN [k EXCEPT !.child = d, !.conn[d].heard = TRUE]
            ELSE Connected(k, f)
    BY <1>2 DEF ProcessCurrentRequest
  <2>3. NewConnection.op = "running"
    BY DEF NewConnection, NoConnection, ConnType
  <2>4. n.conn[d].op # "failed"
    BY <1>2 DEF HasFailed
  <2>. HIDE DEF m, k
  <2>5. k.conn[d].op \in {"running", "ok"}
    BY <1>2, <2>1, <2>3, <2>4 DEF NetType, ConnType
  <2>6. CASE k.conn[d].op = "ok"
    BY <1>2, <2>1, <2>2, <2>6, ConnectedFacts DEF m, NoCalls
  <2>7. CASE k.conn[d].op = "running"
    <3>. DEFINE c == [k.conn[d] EXCEPT !.heard = TRUE]
    <3>1. m = [k EXCEPT !.child = d, !.conn = [k.conn EXCEPT ![d] = c]]
      BY <2>1, <2>2, <2>7 DEF NetType, ConnType
    <3>2. c \in ConnType
          /\ c.op = k.conn[d].op /\ c.status = k.conn[d].status
          /\ c.importing = k.conn[d].importing
      <4>1. k.conn[d] \in ConnType
        BY <1>2, <2>1 DEF NetType, ConnType
      <4> QED
        BY <4>1 DEF ConnType
    <3>. HIDE DEF c
    <3>3. m \in NetType /\ m.rpc = k.rpc /\ m.child = d /\ m.conn = [k.conn EXCEPT ![d] = c]
      BY <1>2, <2>1, <3>1, <3>2 DEF NetType, ConnType
    <3>4. m.conn[d] = c /\ \A e \in DCs : e # d => m.conn[e] = k.conn[e]
      BY <1>2, <2>1, <3>3 DEF NetType, ConnType
    <3>5. ConnOK(m)
      BY <2>1, <3>2, <3>4 DEF ConnOK
    <3>6. CallsOK(m, f, offset)
      BY <2>1, <3>3, FilesAssumption DEF CallsOK, NoCalls
    <3> QED
      BY <3>3, <3>5, <3>6 DEF m
  <2> QED
    BY <2>5, <2>6, <2>7
<1> QED
  BY <1>1, <1>2

\* processNextRequest: the files that fail at once and the new current one come from
\* the list, and the list that is left keeps its order.
LEMMA NextRequestFacts ==
  ASSUME NEW nt \in NetType, ConnOK(nt), NoCalls(nt), offset \in [Files -> Nat],
         NEW list \in Seq(Files), NEW res \in [Files -> {"new", "wanted", "ok", "failed"}],
         Listed(list, res), ProcessNextRequest(nt, list, res)
  PROVE  /\ queue' \in Seq(Files) /\ cur' \in Files \cup {NoFile}
         /\ result' \in [Files -> {"new", "wanted", "ok", "failed"}]
         /\ net' \in NetType /\ ConnOK(net') /\ CallsOK(net', cur', offset)
         /\ QueueOK'
         /\ \A f \in Files : result'[f] = res[f] \/ result'[f] = "failed"
<1>1. PICK k \in 0..Len(list) :
      /\ \A i \in 1..k : HasFailed(nt, list[i])
      /\ k < Len(list) => ~HasFailed(nt, list[k + 1])
      /\ result' = [f \in Files |-> IF \E i \in 1..k : list[i] = f THEN "failed" ELSE res[f]]
      /\ queue' = SubSeq(list, k + 2, Len(list))
      /\ cur' = IF k = Len(list) THEN NoFile ELSE list[k + 1]
      /\ net' = IF k = Len(list) THEN [nt EXCEPT !.child = "none"]
                                 ELSE ProcessCurrentRequest(nt, list[k + 1])
  BY DEF ProcessNextRequest
<1>2. k \in Nat /\ Len(list) \in Nat /\ k <= Len(list) /\ DOMAIN list = 1..Len(list)
  OBVIOUS
<1>3. queue' \in Seq(Files) /\ DOMAIN queue' = 1..Len(queue')
      /\ \A i \in DOMAIN queue' : i + k + 1 \in DOMAIN list /\ queue'[i] = list[i + k + 1]
  <2>. DEFINE m == k + 2
              n == Len(list)
  <2>1. m \in Int /\ n \in Int /\ \A i \in m..n : list[i] \in Files
    BY <1>2
  <2>2. /\ SubSeq(list, m, n) \in Seq(Files)
        /\ Len(SubSeq(list, m, n)) = IF m <= n THEN n - m + 1 ELSE 0
        /\ \A i \in 1..(n - m + 1) : SubSeq(list, m, n)[i] = list[m + i - 1]
    <3>. HIDE DEF m, n
    <3> QED
      BY <2>1, SubSeqProperties
  <2>3. queue' = SubSeq(list, m, n)
    BY <1>1
  <2>4. /\ queue' \in Seq(Files)
        /\ \A i \in 1..Len(queue') : /\ i + k + 1 \in 1..Len(list)
                                      /\ queue'[i] = list[i + k + 1]
    <3>1. queue' \in Seq(Files)
      BY <2>2, <2>3
    <3>2. ASSUME NEW i \in 1..Len(queue')
          PROVE  i + k + 1 \in 1..Len(list) /\ queue'[i] = list[i + k + 1]
      <4>1. /\ Len(queue') \in Nat /\ i \in Nat /\ i >= 1 /\ i <= Len(queue')
            /\ k + 2 <= Len(list) => Len(queue') = Len(list) - (k + 2) + 1
            /\ ~(k + 2 <= Len(list)) => Len(queue') = 0
        BY <2>2, <2>3, <3>1
      <4>2. Len(list) \in Nat /\ k \in Nat
        BY <1>2
      <4>3. i \in 1..(Len(list) - (k + 2) + 1)
        BY <4>1, <4>2
      <4>4. (k + 2) + i - 1 = i + k + 1 /\ i + k + 1 \in 1..Len(list)
        BY <4>1, <4>2
      <4>5. SubSeq(list, m, n)[i] = list[m + i - 1]
        BY <2>2, <4>3
      <4> QED
        BY <2>3, <4>4, <4>5
    <3> QED
      BY <3>1, <3>2
  <2>5. DOMAIN queue' = 1..Len(queue')
    BY <2>4
  <2> QED
    BY <1>2, <2>4, <2>5
<1>4. k # Len(list) => k + 1 \in DOMAIN list /\ cur' = list[k + 1] /\ list[k + 1] \in Files
  BY <1>1, <1>2
<1>5. result' \in [Files -> {"new", "wanted", "ok", "failed"}]
      /\ \A f \in Files : result'[f] = res[f] \/ result'[f] = "failed"
  BY <1>1
<1>6. \A j \in DOMAIN list : j > k => result'[list[j]] = "wanted"
  <2>. SUFFICES ASSUME NEW j \in DOMAIN list, j > k PROVE result'[list[j]] = "wanted"
    OBVIOUS
  <2>1. ~\E i \in 1..k : list[i] = list[j]
    BY <1>2 DEF Listed
  <2> QED
    BY <1>1, <1>2, <2>1 DEF Listed
<1>7. QueueOK'
  <2>1. \A i \in DOMAIN queue' : result'[queue'[i]] = "wanted"
    BY <1>2, <1>3, <1>6
  <2>2. \A i, j \in DOMAIN queue' : queue'[i] = queue'[j] => i = j
    <3>. SUFFICES ASSUME NEW i \in DOMAIN queue', NEW j \in DOMAIN queue', queue'[i] = queue'[j]
                  PROVE  i = j
      OBVIOUS
    <3>1. i + k + 1 = j + k + 1
      BY <1>3 DEF Listed
    <3> QED
      BY <1>2, <1>3, <3>1
  <2>3. cur' # NoFile => result'[cur'] = "wanted" /\ \A i \in DOMAIN queue' : queue'[i] # cur'
    <3>. SUFFICES ASSUME cur' # NoFile
                  PROVE  result'[cur'] = "wanted" /\ \A i \in DOMAIN queue' : queue'[i] # cur'
      OBVIOUS
    <3>1. k + 1 \in DOMAIN list /\ cur' = list[k + 1]
      BY <1>1, <1>4
    <3>2. \A i \in DOMAIN queue' : i + k + 1 # k + 1
      BY <1>2, <1>3
    <3>3. \A i \in DOMAIN queue' : queue'[i] # cur'
      BY <1>3, <3>1, <3>2 DEF Listed
    <3> QED
      BY <1>2, <1>6, <3>1, <3>3
  <2> QED
    BY <2>1, <2>2, <2>3 DEF QueueOK, Listed
<1>8. CASE k = Len(list)
  <2>1. net' = [nt EXCEPT !.child = "none"] /\ cur' = NoFile
    BY <1>1, <1>8
  <2>2. net' \in NetType /\ net'.rpc = nt.rpc /\ net'.conn = nt.conn /\ net'.child = "none"
    BY <2>1 DEF NetType, ConnType
  <2>3. ConnOK(net') /\ CallsOK(net', cur', offset)
    BY <2>2, FilesAssumption DEF ConnOK, CallsOK, NoCalls
  <2> QED
    BY <1>3, <1>5, <1>7, <2>1, <2>2, <2>3
<1>9. CASE k # Len(list)
  <2>1. net' = ProcessCurrentRequest(nt, list[k + 1]) /\ ~HasFailed(nt, list[k + 1])
    BY <1>1, <1>2, <1>9
  <2>2. net' \in NetType /\ ConnOK(net') /\ CallsOK(net', cur', offset)
    BY <1>4, <1>9, <2>1, CurrentFacts
  <2> QED
    BY <1>3, <1>4, <1>5, <1>7, <1>9, <2>2
<1> QED
  BY <1>8, <1>9

\* The current operation finishes.
LEMMA FinishFacts ==
  ASSUME TypeOK, QueueOK, NEW nt \in NetType, ConnOK(nt), NoCalls(nt), cur \in Files,
         NEW outcome \in {"ok", "failed"}, Finish(nt, cur, outcome)
  PROVE  /\ queue' \in Seq(Files) /\ cur' \in Files \cup {NoFile}
         /\ result' \in [Files -> {"new", "wanted", "ok", "failed"}]
         /\ net' \in NetType /\ ConnOK(net') /\ CallsOK(net', cur', offset)
         /\ QueueOK'
         /\ \A f \in Files : result'[f] = result[f] \/ result'[f] = "failed"
                               \/ (f = cur /\ result'[f] = outcome)
<1>. DEFINE res == [result EXCEPT ![cur] = outcome]
<1>1. ProcessNextRequest(nt, queue, res)
  BY DEF Finish
<1>2. res \in [Files -> {"new", "wanted", "ok", "failed"}] /\ res[cur] = outcome
      /\ \A f \in Files : f # cur => res[f] = result[f]
  BY DEF TypeOK
<1>3. cur # NoFile /\ \A i \in DOMAIN queue : queue[i] \in Files /\ queue[i] # cur
  BY FilesAssumption DEF TypeOK, QueueOK
<1>. HIDE DEF res
<1>4. Listed(queue, res)
  BY <1>2, <1>3 DEF QueueOK, Listed
<1>5. queue \in Seq(Files) /\ offset \in [Files -> Nat]
  BY DEF TypeOK
<1>6. /\ queue' \in Seq(Files) /\ cur' \in Files \cup {NoFile}
      /\ result' \in [Files -> {"new", "wanted", "ok", "failed"}]
      /\ net' \in NetType /\ ConnOK(net') /\ CallsOK(net', cur', offset)
      /\ QueueOK'
      /\ \A f \in Files : result'[f] = res[f] \/ result'[f] = "failed"
  BY <1>1, <1>2, <1>4, <1>5, NextRequestFacts
<1> QED
  BY <1>2, <1>6

\* An operation that has finished is not in the list any more.
LEMMA FinishedResult ==
  ASSUME NEW nt, cur \in Files, NEW outcome \in {"ok", "failed"}, Finish(nt, cur, outcome),
         result \in [Files -> {"new", "wanted", "ok", "failed"}]
  PROVE  result'[cur] \in {outcome, "failed"}
BY DEF Finish, ProcessNextRequest

\* A step that writes nothing and finishes nothing but in failure keeps what is said
\* of the devices.
LEMMA DataKept ==
  ASSUME TypeOK, OffsetsOK, WrittenExactly, UNCHANGED dataVars,
         \A f \in Files : result'[f] = result[f] \/ result'[f] = "failed"
                            \/ (result[f] = "new" /\ result'[f] = "wanted")
  PROVE  OffsetsOK' /\ WrittenExactly'
<1>1. offset' = offset /\ written' = written
  BY DEF dataVars
<1>2. OffsetsOK'
  BY <1>1 DEF OffsetsOK
<1>3. WrittenExactly'
  <2>1. \A f \in Files : result'[f] = "ok" => result[f] = "ok"
    OBVIOUS
  <2> QED
    BY <1>1, <2>1 DEF WrittenExactly
<1> QED
  BY <1>2, <1>3

\* Without a call under way no call has to be looked at.
LEMMA NoCallsFacts ==
  ASSUME FilesInv
  PROVE  /\ cur = NoFile => NoCalls(net)
         /\ net.child # "rpc" => NoCalls(net) /\ ~posted
         /\ posted => NoCalls(net) /\ cur # NoFile
         /\ \A d \in DCs : net.rpc[d] # <<>> =>
              /\ ~posted /\ cur \in Files /\ Dc[cur] = d
              /\ \A e \in DCs : e # d => net.rpc[e] = <<>>
<1>1. posted => NoCalls(net) /\ cur # NoFile
  BY FilesAssumption DEF FilesInv, PostedOK
<1>2. \A d \in DCs : net.rpc[d] # <<>> => ~posted /\ cur \in Files /\ Dc[cur] = d
  BY <1>1 DEF FilesInv, CallsOK, NoCalls, TypeOK
<1>3. cur = NoFile => NoCalls(net)
  BY <1>2, FilesAssumption DEF NoCalls
<1>4. net.child # "rpc" => NoCalls(net) /\ ~posted
  BY DEF FilesInv, CallsOK, NoCalls, PostedOK
<1> QED
  BY <1>1, <1>2, <1>3, <1>4
-----------------------------------------------------------------------------
(***************************************************************************)
(* One lemma for each event.                                               *)
(***************************************************************************)

\* downloadFile
LEMMA DownloadStep == ASSUME FilesInv, NEW f \in Files, DownloadFile(f) PROVE FilesInv'
<1>. DEFINE res == [result EXCEPT ![f] = "wanted"]
            list == Append(queue, f)
<1>1. /\ TypeOK /\ QueueOK /\ result[f] = "new"
      /\ UNCHANGED <<offset, written, exported, posted, crashed, losses, disturbed>>
  BY DEF FilesInv, DownloadFile, dataVars
<1>2. res \in [Files -> {"new", "wanted", "ok", "failed"}] /\ res[f] = "wanted"
      /\ \A g \in Files : g # f => res[g] = result[g]
  BY <1>1 DEF TypeOK
<1>3. /\ list \in Seq(Files) /\ DOMAIN list = 1..(Len(queue) + 1) /\ DOMAIN queue = 1..Len(queue)
      /\ Len(queue) \in Nat /\ list[Len(queue) + 1] = f
      /\ \A i \in DOMAIN queue : list[i] = queue[i] /\ queue[i] \in Files /\ queue[i] # f
  BY <1>1 DEF TypeOK, QueueOK, Listed
<1>4. Listed(list, res)
  <2>1. \A i \in DOMAIN list : i \in DOMAIN queue \/ i = Len(queue) + 1
    BY <1>3
  <2>. HIDE DEF list, res
  <2> QED
    BY <1>1, <1>2, <1>3, <2>1 DEF QueueOK, Listed
<1>5. CASE cur = NoFile
  <2>1. ProcessNextRequest(net, list, res)
    BY <1>5 DEF DownloadFile
  <2>2. NoCalls(net) /\ ~posted /\ net \in NetType /\ ConnOK(net) /\ offset \in [Files -> Nat]
    BY <1>1, <1>5, NoCallsFacts DEF FilesInv, TypeOK
  <2>. HIDE DEF list, res
  <2>3. /\ queue' \in Seq(Files) /\ cur' \in Files \cup {NoFile}
        /\ result' \in [Files -> {"new", "wanted", "ok", "failed"}]
        /\ net' \in NetType /\ ConnOK(net') /\ CallsOK(net', cur', offset)
        /\ QueueOK'
        /\ \A g \in Files : result'[g] = res[g] \/ result'[g] = "failed"
    BY <1>2, <1>3, <1>4, <2>1, <2>2, NextRequestFacts
  <2>4. OffsetsOK' /\ WrittenExactly'
    BY <1>1, <1>2, <2>3, DataKept DEF FilesInv, dataVars
  <2>5. TypeOK'
    BY <1>1, <2>3 DEF TypeOK
  <2> QED
    BY <1>1, <2>2, <2>3, <2>4, <2>5 DEF FilesInv, PostedOK
<1>6. CASE cur # NoFile
  <2>1. queue' = list /\ result' = res /\ UNCHANGED <<cur, net>>
    BY <1>6 DEF DownloadFile
  <2>. HIDE DEF list, res
  <2>2. TypeOK'
    BY <1>1, <1>2, <1>3, <2>1 DEF TypeOK
  <2>3. QueueOK'
    <3>1. cur \in Files /\ result[cur] = "wanted" /\ cur # f
      BY <1>1, <1>6 DEF TypeOK, QueueOK
    <3>2. \A i \in DOMAIN list : list[i] # cur
      BY <1>1, <1>3, <1>6, <3>1 DEF QueueOK
    <3> QED
      BY <1>2, <1>4, <2>1, <3>1, <3>2 DEF QueueOK
  <2>4. OffsetsOK' /\ WrittenExactly'
    BY <1>1, <1>2, <2>1, DataKept DEF FilesInv, dataVars
  <2>5. ConnOK(net') /\ CallsOK(net', cur', offset') /\ PostedOK'
    BY <1>1, <2>1 DEF FilesInv, PostedOK
  <2> QED
    BY <2>2, <2>3, <2>4, <2>5 DEF FilesInv
<1> QED
  BY <1>5, <1>6

\* One connection changes, and nothing else.
WithConn(n, d, c) == [n EXCEPT !.conn = [n.conn EXCEPT ![d] = c]]

\* What changes when one connection changes.
LEMMA ConnUpdated ==
  ASSUME NEW n \in NetType, ConnOK(n), NEW d \in DCs, NEW c \in ConnType,
         c.status = "HasDhKey" \/ c.importing > 0 => c.op = "ok"
  PROVE  LET m == WithConn(n, d, c)
         IN  /\ m \in NetType /\ ConnOK(m) /\ m.rpc = n.rpc /\ m.child = n.child
             /\ m.conn[d] = c /\ \A e \in DCs : e # d => m.conn[e] = n.conn[e]
<1>. DEFINE m == WithConn(n, d, c)
<1>1. m \in NetType /\ m.rpc = n.rpc /\ m.child = n.child /\ m.conn = [n.conn EXCEPT ![d] = c]
  BY DEF NetType, WithConn
<1>. HIDE DEF m
<1>2. m.conn[d] = c /\ \A e \in DCs : e # d => m.conn[e] = n.conn[e]
  BY <1>1 DEF NetType
<1>3. ConnOK(m)
  BY <1>2 DEF ConnOK
<1> QED
  BY <1>1, <1>2, <1>3 DEF m

\* An event that changes only the connections and the calls.
LEMMA NetStep ==
  ASSUME FilesInv, UNCHANGED <<fileVars, dataVars>>,
         net' \in NetType, ConnOK(net'), CallsOK(net', cur, offset), PostedOK',
         exported' \subseteq DCs, posted' \in BOOLEAN, crashed' \in BOOLEAN,
         disturbed' \in BOOLEAN, losses' \in 0..MaxLosses
  PROVE  FilesInv'
<1>1. UNCHANGED <<queue, cur, result, offset, written>>
  BY DEF fileVars, dataVars
<1>2. TypeOK'
  BY <1>1 DEF FilesInv, TypeOK
<1>3. QueueOK'
  BY <1>1 DEF FilesInv, QueueOK
<1>4. OffsetsOK' /\ WrittenExactly'
  BY <1>1 DEF FilesInv, OffsetsOK, WrittenExactly
<1> QED
  BY <1>1, <1>2, <1>3, <1>4 DEF FilesInv

\* The types of the variables a fault changes.
LEMMA LossType ==
  ASSUME TypeOK, losses < MaxLosses, losses' = losses + 1
  PROVE  losses' \in 0..MaxLosses
BY FilesAssumption DEF TypeOK

\* The key of a connection is there.
LEMMA HasDhKeyStep == ASSUME FilesInv, NEW d \in DCs, HasDhKey(d) PROVE FilesInv'
<1>. DEFINE c == net.conn[d]
            i == IF d # Main /\ d \in exported THEN c.importing + 1 ELSE c.importing
            st == IF d = Main THEN "Signed" ELSE "HasDhKey"
            cc == [c EXCEPT !.op = "ok", !.status = st, !.importing = i]
            n == WithConn(net, d, cc)
<1>1. /\ TypeOK /\ net \in NetType /\ ConnOK(net) /\ CallsOK(net, cur, offset) /\ PostedOK
      /\ offset \in [Files -> Nat] /\ c.op = "running"
  BY DEF FilesInv, TypeOK, HasDhKey
<1>2. net' = IF c.heard /\ cur # NoFile /\ net.child = d THEN Connected(n, cur) ELSE n
  BY <1>1 DEF HasDhKey, NetType, WithConn
<1>3. UNCHANGED <<fileVars, dataVars, exported, posted, crashed, losses, disturbed>>
  BY DEF HasDhKey
<1>4. c \in ConnType
  BY <1>1 DEF NetType
<1>5. cc \in ConnType /\ cc.op = "ok" /\ cc.listening = c.listening
  <2>1. i \in Nat /\ st \in {"HasDhKey", "Signed"}
    BY <1>4 DEF ConnType
  <2>. HIDE DEF i, st, c
  <2> QED
    BY <1>4, <2>1 DEF ConnType
<1>. HIDE DEF cc
<1>6. /\ n \in NetType /\ ConnOK(n) /\ n.rpc = net.rpc /\ n.child = net.child
      /\ n.conn[d] = cc /\ \A e \in DCs : e # d => n.conn[e] = net.conn[e]
  BY <1>1, <1>5, ConnUpdated
<1>. HIDE DEF n
<1>7. CASE c.heard /\ cur # NoFile /\ net.child = d
  <2>1. net.child # "rpc" /\ NoCalls(net) /\ ~posted
    BY <1>7, NoCallsFacts, FilesAssumption
  <2>2. cur \in Files /\ Dc[cur] = d
    BY <1>1, <1>7 DEF CallsOK, TypeOK
  <2>3. NoCalls(n) /\ n.conn[Dc[cur]].op = "ok"
    BY <1>5, <1>6, <2>1, <2>2 DEF NoCalls
  <2>4. net' \in NetType /\ ConnOK(net') /\ CallsOK(net', cur, offset)
    BY <1>1, <1>2, <1>6, <1>7, <2>2, <2>3, ConnectedFacts
  <2>5. PostedOK'
    BY <1>3, <2>1 DEF PostedOK
  <2> QED
    BY <1>1, <1>3, <2>4, <2>5, NetStep DEF TypeOK
<1>8. CASE ~(c.heard /\ cur # NoFile /\ net.child = d)
  <2>1. net' = n
    BY <1>2, <1>8
  <2>2. CallsOK(n, cur, offset)
    BY <1>1, <1>6 DEF CallsOK
  <2>3. PostedOK'
    BY <1>1, <1>3, <1>5, <1>6, <2>1 DEF PostedOK, NoCalls, fileVars
  <2> QED
    BY <1>1, <1>3, <1>6, <2>1, <2>2, <2>3, NetStep DEF TypeOK
<1> QED
  BY <1>7, <1>8

\* The operation that connects fails.
LEMMA ConnectFailsStep == ASSUME FilesInv, NEW d \in DCs, ConnectFails(d) PROVE FilesInv'
<1>. DEFINE c == net.conn[d]
            cc == [c EXCEPT !.op = "failed", !.status = "Failed"]
            n == WithConn(net, d, cc)
<1>1. /\ TypeOK /\ net \in NetType /\ ConnOK(net) /\ CallsOK(net, cur, offset) /\ PostedOK
      /\ QueueOK /\ c.op = "running" /\ losses' \in 0..MaxLosses
  BY LossType DEF FilesInv, TypeOK, ConnectFails
<1>2. [net EXCEPT !.conn[d].op = "failed", !.conn[d].status = "Failed"] = n
  BY <1>1 DEF NetType, WithConn
<1>3. IF c.heard /\ cur # NoFile /\ net.child = d THEN Finish(n, cur, "failed")
      ELSE net' = n /\ UNCHANGED fileVars
  BY <1>2 DEF ConnectFails
<1>4. UNCHANGED <<dataVars, exported, posted, crashed, disturbed>>
  BY DEF ConnectFails
<1>5. c \in ConnType
  BY <1>1 DEF NetType
<1>6. cc \in ConnType /\ cc.op = "failed" /\ cc.status = "Failed" /\ cc.listening = c.listening
      /\ cc.importing = c.importing
  BY <1>5 DEF ConnType
<1>7. ~(cc.importing > 0)
  BY <1>1, <1>6 DEF ConnOK
<1>. HIDE DEF cc
<1>8. /\ n \in NetType /\ ConnOK(n) /\ n.rpc = net.rpc /\ n.child = net.child
      /\ n.conn[d] = cc /\ \A e \in DCs : e # d => n.conn[e] = net.conn[e]
  BY <1>1, <1>6, <1>7, ConnUpdated
<1>. HIDE DEF n
<1>9. CASE c.heard /\ cur # NoFile /\ net.child = d
  <2>1. NoCalls(net) /\ ~posted /\ cur \in Files
    BY <1>1, <1>9, NoCallsFacts, FilesAssumption DEF TypeOK
  <2>2. NoCalls(n) /\ Finish(n, cur, "failed")
    BY <1>3, <1>8, <1>9, <2>1 DEF NoCalls
  <2>3. /\ queue' \in Seq(Files) /\ cur' \in Files \cup {NoFile}
        /\ result' \in [Files -> {"new", "wanted", "ok", "failed"}]
        /\ net' \in NetType /\ ConnOK(net') /\ CallsOK(net', cur', offset)
        /\ QueueOK'
        /\ \A f \in Files : result'[f] = result[f] \/ result'[f] = "failed"
    BY <1>1, <1>8, <2>1, <2>2, FinishFacts
  <2>4. OffsetsOK' /\ WrittenExactly'
    BY <1>1, <1>4, <2>3, DataKept DEF FilesInv
  <2>5. TypeOK'
    BY <1>1, <1>4, <2>3 DEF TypeOK, dataVars
  <2>6. CallsOK(net', cur', offset') /\ PostedOK'
    BY <1>4, <2>1, <2>3 DEF PostedOK, dataVars
  <2> QED
    BY <2>3, <2>4, <2>5, <2>6 DEF FilesInv
<1>10. CASE ~(c.heard /\ cur # NoFile /\ net.child = d)
  <2>1. net' = n /\ UNCHANGED fileVars
    BY <1>3, <1>10
  <2>2. CallsOK(n, cur, offset)
    BY <1>1, <1>8 DEF CallsOK
  <2>3. PostedOK'
    BY <1>1, <1>4, <1>6, <1>8, <2>1 DEF PostedOK, NoCalls, fileVars
  <2> QED
    BY <1>1, <1>4, <1>8, <2>1, <2>2, <2>3, NetStep DEF TypeOK
<1> QED
  BY <1>9, <1>10

\* Changing the count of the exports changes nothing else.
LEMMA ExportingUpdated ==
  ASSUME NEW n \in NetType, NEW d \in DCs, NEW k \in Nat
  PROVE  LET m == [n EXCEPT !.exporting = [n.exporting EXCEPT ![d] = k]]
         IN  m \in NetType /\ m.rpc = n.rpc /\ m.child = n.child /\ m.conn = n.conn
BY DEF NetType

\* The authorization is exported, or not.
LEMMA ExportStep ==
  ASSUME FilesInv, NEW d \in DCs, ExportAnswered(d) \/ ExportFails(d)
  PROVE  FilesInv'
<1>. DEFINE c == net.conn[d]
            x == [net EXCEPT !.exporting = [net.exporting EXCEPT ![d] = net.exporting[d] - 1]]
<1>1. /\ TypeOK /\ net \in NetType /\ ConnOK(net) /\ CallsOK(net, cur, offset) /\ PostedOK
      /\ c \in ConnType
  BY DEF FilesInv, TypeOK, NetType
<1>2. net.exporting[d] - 1 \in Nat
  BY <1>1 DEF ExportAnswered, ExportFails, NetType
<1>3. x \in NetType /\ x.rpc = net.rpc /\ x.child = net.child /\ x.conn = net.conn
  BY <1>1, <1>2, ExportingUpdated
<1>4. ConnOK(x) /\ CallsOK(x, cur, offset)
  BY <1>1, <1>3 DEF ConnOK, CallsOK
<1>5. CASE ExportFails(d)
  <2>1. net' = x /\ UNCHANGED <<fileVars, dataVars, exported, posted, crashed>>
        /\ disturbed' \in BOOLEAN /\ losses' \in 0..MaxLosses
    BY <1>1, <1>5, LossType DEF ExportFails, NetType
  <2>2. PostedOK'
    BY <1>1, <1>3, <2>1 DEF PostedOK, NoCalls, fileVars
  <2> QED
    BY <1>1, <1>3, <1>4, <2>1, <2>2, NetStep DEF TypeOK
<1>6. CASE ExportAnswered(d)
  <2>. DEFINE i == IF c.status = "HasDhKey" THEN c.importing + 1 ELSE c.importing
              cc == [c EXCEPT !.importing = i]
  <2>1. i \in Nat /\ (i > 0 => c.op = "ok")
    BY <1>1 DEF ConnType, ConnOK
  <2>2. net' = WithConn(x, d, cc)
    BY <1>1, <1>6 DEF ExportAnswered, NetType, WithConn
  <2>3. UNCHANGED <<fileVars, dataVars, posted, crashed, losses, disturbed>>
        /\ exported' = exported \cup {d}
    BY <1>6 DEF ExportAnswered
  <2>. HIDE DEF i
  <2>4. cc \in ConnType /\ cc.op = c.op /\ cc.status = c.status /\ cc.listening = c.listening
        /\ cc.importing = i
    <3>. HIDE DEF c
    <3> QED
      BY <1>1, <2>1 DEF ConnType
  <2>5. cc.status = "HasDhKey" \/ cc.importing > 0 => cc.op = "ok"
    BY <1>1, <2>1, <2>4 DEF ConnOK
  <2>. HIDE DEF cc, x
  <2>6. /\ net' \in NetType /\ ConnOK(net') /\ net'.rpc = x.rpc /\ net'.child = x.child
        /\ net'.conn[d] = cc /\ \A e \in DCs : e # d => net'.conn[e] = x.conn[e]
    BY <1>3, <1>4, <2>2, <2>4, <2>5, ConnUpdated
  <2>7. CallsOK(net', cur, offset)
    BY <1>1, <1>3, <2>4, <2>6 DEF CallsOK
  <2>8. PostedOK'
    BY <1>1, <1>3, <2>3, <2>4, <2>6 DEF PostedOK, NoCalls, fileVars
  <2>9. exported' \subseteq DCs
    BY <1>1, <2>3 DEF TypeOK
  <2> QED
    BY <1>1, <2>3, <2>6, <2>7, <2>8, <2>9, NetStep DEF TypeOK
<1> QED
  BY <1>5, <1>6

\* An authorization that is refused leaves the connection as it is.
LEMMA ImportFailsStep == ASSUME FilesInv, NEW d \in DCs, ImportFails(d) PROVE FilesInv'
<1>. DEFINE c == net.conn[d]
            i == c.importing - 1
            cc == [c EXCEPT !.importing = i]
<1>1. /\ TypeOK /\ net \in NetType /\ ConnOK(net) /\ CallsOK(net, cur, offset) /\ PostedOK
      /\ c \in ConnType /\ c.importing > 0
  BY DEF FilesInv, TypeOK, NetType, ImportFails
<1>2. i \in Nat /\ c.op = "ok"
  BY <1>1 DEF ConnType, ConnOK
<1>3. cc \in ConnType /\ cc.op = c.op /\ cc.status = c.status /\ cc.listening = c.listening
  <2>. HIDE DEF c, i
  <2> QED
    BY <1>1, <1>2 DEF ConnType
<1>4. net' = WithConn(net, d, cc)
  BY <1>1 DEF ImportFails, NetType, WithConn
<1>5. UNCHANGED <<fileVars, dataVars, exported, posted, crashed>>
      /\ disturbed' \in BOOLEAN /\ losses' \in 0..MaxLosses
  BY <1>1, LossType DEF ImportFails
<1>. HIDE DEF cc
<1>6. /\ net' \in NetType /\ ConnOK(net') /\ net'.rpc = net.rpc /\ net'.child = net.child
      /\ net'.conn[d] = cc /\ \A e \in DCs : e # d => net'.conn[e] = net.conn[e]
  BY <1>1, <1>2, <1>3, <1>4, ConnUpdated
<1>7. CallsOK(net', cur, offset)
  BY <1>1, <1>3, <1>6 DEF CallsOK
<1>8. PostedOK'
  BY <1>1, <1>3, <1>5, <1>6 DEF PostedOK, NoCalls, fileVars
<1> QED
  BY <1>1, <1>5, <1>6, <1>7, <1>8, NetStep DEF TypeOK

\* The authorization is imported: processConnectionStatus starts the transfer when the
\* current file waits for it.
LEMMA ImportStep == ASSUME FilesInv, NEW d \in DCs, ImportAnswered(d) PROVE FilesInv'
<1>. DEFINE c == net.conn[d]
            i == c.importing - 1
            c1 == [c EXCEPT !.importing = i]
            n1 == WithConn(net, d, c1)
            c2 == [c1 EXCEPT !.status = "Signed"]
            n == WithConn(n1, d, c2)
<1>1. /\ TypeOK /\ net \in NetType /\ ConnOK(net) /\ CallsOK(net, cur, offset) /\ PostedOK
      /\ c \in ConnType /\ c.importing > 0 /\ offset \in [Files -> Nat]
  BY DEF FilesInv, TypeOK, NetType, ImportAnswered
<1>2. i \in Nat /\ c.op = "ok"
  BY <1>1 DEF ConnType, ConnOK
<1>3. c1 \in ConnType /\ c1.op = c.op /\ c1.status = c.status /\ c1.listening = c.listening
  <2>. HIDE DEF c, i
  <2> QED
    BY <1>1, <1>2 DEF ConnType
<1>4. c2 \in ConnType /\ c2.op = c.op /\ c2.status = "Signed" /\ c2.listening = c.listening
  <2>. HIDE DEF c1
  <2> QED
    BY <1>3 DEF ConnType
<1>5. /\ n1 \in NetType /\ ConnOK(n1) /\ n1.rpc = net.rpc /\ n1.child = net.child
      /\ n1.conn[d] = c1 /\ \A e \in DCs : e # d => n1.conn[e] = net.conn[e]
  <2>. HIDE DEF c1
  <2> QED
    BY <1>1, <1>2, <1>3, ConnUpdated
<1>6. /\ n \in NetType /\ ConnOK(n) /\ n.rpc = net.rpc /\ n.child = net.child
      /\ n.conn[d] = c2 /\ \A e \in DCs : e # d => n.conn[e] = net.conn[e]
  <2>. HIDE DEF n1, c2
  <2> QED
    BY <1>2, <1>4, <1>5, ConnUpdated
<1>7. net' = Signed(n1, d)
  <2>1. n1 = [net EXCEPT !.conn[d].importing = @ - 1]
    BY <1>1 DEF WithConn, NetType
  <2> QED
    BY <2>1 DEF ImportAnswered
<1>8. UNCHANGED <<fileVars, dataVars, exported, posted, crashed, losses, disturbed>>
  BY DEF ImportAnswered
<1>9. [n1 EXCEPT !.conn[d].status = "Signed"] = n
  <2>1. n1.conn[d] = c1 /\ n1 \in NetType
    BY <1>5
  <2>. HIDE DEF n1, c1
  <2> QED
    BY <2>1 DEF WithConn, NetType
<1>10. net' = IF c.status # "Signed" /\ Needed(d) /\ c.listening
                THEN GetFile(n, cur, offset[cur]) ELSE n
  <2>. HIDE DEF n, n1, c1, c2
  <2> QED
    BY <1>3, <1>5, <1>7, <1>9 DEF Signed
<1>. HIDE DEF n, n1, c1, c2
<1>11. CASE c.status # "Signed" /\ Needed(d) /\ c.listening
  <2>1. cur \in Files /\ Dc[cur] = d
    BY <1>1, <1>11 DEF Needed, TypeOK
  <2>2. NoCalls(net)
    BY <1>1, <1>11, <2>1 DEF NoCalls, CallsOK
  <2>3. ~posted
    BY <1>1, <1>2, <1>11, <2>1 DEF PostedOK
  <2>4. NoCalls(n) /\ n.conn[Dc[cur]].op = "ok" /\ n.conn[Dc[cur]].status = "Signed"
    BY <1>2, <1>4, <1>6, <2>1, <2>2 DEF NoCalls
  <2>5. LET m == GetFile(n, cur, offset[cur])
        IN  m \in NetType /\ ConnOK(m) /\ CallsOK(m, cur, offset) /\ m.conn = n.conn
    BY <1>1, <1>6, <2>1, <2>4, GetFileFacts
  <2>6. net' \in NetType /\ ConnOK(net') /\ CallsOK(net', cur, offset)
    BY <1>10, <1>11, <2>5
  <2>7. PostedOK'
    BY <1>8, <2>3 DEF PostedOK
  <2> QED
    BY <1>1, <1>8, <2>6, <2>7, NetStep DEF TypeOK
<1>12. CASE ~(c.status # "Signed" /\ Needed(d) /\ c.listening)
  <2>1. net' = n
    BY <1>10, <1>12
  <2>2. CallsOK(n, cur, offset)
    BY <1>1, <1>4, <1>6 DEF CallsOK
  <2>3. PostedOK'
    BY <1>1, <1>4, <1>6, <1>8, <2>1 DEF PostedOK, NoCalls, fileVars
  <2> QED
    BY <1>1, <1>6, <1>8, <2>1, <2>2, <2>3, NetStep DEF TypeOK
<1> QED
  BY <1>11, <1>12

\* The calls of a connection fail.
WithoutCalls(n, d) == [n EXCEPT !.rpc = [n.rpc EXCEPT ![d] = <<>>]]

\* The calls of the connection are gone, the others are as before.
LEMMA WithoutCallsFacts ==
  ASSUME NEW n \in NetType, NEW d \in DCs
  PROVE  LET m == WithoutCalls(n, d)
         IN  /\ m \in NetType /\ m.conn = n.conn /\ m.child = n.child /\ m.rpc[d] = <<>>
             /\ \A e \in DCs : e # d => m.rpc[e] = n.rpc[e]
<1>1. <<>> \in Seq([file : Files, offset : Nat])
  OBVIOUS
<1> QED
  BY <1>1 DEF WithoutCalls, NetType

\* The current file's call is lost with its connection: a retry is posted.
LEMMA RetryFacts ==
  ASSUME FilesInv, NEW d \in DCs
  PROVE  /\ Retry(d) \in BOOLEAN
         /\ Retry(d) => /\ cur \in Files /\ Dc[cur] \in DCs /\ net.child = "rpc"
                        /\ \A e \in DCs : e # d => net.rpc[e] = <<>>
                        /\ posted \/ Dc[cur] = d
<1>1. CASE posted
  BY <1>1 DEF FilesInv, PostedOK, NoCalls, Retry
<1>2. CASE ~posted
  <2>1. Retry(d) => net.rpc[d] # <<>>
    BY <1>2 DEF Retry
  <2>2. net.rpc[d] # <<>> => net.child = "rpc"
    BY DEF FilesInv, CallsOK
  <2>3. Retry(d) \in BOOLEAN
    BY <1>2 DEF Retry
  <2> QED
    BY <2>1, <2>2, <2>3, NoCallsFacts
<1> QED
  BY <1>1, <1>2 DEF FilesInv, TypeOK

\* The server sends an error packet over a connection.
LEMMA ErrorPacketStep == ASSUME FilesInv, NEW d \in DCs, ErrorPacket(d) PROVE FilesInv'
<1>. DEFINE c == net.conn[d]
            cc == [c EXCEPT !.op = "failed", !.status = "Failed", !.importing = 0]
            w == WithoutCalls(net, d)
            n == WithConn(w, d, cc)
<1>1. /\ TypeOK /\ net \in NetType /\ ConnOK(net) /\ CallsOK(net, cur, offset) /\ PostedOK
      /\ c \in ConnType /\ losses' \in 0..MaxLosses /\ posted' = Retry(d)
      /\ UNCHANGED <<fileVars, dataVars, exported, crashed>> /\ disturbed' \in BOOLEAN
  BY LossType DEF FilesInv, TypeOK, NetType, ErrorPacket
<1>2. net' = n
  BY <1>1 DEF ErrorPacket, WithoutCalls, WithConn, NetType
<1>3. /\ cc \in ConnType /\ cc.op = "failed" /\ cc.status = "Failed" /\ cc.importing = 0
  <2>. HIDE DEF c
  <2> QED
    BY <1>1 DEF ConnType
<1>4. /\ w \in NetType /\ w.conn = net.conn /\ w.child = net.child /\ w.rpc[d] = <<>>
      /\ \A e \in DCs : e # d => w.rpc[e] = net.rpc[e]
  BY <1>1, WithoutCallsFacts
<1>. HIDE DEF w, cc
<1>5. ConnOK(w)
  BY <1>1, <1>4 DEF ConnOK
<1>6. /\ n \in NetType /\ ConnOK(n) /\ n.rpc = w.rpc /\ n.child = w.child
      /\ n.conn[d] = cc /\ \A e \in DCs : e # d => n.conn[e] = w.conn[e]
  BY <1>3, <1>4, <1>5, ConnUpdated
<1>. HIDE DEF n
<1>7. CallsOK(n, cur, offset)
  BY <1>1, <1>4, <1>6 DEF CallsOK
<1>8. PostedOK'
  <2>1. Retry(d) => NoCalls(n)
    BY <1>4, <1>6, RetryFacts DEF NoCalls
  <2>2. Retry(d) => (n.conn[Dc[cur]].listening => n.conn[Dc[cur]].op = "failed")
    BY <1>1, <1>3, <1>4, <1>6, RetryFacts DEF PostedOK
  <2> QED
    BY <1>1, <1>2, <1>4, <1>6, <2>1, <2>2, RetryFacts DEF PostedOK, fileVars
<1> QED
  BY <1>1, <1>2, <1>6, <1>7, <1>8, RetryFacts, NetStep DEF TypeOK

\* The socket is disconnected.
LEMMA DisconnectedStep == ASSUME FilesInv, NEW d \in DCs, Disconnected(d) PROVE FilesInv'
<1>. DEFINE c == net.conn[d]
            w == WithoutCalls(net, d)
            n == WithConn(w, d, NoConnection)
<1>1. /\ TypeOK /\ net \in NetType /\ ConnOK(net) /\ CallsOK(net, cur, offset) /\ PostedOK
      /\ losses' \in 0..MaxLosses /\ posted' = Retry(d)
      /\ UNCHANGED <<fileVars, dataVars, exported, crashed>> /\ disturbed' \in BOOLEAN
  BY LossType DEF FilesInv, TypeOK, Disconnected
<1>2. net' = IF c.listening /\ Needed(d) THEN ConnectToExtraDc(n, d) ELSE n
  BY <1>1 DEF Disconnected, WithoutCalls, WithConn, NetType
<1>3. /\ NoConnection \in ConnType /\ NoConnection.op = "none" /\ NoConnection.status = "none"
      /\ NoConnection.importing = 0 /\ NoConnection.listening = FALSE
      /\ NewConnection.listening = FALSE
  BY DEF NoConnection, NewConnection, ConnType
<1>4. /\ w \in NetType /\ w.conn = net.conn /\ w.child = net.child /\ w.rpc[d] = <<>>
      /\ \A e \in DCs : e # d => w.rpc[e] = net.rpc[e]
  BY <1>1, WithoutCallsFacts
<1>. HIDE DEF w
<1>5. ConnOK(w)
  BY <1>1, <1>4 DEF ConnOK
<1>6. /\ n \in NetType /\ ConnOK(n) /\ n.rpc = w.rpc /\ n.child = w.child
      /\ n.conn[d] = NoConnection /\ \A e \in DCs : e # d => n.conn[e] = w.conn[e]
  BY <1>3, <1>4, <1>5, ConnUpdated
<1>. HIDE DEF n
<1>7. /\ net' \in NetType /\ ConnOK(net') /\ net'.rpc = w.rpc /\ net'.child = net.child
      /\ net'.conn[d].listening = FALSE /\ \A e \in DCs : e # d => net'.conn[e] = net.conn[e]
  <2>1. LET m == ConnectToExtraDc(n, d)
        IN  /\ m \in NetType /\ ConnOK(m)
            /\ m.rpc = n.rpc /\ m.child = n.child
            /\ \A e \in DCs : e # d => m.conn[e] = n.conn[e]
            /\ m.conn[d] = IF n.conn[d].op # "none" THEN n.conn[d] ELSE NewConnection
    BY <1>6, ConnectToExtraDcFacts
  <2>2. CASE c.listening /\ Needed(d)
    BY <1>2, <1>3, <1>4, <1>6, <2>1, <2>2
  <2>3. CASE ~(c.listening /\ Needed(d))
    BY <1>2, <1>3, <1>4, <1>6, <2>3
  <2> QED
    BY <2>2, <2>3
<1>8. CallsOK(net', cur, offset)
  BY <1>1, <1>4, <1>7 DEF CallsOK
<1>9. PostedOK'
  <2>1. Retry(d) => NoCalls(net')
    BY <1>4, <1>7, RetryFacts DEF NoCalls
  <2>2. Retry(d) => (net'.conn[Dc[cur]].listening => net'.conn[Dc[cur]].op = "failed")
    BY <1>1, <1>7, RetryFacts DEF PostedOK
  <2> QED
    BY <1>1, <1>7, <2>1, <2>2, RetryFacts DEF PostedOK, fileVars
<1> QED
  BY <1>1, <1>7, <1>8, <1>9, RetryFacts, NetStep DEF TypeOK
-----------------------------------------------------------------------------
(***************************************************************************)
(* The answer to getFile.                                                  *)
(***************************************************************************)

\* runGetFile: the part begins at the offset, does not go beyond the end of the file,
\* and is empty or not a multiple of the unit only if it is the last.
LEMMA ReadFacts ==
  ASSUME NEW f \in Files, NEW at \in Nat, at <= Size[f]
  PROVE  LET bytes == ReadFile([file |-> f, offset |-> at])
         IN  /\ bytes \in Seq(Nat) /\ at + Len(bytes) <= Size[f]
             /\ \A i \in 1..Len(bytes) : bytes[i] = at + i - 1
             /\ bytes = <<>> \/ Len(bytes) % Unit # 0 => at + Len(bytes) = Size[f]
<1>. DEFINE left == Size[f] - at
            k == IF left < ChunkSize THEN left ELSE ChunkSize
            bytes == [i \in 1..k |-> at + i - 1]
<1>1. Size[f] \in Nat /\ ChunkSize \in Nat \ {0} /\ ChunkSize % Unit = 0
  BY FilesAssumption
<1>2. left \in Nat /\ k \in Nat /\ at + k <= Size[f]
      /\ (k = 0 \/ k # ChunkSize => at + k = Size[f])
  BY <1>1
<1>3. ReadFile([file |-> f, offset |-> at]) = bytes
  BY <1>1 DEF ReadFile
<1>. HIDE DEF k
<1>4. bytes \in Seq(Nat) /\ Len(bytes) = k /\ \A i \in 1..k : bytes[i] = at + i - 1
  <2>1. \A i \in 1..k : at + i - 1 \in Nat
    BY <1>2
  <2> QED
    BY <1>2, <2>1
<1>. HIDE DEF bytes
<1>5. bytes = <<>> => k = 0
  BY <1>4
<1>6. k % Unit # 0 => k # ChunkSize
  BY <1>1
<1> QED
  BY <1>2, <1>3, <1>4, <1>5, <1>6

\* A device that holds the beginning of its file and gets the next part still does.
LEMMA AppendedFacts ==
  ASSUME NEW w \in Seq(Nat), w = [i \in 1..Len(w) |-> i - 1],
         NEW b \in Seq(Nat), \A i \in 1..Len(b) : b[i] = Len(w) + i - 1
  PROVE  LET v == w \o b
         IN  v \in Seq(Nat) /\ Len(v) = Len(w) + Len(b) /\ v = [i \in 1..Len(v) |-> i - 1]
<1>. DEFINE v == w \o b
            z == [i \in 1..Len(v) |-> i - 1]
<1>1. v \in Seq(Nat) /\ Len(v) = Len(w) + Len(b) /\ Len(w) \in Nat /\ Len(b) \in Nat
      /\ \A i \in 1..Len(v) : v[i] = IF i <= Len(w) THEN w[i] ELSE b[i - Len(w)]
  BY ConcatProperties
<1>. HIDE DEF v
<1>2. \A i \in 1..Len(v) : v[i] = i - 1
  <2>. SUFFICES ASSUME NEW i \in 1..Len(v) PROVE v[i] = i - 1
    OBVIOUS
  <2>1. i \in Int /\ 1 <= i /\ i <= Len(w) + Len(b)
    BY <1>1
  <2>2. CASE i <= Len(w)
    <3>1. i \in 1..Len(w)
      BY <1>1, <2>1, <2>2
    <3> QED
      BY <1>1, <2>2, <3>1
  <2>3. CASE ~(i <= Len(w))
    <3>1. i - Len(w) \in 1..Len(b)
      BY <1>1, <2>1, <2>3
    <3>2. b[i - Len(w)] = Len(w) + (i - Len(w)) - 1
      BY <3>1
    <3> QED
      BY <1>1, <2>1, <2>3, <3>2
  <2> QED
    BY <2>2, <2>3
<1>3. v = z
  <2>1. DOMAIN v = 1..Len(v) /\ DOMAIN z = 1..Len(v)
    BY <1>1
  <2> QED
    BY <1>1, <1>2, <2>1
<1> QED
  BY <1>1, <1>3 DEF v

\* What is said of the devices after a part of the current file was written.
LEMMA DataWritten ==
  ASSUME TypeOK, OffsetsOK, WrittenExactly, cur \in Files, result[cur] = "wanted",
         NEW bytes \in Seq(Nat), \A i \in 1..Len(bytes) : bytes[i] = Len(written[cur]) + i - 1,
         written' = [written EXCEPT ![cur] = written[cur] \o bytes],
         offset' \in [Files -> Nat], \A f \in Files : f # cur => offset'[f] = offset[f],
         \A f \in Files : f # cur => result'[f] = result[f] \/ result'[f] = "failed",
         \/ result'[cur] = "failed"
         \/ /\ result'[cur] = "ok"
            /\ offset[cur] + Len(bytes) = IF Declared[cur] # 0 THEN Declared[cur] ELSE Size[cur]
         \/ result'[cur] = "wanted" /\ offset'[cur] = offset[cur] + Len(bytes)
  PROVE  /\ written' \in [Files -> Seq(Nat)] /\ OffsetsOK' /\ WrittenExactly'
<1>. DEFINE v == written[cur] \o bytes
<1>1. written \in [Files -> Seq(Nat)] /\ written[cur] \in Seq(Nat)
      /\ written[cur] = [i \in 1..Len(written[cur]) |-> i - 1]
      /\ offset[cur] = Len(written[cur])
  BY DEF TypeOK, WrittenExactly, OffsetsOK
<1>2. v \in Seq(Nat) /\ Len(v) = offset[cur] + Len(bytes) /\ v = [i \in 1..Len(v) |-> i - 1]
  BY <1>1, AppendedFacts
<1>. HIDE DEF v
<1>3. written' \in [Files -> Seq(Nat)] /\ written'[cur] = v
      /\ \A f \in Files : f # cur => written'[f] = written[f]
  BY <1>1, <1>2 DEF v
<1>4. OffsetsOK'
  BY <1>2, <1>3 DEF OffsetsOK
<1>5. WrittenExactly'
  <2>. SUFFICES ASSUME NEW f \in Files
                PROVE  /\ written'[f] = [i \in 1..Len(written'[f]) |-> i - 1]
                       /\ result'[f] = "ok" => Len(written'[f]) =
                            IF Declared[f] # 0 THEN Declared[f] ELSE Size[f]
    BY DEF WrittenExactly
  <2>1. CASE f = cur
    BY <1>2, <1>3, <2>1
  <2>2. CASE f # cur
    <3>1. written'[f] = written[f] /\ (result'[f] = "ok" => result[f] = "ok")
      BY <1>3, <2>2
    <3> QED
      BY <3>1 DEF WrittenExactly
  <2> QED
    BY <2>1, <2>2
<1> QED
  BY <1>3, <1>4, <1>5

\* onGetFileResult
LEMMA GetFileAnsweredStep ==
  ASSUME FilesInv, NEW d \in DCs, GetFileAnswered(d)
  PROVE  FilesInv'
<1>. DEFINE r == [file |-> cur, offset |-> offset[cur]]
            n == WithoutCalls(net, d)
            bytes == ReadFile(r)
            total == offset[cur] + Len(bytes)
<1>1. /\ TypeOK /\ net \in NetType /\ ConnOK(net) /\ QueueOK /\ OffsetsOK /\ WrittenExactly
      /\ offset \in [Files -> Nat] /\ net.rpc[d] # <<>>
      /\ UNCHANGED <<exported, posted, crashed, losses, disturbed>>
  BY DEF FilesInv, TypeOK, GetFileAnswered
<1>2. /\ ~posted /\ cur \in Files /\ Dc[cur] = d /\ net.rpc[d] = <<r>>
      /\ net.conn[d].op = "ok" /\ net.conn[d].status = "Signed"
      /\ \A e \in DCs : e # d => net.rpc[e] = <<>>
  BY <1>1, NoCallsFacts DEF FilesInv, CallsOK
<1>3. Head(net.rpc[d]) = r /\ Tail(net.rpc[d]) = <<>> /\ r.file = cur /\ r.offset = offset[cur]
  BY <1>2
<1>4. [net EXCEPT !.rpc[d] = Tail(@)] = n
  BY <1>1, <1>3 DEF WithoutCalls, NetType
<1>5. /\ n \in NetType /\ ConnOK(n) /\ NoCalls(n) /\ n.conn = net.conn
  <2>1. /\ n \in NetType /\ n.conn = net.conn /\ n.rpc[d] = <<>>
        /\ \A e \in DCs : e # d => n.rpc[e] = net.rpc[e]
    BY <1>1, WithoutCallsFacts
  <2>. HIDE DEF n
  <2> QED
    BY <1>1, <1>2, <2>1 DEF ConnOK, NoCalls
<1>6. /\ cur # NoFile /\ result[cur] = "wanted" /\ offset[cur] \in Nat /\ offset[cur] <= Size[cur]
      /\ offset[cur] = Len(written[cur])
  BY <1>1, <1>2, FilesAssumption DEF TypeOK, QueueOK, OffsetsOK
<1>7. /\ bytes \in Seq(Nat) /\ Len(bytes) \in Nat /\ total <= Size[cur]
      /\ \A i \in 1..Len(bytes) : bytes[i] = Len(written[cur]) + i - 1
      /\ bytes = <<>> \/ Len(bytes) % Unit # 0 => total = Size[cur]
  <2>1. /\ bytes \in Seq(Nat) /\ offset[cur] + Len(bytes) <= Size[cur]
        /\ \A i \in 1..Len(bytes) : bytes[i] = offset[cur] + i - 1
        /\ bytes = <<>> \/ Len(bytes) % Unit # 0 => offset[cur] + Len(bytes) = Size[cur]
    BY <1>2, <1>6, ReadFacts
  <2>. HIDE DEF bytes
  <2> QED
    BY <1>6, <2>1
<1>. HIDE DEF n
<1>8. \/ Finish(n, cur, "failed") /\ UNCHANGED dataVars
      \/ /\ written' = [written EXCEPT ![cur] = @ \o bytes]
         /\ \/ Finish(n, cur, "failed") /\ UNCHANGED offset
            \/ Finish(n, cur, "ok") /\ UNCHANGED offset /\ IsFinished(cur, total, bytes)
            \/ /\ offset' = [offset EXCEPT ![cur] = total]
               /\ net' = GetFile(n, cur, offset'[cur]) /\ UNCHANGED fileVars
  BY <1>3, <1>4 DEF GetFileAnswered, SetOffset
<1>. HIDE DEF bytes, r
<1>9. written' = [written EXCEPT ![cur] = @ \o bytes] =>
        written' = [written EXCEPT ![cur] = written[cur] \o bytes]
  OBVIOUS
<1>10. ASSUME NEW outcome \in {"ok", "failed"}, Finish(n, cur, outcome),
              UNCHANGED offset, written' \in [Files -> Seq(Nat)], OffsetsOK', WrittenExactly'
       PROVE  FilesInv'
  <2>1. /\ queue' \in Seq(Files) /\ cur' \in Files \cup {NoFile}
        /\ result' \in [Files -> {"new", "wanted", "ok", "failed"}]
        /\ net' \in NetType /\ ConnOK(net') /\ CallsOK(net', cur', offset)
        /\ QueueOK'
    BY <1>1, <1>2, <1>5, <1>10, FinishFacts
  <2>2. TypeOK'
    BY <1>1, <1>10, <2>1 DEF TypeOK
  <2> QED
    BY <1>1, <1>2, <1>10, <2>1, <2>2 DEF FilesInv, PostedOK
<1>11. ASSUME NEW outcome \in {"ok", "failed"}, Finish(n, cur, outcome)
       PROVE  /\ \A f \in Files : f # cur => result'[f] = result[f] \/ result'[f] = "failed"
              /\ result'[cur] \in {outcome, "failed"}
  <2>1. /\ \A f \in Files : result'[f] = result[f] \/ result'[f] = "failed"
                               \/ (f = cur /\ result'[f] = outcome)
        /\ QueueOK' /\ cur' \in Files \cup {NoFile}
    BY <1>1, <1>2, <1>5, <1>11, FinishFacts
  <2>2. result'[cur] # "wanted"
    BY <1>1, <1>2, <1>11, FinishedResult DEF TypeOK
  <2> QED
    BY <1>2, <1>6, <2>1, <2>2
<1>12. CASE Finish(n, cur, "failed") /\ UNCHANGED dataVars
  <2>1. \A f \in Files : result'[f] = result[f] \/ result'[f] = "failed"
    BY <1>11, <1>12
  <2>2. OffsetsOK' /\ WrittenExactly'
    BY <1>1, <1>12, <2>1, DataKept
  <2> QED
    BY <1>1, <1>10, <1>12, <2>2 DEF TypeOK, dataVars
<1>13. CASE /\ written' = [written EXCEPT ![cur] = @ \o bytes]
            /\ Finish(n, cur, "failed") /\ UNCHANGED offset
  <2>1. /\ \A f \in Files : f # cur => result'[f] = result[f] \/ result'[f] = "failed"
        /\ result'[cur] = "failed"
    BY <1>11, <1>13
  <2>2. written' \in [Files -> Seq(Nat)] /\ OffsetsOK' /\ WrittenExactly'
    BY <1>1, <1>2, <1>6, <1>7, <1>9, <1>13, <2>1, DataWritten
  <2> QED
    BY <1>10, <1>13, <2>2
<1>14. CASE /\ written' = [written EXCEPT ![cur] = @ \o bytes]
            /\ Finish(n, cur, "ok") /\ UNCHANGED offset /\ IsFinished(cur, total, bytes)
  <2>1. /\ \A f \in Files : f # cur => result'[f] = result[f] \/ result'[f] = "failed"
        /\ result'[cur] \in {"ok", "failed"}
    BY <1>11, <1>14
  <2>2. total = IF Declared[cur] # 0 THEN Declared[cur] ELSE Size[cur]
    BY <1>7, <1>14 DEF IsFinished
  <2>3. written' \in [Files -> Seq(Nat)] /\ OffsetsOK' /\ WrittenExactly'
    BY <1>1, <1>2, <1>6, <1>7, <1>9, <1>14, <2>1, <2>2, DataWritten
  <2> QED
    BY <1>10, <1>14, <2>3
<1>15. CASE /\ written' = [written EXCEPT ![cur] = @ \o bytes]
            /\ offset' = [offset EXCEPT ![cur] = total]
            /\ net' = GetFile(n, cur, offset'[cur]) /\ UNCHANGED fileVars
  <2>1. offset' \in [Files -> Nat] /\ offset'[cur] = total
        /\ \A f \in Files : f # cur => offset'[f] = offset[f]
    BY <1>1, <1>2, <1>6, <1>7, <1>15
  <2>2. UNCHANGED <<queue, cur, result>>
    BY <1>15 DEF fileVars
  <2>3. written' \in [Files -> Seq(Nat)] /\ OffsetsOK' /\ WrittenExactly'
    BY <1>1, <1>2, <1>6, <1>7, <1>9, <1>15, <2>1, <2>2, DataWritten
  <2>4. n.conn[Dc[cur]].op = "ok" /\ n.conn[Dc[cur]].status = "Signed"
    BY <1>2, <1>5
  <2>5. LET m == GetFile(n, cur, offset'[cur])
        IN  m \in NetType /\ ConnOK(m) /\ CallsOK(m, cur, offset') /\ m.conn = n.conn
    BY <1>2, <1>5, <2>1, <2>4, GetFileFacts
  <2>6. net' \in NetType /\ ConnOK(net') /\ CallsOK(net', cur', offset')
    BY <1>15, <2>2, <2>5
  <2>7. \A f \in Files : offset'[f] <= Size[f]
    BY <1>1, <1>7, <2>1 DEF TypeOK
  <2>8. TypeOK'
    BY <1>1, <2>1, <2>2, <2>3, <2>6, <2>7 DEF TypeOK
  <2>9. QueueOK' /\ PostedOK'
    BY <1>1, <1>2, <2>2 DEF QueueOK, PostedOK
  <2> QED
    BY <2>3, <2>6, <2>8, <2>9 DEF FilesInv
<1> QED
  BY <1>8, <1>12, <1>13, <1>14, <1>15

\* the queued processCurrentRequest
LEMMA RunPostedStep == ASSUME FilesInv, RunPosted PROVE FilesInv'
<1>1. /\ TypeOK /\ net \in NetType /\ ConnOK(net) /\ QueueOK /\ OffsetsOK /\ WrittenExactly
      /\ offset \in [Files -> Nat] /\ posted' = FALSE /\ cur \in Files
      /\ UNCHANGED <<dataVars, exported, crashed, losses, disturbed>>
  BY DEF FilesInv, TypeOK, RunPosted
<1>2. NoCalls(net)
  BY NoCallsFacts DEF RunPosted
<1>3. PostedOK'
  BY <1>1 DEF PostedOK
<1>4. CASE HasFailed(net, cur)
  <2>1. Finish(net, cur, "failed")
    BY <1>4 DEF RunPosted
  <2>2. /\ queue' \in Seq(Files) /\ cur' \in Files \cup {NoFile}
        /\ result' \in [Files -> {"new", "wanted", "ok", "failed"}]
        /\ net' \in NetType /\ ConnOK(net') /\ CallsOK(net', cur', offset)
        /\ QueueOK'
        /\ \A f \in Files : result'[f] = result[f] \/ result'[f] = "failed"
    BY <1>1, <1>2, <2>1, FinishFacts
  <2>3. OffsetsOK' /\ WrittenExactly'
    BY <1>1, <2>2, DataKept
  <2>4. TypeOK'
    BY <1>1, <2>2 DEF TypeOK, dataVars
  <2> QED
    BY <1>1, <1>3, <2>2, <2>3, <2>4 DEF FilesInv, dataVars
<1>5. CASE ~HasFailed(net, cur)
  <2>1. net' = ProcessCurrentRequest(net, cur) /\ UNCHANGED fileVars
    BY <1>5 DEF RunPosted
  <2>2. net' \in NetType /\ ConnOK(net') /\ CallsOK(net', cur, offset)
    BY <1>1, <1>2, <1>5, <2>1, CurrentFacts
  <2> QED
    BY <1>1, <1>3, <2>1, <2>2, NetStep DEF TypeOK
<1> QED
  BY <1>4, <1>5
-----------------------------------------------------------------------------
(***************************************************************************)
(* The theorems.                                                           *)
(***************************************************************************)

\* The invariant holds when FilesApi is made.
LEMMA InitInv == Init => FilesInv
<1>. SUFFICES ASSUME Init PROVE FilesInv
  OBVIOUS
<1>1. NoConnection \in ConnType /\ NoConnection.status = "none" /\ NoConnection.importing = 0
  BY DEF NoConnection, ConnType
<1>2. /\ net.conn = [d \in DCs |-> NoConnection] /\ net.child = "none"
      /\ net.rpc = [d \in DCs |-> <<>>] /\ net.exporting = [d \in DCs |-> 0]
      /\ net = [conn |-> [d \in DCs |-> NoConnection], child |-> "none",
                rpc |-> [d \in DCs |-> <<>>], exporting |-> [d \in DCs |-> 0]]
  BY DEF Init, NetInit
<1>3. <<>> \in Seq([file : Files, offset : Nat]) /\ <<>> \in Seq(Files) /\ <<>> \in Seq(Nat)
  OBVIOUS
<1>4. net \in NetType
  BY <1>1, <1>2, <1>3 DEF NetType
<1>5. ConnOK(net) /\ CallsOK(net, cur, offset)
  BY <1>1, <1>2, FilesAssumption DEF ConnOK, CallsOK
<1>6. TypeOK
  <2>1. \A f \in Files : offset[f] <= Size[f]
    <3>1. \A f \in Files : Size[f] \in Nat
      BY FilesAssumption
    <3>2. \A f \in Files : offset[f] = 0
      BY DEF Init
    <3>3. \A k \in Nat : 0 <= k
      OBVIOUS
    <3> QED
      BY <3>1, <3>2, <3>3, Zenon
  <2>2. written \in [Files -> Seq(Nat)]
    BY <1>3, Zenon DEF Init
  <2>3. /\ queue \in Seq(Files) /\ cur \in Files \cup {NoFile}
        /\ result \in [Files -> {"new", "wanted", "ok", "failed"}] /\ offset \in [Files -> Nat]
        /\ losses \in 0..MaxLosses /\ exported \subseteq DCs
    BY <1>3, FilesAssumption DEF Init
  <2>4. posted \in BOOLEAN /\ crashed \in BOOLEAN /\ disturbed \in BOOLEAN
    BY DEF Init
  <2> QED
    BY <1>4, <2>1, <2>2, <2>3, <2>4 DEF TypeOK
<1>7. QueueOK /\ PostedOK
  BY DEF Init, QueueOK, Listed, PostedOK
<1>8. OffsetsOK /\ WrittenExactly
  <2>1. \A f \in Files : written[f] = <<>> /\ offset[f] = 0 /\ result[f] = "new"
    BY DEF Init
  <2>2. Len(<<>>) = 0 /\ [i \in 1..0 |-> i - 1] = <<>>
    OBVIOUS
  <2> QED
    BY <2>1, <2>2 DEF OffsetsOK, WrittenExactly
<1> QED
  BY <1>5, <1>6, <1>7, <1>8 DEF FilesInv

\* Every event keeps the invariant.
LEMMA StepInv == FilesInv /\ [Next]_vars => FilesInv'
<1>. SUFFICES ASSUME FilesInv, [Next]_vars PROVE FilesInv'
  OBVIOUS
<1>1. ASSUME NEW f \in Files, DownloadFile(f) PROVE FilesInv'
  BY <1>1, DownloadStep
<1>2. ASSUME NEW d \in DCs,
             HasDhKey(d) \/ ExportAnswered(d) \/ ImportAnswered(d) \/ GetFileAnswered(d)
      PROVE  FilesInv'
  BY <1>2, HasDhKeyStep, ExportStep, ImportStep, GetFileAnsweredStep
<1>3. CASE RunPosted
  BY <1>3, RunPostedStep
<1>4. CASE FinishWithoutConnection
  <2>1. UNCHANGED <<fileVars, dataVars, net, exported, posted, losses, disturbed>> /\ crashed' = TRUE
    BY <1>4 DEF FinishWithoutConnection
  <2>2. CallsOK(net', cur, offset) /\ ConnOK(net') /\ PostedOK'
    BY <2>1 DEF FilesInv, PostedOK, fileVars
  <2> QED
    BY <2>1, <2>2, NetStep DEF FilesInv, TypeOK
<1>5. ASSUME NEW d \in DCs, \/ ConnectFails(d) \/ ExportFails(d) \/ ImportFails(d)
                            \/ ErrorPacket(d) \/ Disconnected(d)
      PROVE  FilesInv'
  BY <1>5, ConnectFailsStep, ExportStep, ImportFailsStep, ErrorPacketStep, DisconnectedStep
<1>6. CASE UNCHANGED vars
  <2>1. UNCHANGED <<fileVars, dataVars, net, exported, posted, crashed, losses, disturbed>>
    BY <1>6 DEF vars, fileVars, dataVars
  <2>2. CallsOK(net', cur, offset) /\ ConnOK(net') /\ PostedOK'
    BY <2>1 DEF FilesInv, PostedOK, fileVars
  <2> QED
    BY <2>1, <2>2, NetStep DEF FilesInv, TypeOK
<1> QED
  BY <1>1, <1>2, <1>3, <1>4, <1>5, <1>6 DEF Next

\* Downloads one after the other, chunk by chunk, with connections that break in any of
\* the ways FilesApi and ConnectionApi tell apart, keep the invariant.
THEOREM FilesInvariant == Spec => []FilesInv
BY InitInv, StepInv, PTL DEF Spec

\* Every variable keeps its type, and an offset is never beyond the end of its file.
THEOREM FilesTypeCorrect == Spec => []TypeOK
<1>1. FilesInv => TypeOK
  BY DEF FilesInv
<1> QED
  BY <1>1, FilesInvariant, PTL

\* A device holds the beginning of its file, each byte once, and a download that
\* onGetFileResult finishes holds all of it, however often connections were lost.
THEOREM DevicesExact == Spec => []WrittenExactly
<1>1. FilesInv => WrittenExactly
  BY DEF FilesInv
<1> QED
  BY <1>1, FilesInvariant, PTL

\* FilesApi never has two getFile calls under way, nor a call and a queued retry.
THEOREM OneTransferAtATime == Spec => []OneTransfer
BY InvOneTransfer, FilesInvariant, PTL
=============================================================================
