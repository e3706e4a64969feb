-------------------------- MODULE ConnectionProofs --------------------------
(***************************************************************************)
(* Proofs about ConnectionApi for every set of connections, every sequence *)
(* of intervals and every bound.                                           *)
(*                                                                         *)
(* A handler is an operator, so there is a lemma for each: what it keeps   *)
(* of the type and of the connection attempt (first part, any use of the   *)
(* library), and to which phase it takes a client that only checks in      *)
(* (second part).                                                          *)
(***************************************************************************)
EXTENDS ConnectionApi, WellFoundedInduction, TLAPS

\* A set of numbers that is not empty has a least element.
LEMMA MinFacts ==
  ASSUME NEW S \in SUBSET Nat, S # {}
  PROVE  Min(S) \in S
<1>1. IsWellFoundedOn(OpToRel(<, Nat), Nat)
  BY NatLessThanWellFounded
<1>2. PICK m \in S : \A y \in S : ~(<<y, m>> \in OpToRel(<, Nat))
  BY <1>1, WFMin
<1>3. \A y \in S : m <= y
  <2> SUFFICES ASSUME NEW y \in S, y < m PROVE FALSE
    OBVIOUS
  <2> DEFINE R == {w \in Nat \X Nat : w[1] < w[2]}
  <2>1. OpToRel(<, Nat) = R
    BY Zenon DEF OpToRel
  <2>2. <<y, m>> \in R
    OBVIOUS
  <2> QED BY <1>2, <2>1, <2>2, Zenon
<1> QED BY <1>3 DEF Min


\* What is posted to the event loop.
Events == {"connect", "config", "auth", "authError", "sync"}

\* A posted connectToNextServer.
Waiting(x) == "connect" \in Range(x.posted)

\* ConnectGoesOn of a state of the client.
GoesOn(x) ==
  x.connectOp = "running" =>
    \/ x.queued = "timer"
    \/ Waiting(x)
    \/ x.initial # None /\ x.conn[x.initial] \in Live

\* The type, that the initial and the main connection are two, and that a posted
\* attempt is among the posted events.
Sound(x) ==
  /\ x \in Client
  /\ x.initial # None => x.initial # x.main
  /\ x.queued = "posted" => Waiting(x)

\* y comes from x and nothing that keeps the connection attempt going is taken away.
Quiet(x, y) ==
  /\ y.queued = x.queued
  /\ Waiting(x) => Waiting(y)
  /\ y.initial \in {x.initial, None}
  /\ y.main \in {x.main, None}
  /\ y.connectOp = "running" =>
       /\ x.connectOp = "running"
       /\ y.initial = x.initial
       /\ x.initial # None => y.conn[x.initial] = x.conn[x.initial]

\* A posted event is the last one, those before it stay.
LEMMA PostedFacts ==
  ASSUME NEW q \in Seq(Events), NEW e \in Events
  PROVE  /\ Append(q, e) \in Seq(Events)
         /\ e \in Range(Append(q, e))
         /\ Range(q) \subseteq Range(Append(q, e))
<1> DEFINE p == Append(q, e)
<1>1. p \in Seq(Events) /\ Len(p) = Len(q) + 1 /\ Len(q) \in Nat
  OBVIOUS
<1>2. DOMAIN p = 1..Len(p) /\ DOMAIN q = 1..Len(q) /\ p[Len(q) + 1] = e
  OBVIOUS
<1>3. \A i \in DOMAIN q : i \in DOMAIN p /\ p[i] = q[i]
  OBVIOUS
<1>4. Len(q) + 1 \in DOMAIN p
  BY <1>1, <1>2
<1> HIDE DEF p
<1>5. e \in Range(p)
  BY <1>2, <1>4, Zenon DEF Range
<1>6. Range(q) \subseteq Range(p)
  BY <1>3, Zenon DEF Range
<1> QED BY <1>1, <1>5, <1>6 DEF p

\* Quiet steps add up.
LEMMA QuietTransitive ==
  ASSUME NEW x, NEW y, NEW z, Quiet(x, y), Quiet(y, z)
  PROVE  Quiet(x, z)
BY DEF Quiet

\* A quiet step keeps what the attempt needs.
LEMMA QuietKeeps ==
  ASSUME NEW x \in Client, NEW y \in Client, Quiet(x, y)
  PROVE  /\ Sound(x) => Sound(y)
         /\ GoesOn(x) => GoesOn(y)
BY DEF Quiet, Sound, GoesOn

\* A status is set.
LEMMA SetStatusFacts ==
  ASSUME NEW x \in Client, NEW status \in Statuses
  PROVE  SetStatus(x, status) \in Client /\ Quiet(x, SetStatus(x, status))
BY DEF Client, SetStatus, Quiet, Waiting

\* An event is posted.
LEMMA PostFacts ==
  ASSUME NEW x \in Client, NEW e \in Events
  PROVE  /\ Post(x, e) \in Client /\ Quiet(x, Post(x, e))
         /\ e = "connect" => Waiting(Post(x, e))
<1>1. x.posted \in Seq(Events)
  BY DEF Client, Events
<1>2. Post(x, e).posted = Append(x.posted, e)
  BY DEF Client, Post
<1>3. Post(x, e) \in Client
  BY <1>1, PostedFacts DEF Client, Post, Events
<1>4. Waiting(x) => Waiting(Post(x, e))
  BY <1>1, <1>2, PostedFacts, Zenon DEF Waiting
<1>5. e = "connect" => Waiting(Post(x, e))
  BY <1>1, <1>2, PostedFacts, Zenon DEF Waiting
<1>6. Quiet(x, Post(x, e))
  BY <1>4 DEF Quiet, Post, Client
<1> QED BY <1>3, <1>5, <1>6

\* Another auth operation, or another state of it, is quiet.
LEMMA AuthFacts ==
  ASSUME NEW x \in Client, NEW a \in Auth
  PROVE  [x EXCEPT !.auth = a] \in Client /\ Quiet(x, [x EXCEPT !.auth = a])
BY DEF Client, Quiet, Waiting

\* The steps of an auth operation.
LEMMA AuthStepFacts ==
  ASSUME NEW a \in Auth, NEW step \in AuthSteps, NEW on \in Conns \cup {None}, NEW sent \in BOOLEAN
  PROVE  /\ [a EXCEPT !.step = step] \in Auth
         /\ [a EXCEPT !.step = step, !.on = on] \in Auth
         /\ [a EXCEPT !.step = step, !.on = on, !.sent = sent] \in Auth
BY DEF Auth

\* The auth operation of a client.
LEMMA ClientAuth ==
  ASSUME NEW x \in Client
  PROVE  x.auth \in Auth /\ None \in Conns \cup {None}
BY DEF Client

\* The auth operation takes a step.
LEMMA SetStepFacts ==
  ASSUME NEW x \in Client, NEW step \in AuthSteps
  PROVE  /\ [x EXCEPT !.auth.step = step] \in Client
         /\ Quiet(x, [x EXCEPT !.auth.step = step])
         /\ [x EXCEPT !.auth.step = step, !.auth.on = None] \in Client
         /\ Quiet(x, [x EXCEPT !.auth.step = step, !.auth.on = None])
<1>1. [x EXCEPT !.auth.step = step] = [x EXCEPT !.auth = [x.auth EXCEPT !.step = step]]
  OBVIOUS
<1>2. [x EXCEPT !.auth.step = step, !.auth.on = None]
        = [x EXCEPT !.auth = [x.auth EXCEPT !.step = step, !.on = None]]
  BY ClientAuth DEF Client
<1>3. /\ [x.auth EXCEPT !.step = step] \in Auth
      /\ [x.auth EXCEPT !.step = step, !.on = None] \in Auth
  BY ClientAuth, AuthStepFacts
<1> QED BY <1>1, <1>2, <1>3, AuthFacts

\* An RPC of the auth operation is sent.
LEMMA SendAuthRpcFacts ==
  ASSUME NEW x \in Client, NEW rpc \in Rpcs
  PROVE  SendAuthRpc(x, rpc) \in Client /\ Quiet(x, SendAuthRpc(x, rpc))
<1>1. Default(x) \in Conns \cup {None}
  BY DEF Client, Default
<1>2. Encrypted(x, Default(x)) \in BOOLEAN
  BY DEF Encrypted
<1>3. rpc \in AuthSteps
  BY DEF AuthSteps
<1> DEFINE d == Default(x)
           e == Encrypted(x, Default(x))
<1> HIDE DEF d, e
<1>4. SendAuthRpc(x, rpc) = [x EXCEPT !.auth = [x.auth EXCEPT !.step = rpc, !.on = d, !.sent = e]]
  BY ClientAuth DEF SendAuthRpc, d, e, Client
<1>5. d \in Conns \cup {None} /\ e \in BOOLEAN
  BY <1>1, <1>2 DEF d, e
<1>6. [x.auth EXCEPT !.step = rpc, !.on = d, !.sent = e] \in Auth
  BY <1>3, <1>5, ClientAuth, AuthStepFacts
<1> QED BY <1>4, <1>6, AuthFacts

\* The application is asked for something.
LEMMA AskUserFacts ==
  ASSUME NEW x \in Client, NEW step \in AuthSteps
  PROVE  AskUser(x, step) \in Client /\ Quiet(x, AskUser(x, step))
BY SetStepFacts DEF AskUser

\* disconnectFromServer ends the attempt, it does not leave it behind.
LEMMA DisconnectFacts ==
  ASSUME NEW x \in Client
  PROVE  DisconnectFromServer(x) \in Client /\ Quiet(x, DisconnectFromServer(x))
<1> DEFINE y == [x EXCEPT !.status = "Disconnected", !.initial = None, !.main = None,
                          !.connectOp = "null"]
<1>1. y \in Client /\ Quiet(x, y) /\ y.auth = x.auth
  <2>1. y \in Client
    BY DEF Client, Statuses, OpStates
  <2>2. Quiet(x, y) /\ y.auth = x.auth
    BY DEF Client, Quiet, Waiting
  <2> QED BY <2>1, <2>2
<1>2. "stalled" \in AuthSteps /\ x.auth.step \in AuthSteps
  BY ClientAuth DEF AuthSteps, Auth
<1> DEFINE step == IF x.auth.step \in {"afterConnect", "redirected"} THEN "stalled" ELSE x.auth.step
<1>3. DisconnectFromServer(x) = [y EXCEPT !.auth.step = step]
  BY DEF DisconnectFromServer, Client
<1>4. step \in AuthSteps
  BY <1>2
<1> HIDE DEF y, step
<1>5. [y EXCEPT !.auth.step = step] \in Client /\ Quiet(y, [y EXCEPT !.auth.step = step])
  BY <1>1, <1>4, SetStepFacts
<1> QED BY <1>1, <1>3, <1>5, QuietTransitive

\* The auth operation fails.
LEMMA FinishAuthFailedFacts ==
  ASSUME NEW x \in Client
  PROVE  FinishAuthFailed(x) \in Client /\ Quiet(x, FinishAuthFailed(x))
<1> DEFINE y == [x EXCEPT !.auth.step = "failed", !.auth.on = None]
<1>1. y \in Client /\ Quiet(x, y)
  BY SetStepFacts DEF AuthSteps
<1> HIDE DEF y
<1>2. DisconnectFromServer(y) \in Client /\ Quiet(y, DisconnectFromServer(y))
  BY <1>1, DisconnectFacts
<1>3. SetStatus(y, "WaitForAuthentication") \in Client /\ Quiet(y, SetStatus(y, "WaitForAuthentication"))
  BY <1>1, SetStatusFacts DEF Statuses
<1>4. FinishAuthFailed(x) \in {DisconnectFromServer(y), SetStatus(y, "WaitForAuthentication")}
  BY DEF FinishAuthFailed, y
<1> QED BY <1>1, <1>2, <1>3, <1>4, QuietTransitive

\* The auth operation fails later.
LEMMA FinishAuthLaterFacts ==
  ASSUME NEW x \in Client
  PROVE  FinishAuthLater(x) \in Client /\ Quiet(x, FinishAuthLater(x))
<1> DEFINE y == [x EXCEPT !.auth.step = "errorPosted", !.auth.on = None]
<1>1. y \in Client /\ Quiet(x, y)
  BY SetStepFacts DEF AuthSteps
<1>2. FinishAuthLater(x) = Post(y, "authError")
  BY DEF FinishAuthLater
<1> HIDE DEF y
<1> QED BY <1>1, <1>2, PostFacts, QuietTransitive DEF Events

\* The stored session is checked, or there is none.
LEMMA CheckAuthorizationFacts ==
  ASSUME NEW x \in Client
  PROVE  CheckAuthorization(x) \in Client /\ Quiet(x, CheckAuthorization(x))
<1>1. "updateStatus" \in Rpcs
  BY DEF Rpcs
<1> QED BY <1>1, SendAuthRpcFacts, FinishAuthFailedFacts DEF CheckAuthorization

\* A code is requested, or what it needs.
LEMMA RequestAuthCodeFacts ==
  ASSUME NEW x \in Client
  PROVE  RequestAuthCode(x) \in Client /\ Quiet(x, RequestAuthCode(x))
<1>1. "sendCode" \in Rpcs /\ "phone" \in AuthSteps
  BY DEF Rpcs, AuthSteps
<1> DEFINE y == [x EXCEPT !.auth.step = "stalled"]
<1>2. y \in Client /\ Quiet(x, y)
  BY SetStepFacts DEF AuthSteps
<1>3. RequestAuthCode(x) \in {y, AskUser(x, "phone"), FinishAuthFailed(x), SendAuthRpc(x, "sendCode")}
  BY DEF RequestAuthCode
<1> HIDE DEF y
<1> QED BY <1>1, <1>2, <1>3, AskUserFacts, SendAuthRpcFacts, FinishAuthFailedFacts

\* The auth operation starts.
LEMMA StartAuthFacts ==
  ASSUME NEW x \in Client
  PROVE  StartAuth(x) \in Client /\ Quiet(x, StartAuth(x))
BY CheckAuthorizationFacts, RequestAuthCodeFacts DEF StartAuth

\* The auth operation waits for the connection.
LEMMA RunAfterConnectFacts ==
  ASSUME NEW x \in Client
  PROVE  RunAfterConnect(x) \in Client /\ Quiet(x, RunAfterConnect(x))
<1> DEFINE y(step) == [x EXCEPT !.auth.step = step]
<1>1. \A step \in AuthSteps : y(step) \in Client /\ Quiet(x, y(step))
  BY SetStepFacts
<1>2. "afterConnect" \in AuthSteps /\ "startPosted" \in AuthSteps
  BY DEF AuthSteps
<1>3. RunAfterConnect(x) \in {y("afterConnect"), Post(y("startPosted"), "auth"), FinishAuthLater(x)}
  BY DEF RunAfterConnect
<1> HIDE DEF y
<1>4. Post(y("startPosted"), "auth") \in Client /\ Quiet(x, Post(y("startPosted"), "auth"))
  BY <1>1, <1>2, PostFacts, QuietTransitive DEF Events
<1> QED BY <1>1, <1>2, <1>3, <1>4, FinishAuthLaterFacts

\* A new auth operation.
LEMMA NewAuthFacts ==
  ASSUME NEW x \in Client, NEW kind \in {"checkIn", "signIn"}, NEW phone \in BOOLEAN
  PROVE  NewAuth(x, kind, phone) \in Client /\ Quiet(x, NewAuth(x, kind, phone))
<1> DEFINE a == [kind |-> kind, step |-> "none", phone |-> phone, on |-> None, sent |-> FALSE]
<1>1. a \in Auth
  BY DEF Auth, AuthSteps
<1>2. NewAuth(x, kind, phone) = [x EXCEPT !.auth = a]
  BY DEF NewAuth
<1> HIDE DEF a
<1> QED BY <1>1, <1>2, AuthFacts

\* The connect operation succeeds.
LEMMA ConnectOpSucceededFacts ==
  ASSUME NEW x \in Client
  PROVE  ConnectOpSucceeded(x) \in Client /\ Quiet(x, ConnectOpSucceeded(x))
<1> DEFINE y == [x EXCEPT !.connectOp = "succeeded"]
<1>1. y \in Client /\ Quiet(x, y)
  <2>1. y \in Client
    BY DEF Client, OpStates
  <2>2. Quiet(x, y)
    BY DEF Client, Quiet, Waiting
  <2> QED BY <2>1, <2>2
<1>2. ConnectOpSucceeded(x) \in {x, y, StartAuth(y), RequestAuthCode(y)}
  BY DEF ConnectOpSucceeded
<1>3. Quiet(x, x)
  BY DEF Quiet
<1> HIDE DEF y
<1> QED BY <1>1, <1>2, <1>3, StartAuthFacts, RequestAuthCodeFacts, QuietTransitive

\* The connect operation fails.
LEMMA ConnectOpFailedFacts ==
  ASSUME NEW x \in Client
  PROVE  ConnectOpFailed(x) \in Client /\ Quiet(x, ConnectOpFailed(x))
<1> DEFINE y == [x EXCEPT !.connectOp = "failed"]
           z == [y EXCEPT !.auth.step = "stalled"]
<1>1. y \in Client /\ Quiet(x, y)
  BY DEF Client, Quiet, Waiting, OpStates
<1>2. ConnectOpFailed(x) \in {y, z, FinishAuthFailed(y)}
  BY DEF ConnectOpFailed
<1> HIDE DEF y
<1>3. z \in Client /\ Quiet(y, z)
  BY <1>1, SetStepFacts DEF AuthSteps
<1> HIDE DEF z
<1> QED BY <1>1, <1>2, <1>3, FinishAuthFailedFacts, QuietTransitive

\* The configuration is there.
LEMMA OnGotDcConfigFacts ==
  ASSUME NEW x \in Client
  PROVE  OnGotDcConfig(x) \in Client /\ Quiet(x, OnGotDcConfig(x))
<1> DEFINE y == SetStatus(x, "WaitForAuthentication")
           z == [y EXCEPT !.crashed = TRUE]
<1>1. y \in Client /\ Quiet(x, y)
  BY SetStatusFacts DEF Statuses
<1>2. OnGotDcConfig(x) \in {x, z, ConnectOpSucceeded(y)}
  BY DEF OnGotDcConfig
<1>3. Quiet(x, x)
  BY DEF Quiet
<1> HIDE DEF y
<1>4. z \in Client /\ Quiet(y, z)
  <2>1. z \in Client
    BY <1>1 DEF Client
  <2>2. Quiet(y, z)
    BY <1>1 DEF Client, Quiet, Waiting
  <2> QED BY <2>1, <2>2
<1> HIDE DEF z
<1> QED BY <1>1, <1>2, <1>3, <1>4, ConnectOpSucceededFacts, QuietTransitive

\* The configuration is asked for.
LEMMA GetDcConfigFacts ==
  ASSUME NEW x \in Client
  PROVE  GetDcConfig(x) \in Client /\ Quiet(x, GetDcConfig(x))
<1> DEFINE y == [x EXCEPT !.config = [op |-> "running", on |-> None]]
<1>1. y \in Client /\ Quiet(x, y)
  BY DEF Client, Quiet, Waiting, OpStates
<1>2. GetDcConfig(x) \in {x, OnGotDcConfig(x), Post(y, "config")}
  BY DEF GetDcConfig
<1>3. Quiet(x, x)
  BY DEF Quiet
<1> HIDE DEF y
<1> QED BY <1>1, <1>2, <1>3, OnGotDcConfigFacts, PostFacts, QuietTransitive DEF Events

\* The configuration operation finishes.
LEMMA ConfigFinishedFacts ==
  ASSUME NEW x \in Client, NEW result \in {"succeeded", "failed"}
  PROVE  ConfigFinished(x, result) \in Client /\ Quiet(x, ConfigFinished(x, result))
<1> DEFINE y == [x EXCEPT !.config = [op |-> result, on |-> None]]
<1>1. y \in Client /\ Quiet(x, y)
  <2>1. y \in Client
    BY DEF Client, OpStates
  <2>2. Quiet(x, y)
    BY DEF Client, Quiet, Waiting
  <2> QED BY <2>1, <2>2
<1>2. ConfigFinished(x, result) = OnGotDcConfig(y)
  BY DEF ConfigFinished
<1> HIDE DEF y
<1> QED BY <1>1, <1>2, OnGotDcConfigFacts, QuietTransitive

\* The RPCs of a connection fail.
LEMMA RpcLostFacts ==
  ASSUME NEW x \in Client, NEW c \in Conns
  PROVE  RpcLost(x, c) \in Client /\ Quiet(x, RpcLost(x, c))
<1> DEFINE y == [x EXCEPT !.sync = IF @ = c THEN None ELSE @]
           z == IF x.config.op = "running" /\ x.config.on = c THEN ConfigFinished(y, "failed") ELSE y
<1>1. y \in Client /\ Quiet(x, y)
  <2>1. y \in Client
    BY DEF Client
  <2>2. Quiet(x, y)
    BY DEF Client, Quiet, Waiting
  <2> QED BY <2>1, <2>2
<1>2. RpcLost(x, c) = AuthRpcLost(z, c)
  BY DEF RpcLost
<1> HIDE DEF y
<1>3. z \in Client /\ Quiet(x, z)
  BY <1>1, ConfigFinishedFacts, QuietTransitive
<1> HIDE DEF z
<1>4. AuthRpcLost(z, c) \in {z, FinishAuthFailed(z), FinishAuthLater(z)}
  BY DEF AuthRpcLost
<1> QED BY <1>2, <1>3, <1>4, FinishAuthFailedFacts, FinishAuthLaterFacts, QuietTransitive

\* The attempt goes on once it is queued.
LEMMA QueueFacts ==
  ASSUME NEW x, Sound(x)
  PROVE  Sound(QueueConnectToNextServer(x)) /\ GoesOn(QueueConnectToNextServer(x))
<1> DEFINE a == IF x.attempt < Len(Intervals) THEN x.attempt + 1 ELSE x.attempt
           y == [x EXCEPT !.attempt = a, !.status = "WaitForConnection"]
           p == [y EXCEPT !.queued = "posted"]
           q == [y EXCEPT !.queued = "timer"]
<1>0. x \in Client
  BY DEF Sound
<1>1. CASE x.queued # "no"
  <2>1. QueueConnectToNextServer(x) = x
    BY <1>1 DEF QueueConnectToNextServer
  <2>2. x.queued = "timer" \/ Waiting(x)
    BY <1>0, <1>1 DEF Sound, Client
  <2> QED BY <2>1, <2>2 DEF GoesOn
<1>2. CASE x.queued = "no"
  <2>1. Len(Intervals) \in Nat /\ x.attempt \in 0..Len(Intervals)
    BY <1>0, ConnectionAssumption DEF Client
  <2>2. a \in 0..Len(Intervals)
    BY <2>1
  <2>3. QueueConnectToNextServer(x) \in {Post(p, "connect"), q}
    BY <1>2 DEF QueueConnectToNextServer, SetStatus
  <2> HIDE DEF a
  <2>4. y \in Client
    BY <1>0, <2>2 DEF Client, Statuses
  <2>5. y.initial = x.initial /\ y.main = x.main
    BY <1>0 DEF Client
  <2> HIDE DEF y
  <2>6. p \in Client /\ p.initial = y.initial /\ p.main = y.main
    BY <2>4 DEF Client
  <2>7. q \in Client /\ q.initial = y.initial /\ q.main = y.main /\ q.queued = "timer"
    BY <2>4 DEF Client
  <2> HIDE DEF p, q
  <2>8. Post(p, "connect") \in Client /\ Quiet(p, Post(p, "connect")) /\ Waiting(Post(p, "connect"))
    BY <2>6, PostFacts DEF Events
  <2>9. Sound(q) /\ GoesOn(q)
    BY <1>2, <2>5, <2>7 DEF Sound, GoesOn
  <2>10. Sound(Post(p, "connect")) /\ GoesOn(Post(p, "connect"))
    BY <2>5, <2>6, <2>8 DEF Sound, GoesOn, Quiet
  <2> QED BY <2>3, <2>9, <2>10
<1> QED BY <1>1, <1>2

\* connectToServer starts an attempt unless there is an operation.
LEMMA ConnectToServerFacts ==
  ASSUME NEW x, Sound(x), GoesOn(x)
  PROVE  Sound(ConnectToServer(x)) /\ GoesOn(ConnectToServer(x))
<1> DEFINE y == [x EXCEPT !.connectOp = "running", !.attempt = 0]
<1>1. ConnectToServer(x) \in {x, QueueConnectToNextServer(y)}
  BY DEF ConnectToServer
<1>2. x \in Client /\ 0 \in 0..Len(Intervals)
  BY ConnectionAssumption DEF Sound
<1>3. y \in Client
  BY <1>2 DEF Client, OpStates
<1>4. Sound(y)
  BY <1>2, <1>3 DEF Sound, Client, Waiting
<1> HIDE DEF y
<1> QED BY <1>1, <1>4, QueueFacts

\* The application signs in.
LEMMA StartAuthenticationFacts ==
  ASSUME NEW x, Sound(x), GoesOn(x), NEW phone \in BOOLEAN
  PROVE  Sound(StartAuthentication(x, phone)) /\ GoesOn(StartAuthentication(x, phone))
<1> DEFINE y == NewAuth(x, "signIn", phone)
           z == ConnectToServer(y)
<1>1. StartAuthentication(x, phone) \in {x, RunAfterConnect(z)}
  BY DEF StartAuthentication
<1>2. y \in Client /\ Quiet(x, y)
  BY NewAuthFacts DEF Sound
<1> HIDE DEF y
<1>3. Sound(y) /\ GoesOn(y)
  BY <1>2, QuietKeeps DEF Sound
<1>4. Sound(z) /\ GoesOn(z)
  BY <1>3, ConnectToServerFacts
<1> HIDE DEF z
<1> QED BY <1>1, <1>4, RunAfterConnectFacts, QuietKeeps DEF Sound

\* The application checks in.
LEMMA CheckInFacts ==
  ASSUME NEW x, Sound(x), GoesOn(x)
  PROVE  Sound(CheckIn(x)) /\ GoesOn(CheckIn(x))
<1> DEFINE y == NewAuth(x, "checkIn", FALSE)
           w == [y EXCEPT !.auth.step = "startPosted"]
           z == ConnectToServer(y)
<1>1. CheckIn(x) \in {x, Post(w, "auth"), RunAfterConnect(z)}
  BY DEF CheckIn
<1>2. y \in Client /\ Quiet(x, y)
  BY NewAuthFacts DEF Sound
<1> HIDE DEF y
<1>3. Sound(y) /\ GoesOn(y)
  BY <1>2, QuietKeeps DEF Sound
<1>4. Sound(z) /\ GoesOn(z)
  BY <1>3, ConnectToServerFacts
<1>5. w \in Client /\ Quiet(y, w)
  BY <1>2, SetStepFacts DEF AuthSteps
<1> HIDE DEF z, w
<1>6. Post(w, "auth") \in Client /\ Quiet(w, Post(w, "auth"))
  BY <1>5, PostFacts DEF Events
<1>7. Sound(Post(w, "auth")) /\ GoesOn(Post(w, "auth"))
  BY <1>2, <1>3, <1>5, <1>6, QuietKeeps
<1>8. Sound(RunAfterConnect(z)) /\ GoesOn(RunAfterConnect(z))
  BY <1>4, RunAfterConnectFacts, QuietKeeps DEF Sound
<1> QED BY <1>1, <1>7, <1>8

\* The account lives on another DC: a new attempt.
LEMMA RedirectedFacts ==
  ASSUME NEW x, Sound(x), GoesOn(x), NEW known \in BOOLEAN
  PROVE  Sound(Redirected(x, known)) /\ GoesOn(Redirected(x, known))
<1> DEFINE y == [x EXCEPT !.connectOp = "null", !.auth.on = None]
           w == [y EXCEPT !.auth.step = "stalled"]
           z == ConnectToServer(y)
           r == [z EXCEPT !.auth.step = "redirected"]
<1>1. Redirected(x, known) \in {w, r}
  BY DEF Redirected
<1>2. y \in Client /\ Quiet(x, y)
  BY DEF Sound, Client, Quiet, Auth, OpStates, Waiting
<1> HIDE DEF y
<1>3. Sound(y) /\ GoesOn(y)
  BY <1>2, QuietKeeps DEF Sound
<1>4. Sound(z) /\ GoesOn(z)
  BY <1>3, ConnectToServerFacts
<1>5. w \in Client /\ Quiet(y, w)
  BY <1>2, SetStepFacts DEF AuthSteps
<1> HIDE DEF z
<1>6. r \in Client /\ Quiet(z, r)
  BY <1>4, SetStepFacts DEF AuthSteps, Sound
<1> HIDE DEF w, r
<1>7. Sound(w) /\ GoesOn(w)
  BY <1>2, <1>3, <1>5, QuietKeeps
<1>8. Sound(r) /\ GoesOn(r)
  BY <1>4, <1>6, QuietKeeps DEF Sound
<1> QED BY <1>1, <1>7, <1>8

\* A Connection object is destroyed.
LEMMA ForgetFacts ==
  ASSUME NEW x \in Client, NEW c \in Conns
  PROVE  /\ Forget(x, c) \in Client
         /\ Forget(x, c).initial = x.initial /\ Forget(x, c).main = x.main
         /\ Forget(x, c).conn = [x.conn EXCEPT ![c] = "free"]
         /\ Forget(x, c).queued = x.queued /\ Forget(x, c).connectOp = x.connectOp
         /\ Forget(x, c).posted = x.posted /\ Forget(x, c).keyed = x.keyed
<1> DEFINE a == IF x.auth.on = c THEN [x.auth EXCEPT !.on = None] ELSE x.auth
           g == IF x.config.on = c THEN [x.config EXCEPT !.on = None] ELSE x.config
           n == IF x.sync = c THEN None ELSE x.sync
           f == [x.conn EXCEPT ![c] = "free"]
<1>1. a \in Auth
  BY ClientAuth DEF Auth
<1>2. g \in [op : OpStates, on : Conns \cup {None}]
  BY DEF Client
<1>3. n \in Conns \cup {None}
  BY DEF Client
<1>4. f \in [Conns -> ConnStatuses]
  BY DEF Client, ConnStatuses
<1>5. Forget(x, c) = [x EXCEPT !.conn = f, !.auth = a, !.config = g, !.sync = n]
  BY DEF Forget, Client
<1> HIDE DEF a, g, n, f
<1>6. [x EXCEPT !.conn = f, !.auth = a, !.config = g, !.sync = n] \in Client
  BY <1>1, <1>2, <1>3, <1>4 DEF Client
<1> QED BY <1>5, <1>6 DEF Client, f

\* The next connection replaces the initial one.
LEMMA ConnectToNextServerFacts ==
  ASSUME NEW x \in Client, Unused(x) # {}
  PROVE  Sound(ConnectToNextServer(x)) /\ GoesOn(ConnectToNextServer(x))
<1> DEFINE y == IF x.initial = None THEN x ELSE Forget(x, x.initial)
           c == Min(Unused(x))
           z == Forget(y, c)
           k == IF x.stored THEN z.keyed \cup {c} ELSE z.keyed \ {c}
           n == [z EXCEPT !.queued = "no", !.initial = c, !.conn[c] = "Connecting", !.keyed = k]
<1>1. c \in Unused(x)
  <2>1. Unused(x) \in SUBSET Nat
    BY ConnectionAssumption DEF Unused
  <2> QED BY <2>1, MinFacts
<1>2. c \in Conns /\ c # x.initial /\ c # x.main
  BY <1>1 DEF Unused
<1>3. ConnectToNextServer(x) = SetStatus(n, "Connecting")
  BY DEF ConnectToNextServer
<1> HIDE DEF c
<1>4. y \in Client /\ y.main = x.main
  <2>1. x.initial \in Conns \cup {None}
    BY DEF Client
  <2> QED BY <2>1, ForgetFacts
<1> HIDE DEF y
<1>5. z \in Client /\ z.main = x.main
  BY <1>2, <1>4, ForgetFacts
<1> HIDE DEF z
<1>6. k \in SUBSET Conns
  BY <1>2, <1>5 DEF Client
<1> HIDE DEF k
<1>7. n \in Client /\ n.initial = c /\ n.main = x.main /\ n.queued = "no" /\ n.conn[c] = "Connecting"
  BY <1>2, <1>5, <1>6 DEF Client, ConnStatuses
<1> HIDE DEF n
<1>8. Sound(n) /\ GoesOn(n)
  BY <1>2, <1>7, ConnectionAssumption DEF Sound, GoesOn, Live, None
<1> QED BY <1>3, <1>7, <1>8, SetStatusFacts, QuietKeeps DEF Statuses

\* The main connection is signed.
LEMMA OnMainSignedFacts ==
  ASSUME NEW x \in Client, x.main \in Conns
  PROVE  /\ OnMainSigned(x) \in Client /\ Quiet(x, OnMainSigned(x))
<1> DEFINE b == x.known \/ x.main \notin x.keyed
           y == SetStatus([x EXCEPT !.stored = TRUE, !.known = b], "Connected")
           z == [y EXCEPT !.sync = x.main]
<1>0. b \in BOOLEAN
  OBVIOUS
<1>1. OnMainSigned(x) \in {Post(y, "sync"), z}
  BY DEF OnMainSigned
<1> HIDE DEF b
<1>2. y \in Client /\ Quiet(x, y)
  BY <1>0 DEF Client, Quiet, Waiting, SetStatus, Statuses
<1> HIDE DEF y
<1>3. z \in Client /\ Quiet(y, z)
  <2>1. z \in Client
    BY <1>2 DEF Client
  <2>2. Quiet(y, z)
    BY <1>2 DEF Client, Quiet, Waiting
  <2> QED BY <2>1, <2>2
<1> HIDE DEF z
<1>4. Post(y, "sync") \in Client /\ Quiet(y, Post(y, "sync"))
  BY <1>2, PostFacts DEF Events
<1> QED BY <1>1, <1>2, <1>3, <1>4, QuietTransitive

\* A connection becomes the main one, and is not the initial one then.
LEMMA SetMainConnectionFacts ==
  ASSUME NEW x, Sound(x), x.connectOp = "null", NEW c \in Conns
  PROVE  Sound(SetMainConnection(x, c)) /\ GoesOn(SetMainConnection(x, c))
<1> DEFINE i == IF x.initial = c THEN None ELSE x.initial
           y == [x EXCEPT !.main = c, !.initial = i]
<1>1. SetMainConnection(x, c) = OnMainSigned(y)
  BY DEF SetMainConnection
<1>2. x \in Client
  BY DEF Sound
<1>3. i \in Conns \cup {None} /\ (i # None => i # c)
  BY <1>2 DEF Client
<1> HIDE DEF i
<1>4. y \in Client /\ y.main = c /\ y.initial = i /\ y.connectOp = "null"
  BY <1>2, <1>3 DEF Client
<1>5. Sound(y)
  BY <1>2, <1>3, <1>4 DEF Sound, Client, Waiting
<1>6. GoesOn(y)
  BY <1>4 DEF GoesOn
<1> HIDE DEF y
<1> QED BY <1>1, <1>4, <1>5, <1>6, OnMainSignedFacts, QuietKeeps

\* The auth operation succeeds.
LEMMA AuthSucceededFacts ==
  ASSUME NEW x, Sound(x), NEW c \in Conns
  PROVE  Sound(AuthSucceeded(x, c)) /\ GoesOn(AuthSucceeded(x, c))
<1> DEFINE f == [x.conn EXCEPT ![c] = "Signed"]
           a == [x.auth EXCEPT !.step = "succeeded", !.on = None]
           y == [x EXCEPT !.conn = f, !.auth = a, !.connectOp = "null"]
<1>1. x \in Client
  BY DEF Sound
<1>2. AuthSucceeded(x, c) = SetMainConnection(y, c)
  BY <1>1 DEF AuthSucceeded, Client, Auth
<1>3. f \in [Conns -> ConnStatuses]
  BY <1>1 DEF Client, ConnStatuses
<1>4. a \in Auth
  BY <1>1, ClientAuth, AuthStepFacts DEF AuthSteps
<1> HIDE DEF f, a
<1>5. y \in Client /\ y.connectOp = "null"
  BY <1>1, <1>3, <1>4 DEF Client, OpStates
<1>6. Sound(y)
  BY <1>1, <1>5 DEF Sound, Client, Waiting
<1> HIDE DEF y
<1> QED BY <1>2, <1>5, <1>6, SetMainConnectionFacts

\* The main connection is lost; the initial one is another.
LEMMA OnMainConnectionLostFacts ==
  ASSUME NEW x, Sound(x), GoesOn(x), x.main \in Conns
  PROVE  Sound(OnMainConnectionLost(x)) /\ GoesOn(OnMainConnectionLost(x))
<1> DEFINE y == Forget(x, x.main)
           z == [y EXCEPT !.main = None, !.stored = TRUE]
           w == SetStatus(z, "Connecting")
<1>1. OnMainConnectionLost(x) = CheckIn(w)
  BY DEF OnMainConnectionLost
<1>2. x \in Client
  BY DEF Sound
<1>3. /\ y \in Client
      /\ y.initial = x.initial /\ y.main = x.main
      /\ y.conn = [x.conn EXCEPT ![x.main] = "free"]
      /\ y.queued = x.queued /\ y.connectOp = x.connectOp
      /\ y.posted = x.posted
  BY <1>2, ForgetFacts
<1>4. x.initial # None => x.initial # x.main /\ x.initial \in Conns
  BY <1>2 DEF Sound, Client
<1>5. x.initial # None => y.conn[x.initial] = x.conn[x.initial]
  BY <1>2, <1>3, <1>4 DEF Client
<1> HIDE DEF y
<1>6. z \in Client
  BY <1>3 DEF Client
<1>7. Quiet(x, z)
  BY <1>3, <1>5 DEF Quiet, Waiting, Client
<1> HIDE DEF z
<1>8. w \in Client /\ Quiet(z, w)
  BY <1>6, SetStatusFacts DEF Statuses
<1> HIDE DEF w
<1>9. Sound(w) /\ GoesOn(w)
  BY <1>2, <1>6, <1>7, <1>8, QuietKeeps
<1> QED BY <1>1, <1>9, CheckInFacts

\* The connection c tells that its status has changed; if the attempt rests on it,
\* the next one is queued.
LEMMA StatusChangedFacts ==
  ASSUME NEW x, Sound(x), NEW c \in Conns,
         GoesOn(x) \/ (x.initial = c /\ x.conn[c] = "Disconnected")
  PROVE  /\ Sound(OnConnectionStatusChanged(x, c))
         /\ GoesOn(OnConnectionStatusChanged(x, c))
<1>0. x \in Client /\ c # None
  BY ConnectionAssumption DEF Sound, None
<1>1. CASE c = x.initial
  <2> DEFINE y == [x EXCEPT !.attempt = 0]
  <2>1. OnConnectionStatusChanged(x, c)
          = CASE x.conn[c] = "Disconnected" -> QueueConnectToNextServer(x)
              [] x.conn[c] = "HasDhKey"     -> GetDcConfig(y)
              [] OTHER                      -> x
    BY <1>1 DEF OnConnectionStatusChanged, OnInitialConnectionStatusChanged
  <2>0. 0 \in 0..Len(Intervals)
    BY ConnectionAssumption
  <2>2. y \in Client /\ Quiet(x, y)
    BY <1>0, <2>0 DEF Client, Quiet, Waiting
  <2> HIDE DEF y
  <2>3. GetDcConfig(y) \in Client /\ Quiet(y, GetDcConfig(y))
    BY <2>2, GetDcConfigFacts
  <2>4. Sound(GetDcConfig(y)) /\ (GoesOn(x) => GoesOn(GetDcConfig(y)))
    BY <1>0, <2>2, <2>3, QuietKeeps
  <2> QED BY <2>1, <2>4, QueueFacts
<1>2. CASE c # x.initial /\ c = x.main
  <2>1. OnConnectionStatusChanged(x, c) \in {OnMainConnectionLost(x), x}
    BY <1>2 DEF OnConnectionStatusChanged, OnMainConnectionStatusChanged
  <2> QED BY <1>2, <2>1, OnMainConnectionLostFacts
<1>3. CASE c # x.initial /\ c # x.main
  <2> DEFINE y == [x EXCEPT !.crashed = TRUE]
             f == [x.conn EXCEPT ![c] = "Signed"]
             z == [x EXCEPT !.conn = f]
  <2>1. OnConnectionStatusChanged(x, c) \in {x, y, z}
    BY <1>3 DEF OnConnectionStatusChanged, OnOrphanStatusChanged
  <2>2. y \in Client /\ Quiet(x, y)
    BY <1>0 DEF Client, Quiet, Waiting
  <2>3. f \in [Conns -> ConnStatuses] /\ \A d \in Conns : d # c => f[d] = x.conn[d]
    BY <1>0 DEF Client, ConnStatuses
  <2> HIDE DEF f
  <2>4. z \in Client /\ Quiet(x, z)
    BY <1>0, <1>3, <2>3 DEF Client, Quiet, Waiting
  <2> HIDE DEF y, z
  <2> QED BY <1>0, <1>3, <2>1, <2>2, <2>4, QuietKeeps
<1> QED BY <1>1, <1>2, <1>3

\* A connection changes its status.
LEMMA SetConnStatusFacts ==
  ASSUME NEW x, Sound(x), GoesOn(x), NEW c \in Conns,
         NEW status \in {"Connected", "HasDhKey", "Disconnected", "Failed"}
  PROVE  Sound(SetConnStatus(x, c, status)) /\ GoesOn(SetConnStatus(x, c, status))
<1> DEFINE f == [x.conn EXCEPT ![c] = status]
           y == [x EXCEPT !.conn = f]
           lost == \/ status = "Failed"
                   \/ status = "Disconnected" /\ x.conn[c] # "Failed"
           z == IF lost THEN RpcLost(y, c) ELSE y
<1>0. x \in Client /\ c # None
  BY ConnectionAssumption DEF Sound, None
<1>1. SetConnStatus(x, c, status) = OnConnectionStatusChanged(z, c)
  BY DEF SetConnStatus
<1>2. /\ f \in [Conns -> ConnStatuses] /\ f[c] = status
      /\ \A d \in Conns : d # c => f[d] = x.conn[d]
  BY <1>0 DEF Client, ConnStatuses
<1> HIDE DEF f
<1>3. /\ y \in Client /\ y.conn = f /\ y.initial = x.initial /\ y.main = x.main
      /\ y.queued = x.queued /\ y.posted = x.posted /\ y.connectOp = x.connectOp
  BY <1>0, <1>2 DEF Client
<1> HIDE DEF y
<1>4. Sound(y)
  BY <1>3 DEF Sound, Waiting
<1>5. x.initial \in Conns \cup {None}
  BY <1>0 DEF Client
<1>6. GoesOn(y) \/ (y.initial = c /\ y.conn[c] = "Disconnected")
  BY <1>2, <1>3, <1>5 DEF GoesOn, Waiting, Live
<1>7. z \in Client /\ Quiet(y, z)
  <2>1. Quiet(y, y)
    BY DEF Quiet
  <2> QED BY <1>3, <2>1, RpcLostFacts
<1> HIDE DEF z
<1>8. Sound(z)
  BY <1>3, <1>4, <1>7, QuietKeeps
<1>9. GoesOn(z) \/ (z.initial = c /\ z.conn[c] = "Disconnected")
  <2>1. CASE GoesOn(y)
    BY <1>3, <1>7, <2>1, QuietKeeps
  <2>2. CASE y.initial = c /\ y.conn[c] = "Disconnected" /\ z.connectOp = "running"
    BY <1>0, <1>7, <2>2 DEF Quiet
  <2>3. CASE z.connectOp # "running"
    BY <2>3 DEF GoesOn
  <2> QED BY <1>6, <2>1, <2>2, <2>3
<1> QED BY <1>1, <1>8, <1>9, StatusChangedFacts

\* The server refuses the key.
LEMMA OnConnectionErrorFacts ==
  ASSUME NEW x \in Client, NEW c \in Conns
  PROVE  OnConnectionError(x, c) \in Client /\ Quiet(x, OnConnectionError(x, c))
<1> DEFINE y == [x EXCEPT !.stored = FALSE]
           z == IF c # x.initial THEN x
                ELSE IF x.connectOp = "running" THEN ConnectOpFailed(y) ELSE y
<1>1. OnConnectionError(x, c) \in {z, FinishAuthFailed(z)}
  BY DEF OnConnectionError
<1>2. y \in Client /\ Quiet(x, y)
  <2>1. y \in Client
    BY DEF Client
  <2>2. Quiet(x, y)
    BY DEF Client, Quiet, Waiting
  <2> QED BY <2>1, <2>2
<1> HIDE DEF y
<1>3. Quiet(x, x)
  BY DEF Quiet
<1>4. z \in Client /\ Quiet(x, z)
  BY <1>2, <1>3, ConnectOpFailedFacts, QuietTransitive
<1> HIDE DEF z
<1> QED BY <1>1, <1>4, FinishAuthFailedFacts, QuietTransitive

(***************************************************************************)
(* The steps.                                                              *)
(***************************************************************************)
\* The inductive invariant.
ConnInv == Sound(s) /\ GoesOn(s) /\ calls \in Nat /\ losses \in Nat

\* What a handler that keeps Sound and GoesOn is good for.
LEMMA StepKeeps ==
  ASSUME ConnInv, NEW x, Sound(x), GoesOn(x), Step(x)
  PROVE  ConnInv'
BY DEF ConnInv, Step, Sound, GoesOn, Waiting

\* The same for a quiet handler.
LEMMA QuietStepKeeps ==
  ASSUME ConnInv, NEW x \in Client, Quiet(s, x), Step(x)
  PROVE  ConnInv'
<1>1. Sound(x) /\ GoesOn(x)
  BY QuietKeeps DEF ConnInv, Sound
<1> QED BY <1>1, StepKeeps

\* Calls of the application.
LEMMA ApplicationKeeps ==
  ASSUME ConnInv, Application
  PROVE  ConnInv'
<1>0. s \in Client
  BY DEF ConnInv, Sound
<1>1. ASSUME NEW name, NEW x, Sound(x), GoesOn(x), AppCall(name, x)
      PROVE  ConnInv'
  BY <1>1 DEF ConnInv, AppCall, Sound, GoesOn, Waiting
<1>2. CASE AppCheckIn
  BY <1>1, <1>2, CheckInFacts DEF AppCheckIn, ConnInv
<1>3. CASE AppStartAuthentication
  BY <1>1, <1>3, StartAuthenticationFacts DEF AppStartAuthentication, ConnInv
<1>4. CASE AppDisconnect
  BY <1>0, <1>1, <1>4, DisconnectFacts, QuietKeeps DEF AppDisconnect, ConnInv
<1> QED BY <1>2, <1>3, <1>4 DEF Application

\* Answers of the user.
LEMMA UserKeeps ==
  ASSUME ConnInv, User
  PROVE  ConnInv'
<1>0. s \in Client /\ "signIn" \in Rpcs /\ "checkPassword" \in Rpcs
  BY DEF ConnInv, Sound, Rpcs
<1>1. CASE SubmitPhoneNumber
  <2> DEFINE a == [s.auth EXCEPT !.phone = TRUE]
             x == [s EXCEPT !.auth = a]
  <2>1. Step(RequestAuthCode(x))
    BY <1>1 DEF SubmitPhoneNumber
  <2>2. a \in Auth
    BY <1>0, ClientAuth DEF Auth
  <2> HIDE DEF a
  <2>3. x \in Client /\ Quiet(s, x)
    BY <1>0, <2>2, AuthFacts
  <2> HIDE DEF x
  <2> QED BY <2>1, <2>3, RequestAuthCodeFacts, QuietTransitive, QuietStepKeeps
<1>2. CASE SubmitAuthCode
  BY <1>0, <1>2, SendAuthRpcFacts, QuietStepKeeps DEF SubmitAuthCode
<1>3. CASE SubmitPassword
  BY <1>0, <1>3, SendAuthRpcFacts, QuietStepKeeps DEF SubmitPassword
<1> QED BY <1>1, <1>2, <1>3 DEF User

\* The queue without its first event.
LEMMA TailFacts ==
  ASSUME NEW q \in Seq(Events), q # <<>>
  PROVE  /\ Tail(q) \in Seq(Events) /\ Head(q) \in Events
         /\ Head(q) # "connect" /\ "connect" \in Range(q) => "connect" \in Range(Tail(q))
<1>1. /\ Tail(q) \in Seq(Events) /\ Len(q) \in Nat \ {0} /\ Len(Tail(q)) = Len(q) - 1
      /\ Head(q) = q[1] /\ \A i \in 1..Len(q) - 1 : Tail(q)[i] = q[i + 1]
      /\ DOMAIN q = 1..Len(q) /\ DOMAIN Tail(q) = 1..Len(Tail(q))
      /\ Head(q) \in Events
  OBVIOUS
<1>2. ASSUME Head(q) # "connect", "connect" \in Range(q)
      PROVE  "connect" \in Range(Tail(q))
  <2>1. PICK i \in 1..Len(q) : q[i] = "connect"
    BY <1>1, <1>2 DEF Range
  <2>2. i # 1 /\ i - 1 \in 1..Len(Tail(q)) /\ Tail(q)[i - 1] = "connect"
    BY <1>1, <1>2, <2>1
  <2> QED BY <1>1, <2>2 DEF Range
<1> QED BY <1>1, <1>2

\* A posted event is handled.
LEMMA RunPostedKeeps ==
  ASSUME ConnInv, RunPosted
  PROVE  ConnInv'
<1> DEFINE event == Head(s.posted)
           x == [s EXCEPT !.posted = Tail(s.posted)]
           d == Default(x)
           g == [s.config EXCEPT !.on = d]
           w == [x EXCEPT !.config = g]
<1>0. s \in Client /\ s.posted \in Seq(Events) /\ s.posted # <<>>
  BY DEF ConnInv, Sound, Client, Events, RunPosted
<1>1. Tail(s.posted) \in Seq(Events) /\ event \in Events
      /\ (event # "connect" /\ Waiting(s) => "connect" \in Range(Tail(s.posted)))
  BY <1>0, TailFacts DEF Waiting
<1>2. x \in Client
  BY <1>0, <1>1 DEF Client, Events
<1>3. /\ x.posted = Tail(s.posted) /\ x.queued = s.queued /\ x.connectOp = s.connectOp
      /\ x.initial = s.initial /\ x.main = s.main /\ x.conn = s.conn
      /\ x.config = s.config
  BY <1>0 DEF Client
<1>4. /\ event = "connect" => Step(ConnectToNextServer(x)) /\ Unused(x) # {}
      /\ event = "config" => Step(w)
      /\ event = "auth" => Step(StartAuth(x))
      /\ event = "authError" => Step(FinishAuthFailed(x))
      /\ event = "sync" => Step(SetStatus(x, "Ready"))
  BY <1>3 DEF RunPosted, Unused
<1>5. d \in Conns \cup {None}
  BY <1>2 DEF Default, Client
<1> HIDE DEF event, x, d
<1>6. CASE event = "connect"
  BY <1>2, <1>4, <1>6, ConnectToNextServerFacts, StepKeeps
<1>7. CASE event # "connect"
  <2>1. Quiet(s, x)
    BY <1>1, <1>3, <1>7 DEF Quiet, Waiting
  <2>2. g \in [op : OpStates, on : Conns \cup {None}]
    BY <1>0, <1>5 DEF Client
  <2> HIDE DEF g
  <2>3. w \in Client /\ Quiet(x, w)
    <3>1. w \in Client
      BY <1>2, <2>2 DEF Client
    <3>2. Quiet(x, w)
      BY <1>2, <2>2 DEF Client, Quiet, Waiting
    <3> QED BY <3>1, <3>2
  <2> HIDE DEF w
  <2>4. \A y \in Client : Quiet(x, y) /\ Step(y) => ConnInv'
    BY <2>1, QuietTransitive, QuietStepKeeps
  <2>5. "Ready" \in Statuses
    BY DEF Statuses
  <2>6. event \in {"config", "auth", "authError", "sync"}
    BY <1>1, <1>7 DEF Events
  <2> QED BY <1>2, <1>4, <2>3, <2>4, <2>5, <2>6, StartAuthFacts, FinishAuthFailedFacts, SetStatusFacts
<1> QED BY <1>6, <1>7

\* A connection gets on, is refused or closed.
LEMMA ConnectionKeeps ==
  ASSUME ConnInv, NEW c \in Conns, Progress(c) \/ TransportClosed(c)
  PROVE  ConnInv'
<1>0. s \in Client /\ Sound(s) /\ GoesOn(s)
  BY DEF ConnInv, Sound
<1>1. CASE TransportConnected(c)
  <2> DEFINE x == SetConnStatus(s, c, "Connected")
  <2>1. Sound(x) /\ GoesOn(x)
    BY <1>0, SetConnStatusFacts
  <2>2. Step(SetConnStatus(x, c, "HasDhKey")) \/ Step(x)
    BY <1>1 DEF TransportConnected
  <2> HIDE DEF x
  <2>3. Sound(SetConnStatus(x, c, "HasDhKey")) /\ GoesOn(SetConnStatus(x, c, "HasDhKey"))
    BY <2>1, SetConnStatusFacts
  <2> QED BY <2>1, <2>2, <2>3, StepKeeps
<1>2. CASE DhEstablished(c)
  BY <1>0, <1>2, SetConnStatusFacts, StepKeeps DEF DhEstablished
<1>3. CASE KeyRefused(c)
  <2> DEFINE x == OnConnectionError(s, c)
  <2>1. x \in Client /\ Quiet(s, x)
    BY <1>0, OnConnectionErrorFacts
  <2>2. Step(SetConnStatus(x, c, "Failed"))
    BY <1>3 DEF KeyRefused
  <2> HIDE DEF x
  <2>3. Sound(x) /\ GoesOn(x)
    BY <1>0, <2>1, QuietKeeps
  <2> QED BY <2>2, <2>3, SetConnStatusFacts, StepKeeps
<1>4. CASE TransportClosed(c)
  <2> DEFINE x == SetConnStatus(s, c, "Disconnected")
  <2>1. Sound(x) /\ GoesOn(x)
    BY <1>0, SetConnStatusFacts
  <2>2. s' = x /\ calls' = calls /\ losses' = losses + 1
    BY <1>4 DEF TransportClosed
  <2> HIDE DEF x
  <2> QED BY <2>1, <2>2 DEF ConnInv, Sound, GoesOn, Waiting
<1> QED BY <1>1, <1>2, <1>3, <1>4 DEF Progress

\* A reply comes.
LEMMA RepliesKeep ==
  ASSUME ConnInv, Replies
  PROVE  ConnInv'
<1>0. s \in Client /\ Sound(s) /\ GoesOn(s)
  BY DEF ConnInv, Sound
<1>1. \A x \in Client : Quiet(s, x) /\ Step(x) => ConnInv'
  BY QuietStepKeeps
<1>2. \A rpc : AuthAnswered(rpc) => s.auth.on \in Conns
  BY <1>0, ClientAuth DEF AuthAnswered, Answers, Encrypted, Auth
<1>3. ASSUME NEW c \in Conns, Step(AuthSucceeded(s, c))
      PROVE  ConnInv'
  BY <1>0, <1>3, AuthSucceededFacts, StepKeeps
<1>4. ASSUME NEW c \in Conns, Step(AuthSucceeded([s EXCEPT !.self = TRUE], c))
      PROVE  ConnInv'
  <2> DEFINE x == [s EXCEPT !.self = TRUE]
  <2>1. x \in Client /\ Quiet(s, x)
    BY <1>0 DEF Client, Quiet, Waiting
  <2>2. Step(AuthSucceeded(x, c))
    BY <1>4
  <2> HIDE DEF x
  <2>3. Sound(x)
    BY <1>0, <2>1, QuietKeeps
  <2> QED BY <2>2, <2>3, AuthSucceededFacts, StepKeeps
<1>5. Step(FinishAuthFailed(s)) => ConnInv'
  BY <1>0, <1>1, FinishAuthFailedFacts
<1>6. Step(FinishAuthLater(s)) => ConnInv'
  BY <1>0, <1>1, FinishAuthLaterFacts
<1>7. \A step \in AuthSteps : Step(AskUser(s, step)) => ConnInv'
  BY <1>0, <1>1, AskUserFacts
<1>8. "code" \in AuthSteps /\ "password" \in AuthSteps /\ "getPassword" \in Rpcs
  BY DEF AuthSteps, Rpcs
<1>10. CASE ConfigReply
  BY <1>0, <1>1, <1>10, ConfigFinishedFacts DEF ConfigReply
<1>11. CASE SyncReply
  <2> DEFINE x == [s EXCEPT !.sync = None]
             y == [x EXCEPT !.self = TRUE]
  <2>1. Step(SetStatus(y, "Ready")) \/ Step(x)
    BY <1>11 DEF SyncReply
  <2>2. x \in Client /\ Quiet(s, x)
    BY <1>0 DEF Client, Quiet, Waiting
  <2> HIDE DEF x
  <2>3. y \in Client /\ Quiet(x, y)
    <3>1. y \in Client
      BY <2>2 DEF Client
    <3>2. Quiet(x, y)
      BY <2>2 DEF Client, Quiet, Waiting
    <3> QED BY <3>1, <3>2
  <2> HIDE DEF y
  <2>4. SetStatus(y, "Ready") \in Client /\ Quiet(y, SetStatus(y, "Ready"))
    BY <2>3, SetStatusFacts DEF Statuses
  <2>5. Quiet(s, SetStatus(y, "Ready"))
    BY <2>2, <2>3, <2>4, QuietTransitive
  <2> QED BY <1>1, <2>1, <2>2, <2>4, <2>5
<1>12. CASE UpdateStatusReply
  BY <1>2, <1>3, <1>5, <1>12 DEF UpdateStatusReply
<1>13. CASE SendCodeReply
  <2> DEFINE x == AskUser(s, "code")
  <2>1. \/ Step(SetStatus(x, "WaitForAuthentication"))
        \/ \E known \in BOOLEAN : Step(Redirected(s, known /\ s.config.op = "succeeded"))
        \/ Step(FinishAuthLater(s))
    BY <1>13 DEF SendCodeReply
  <2>2. x \in Client /\ Quiet(s, x)
    BY <1>0, <1>8, AskUserFacts
  <2> HIDE DEF x
  <2>3. SetStatus(x, "WaitForAuthentication") \in Client
        /\ Quiet(s, SetStatus(x, "WaitForAuthentication"))
    BY <2>2, SetStatusFacts, QuietTransitive DEF Statuses
  <2>4. ASSUME NEW known \in BOOLEAN, Step(Redirected(s, known /\ s.config.op = "succeeded"))
        PROVE  ConnInv'
    <3> DEFINE k == known /\ s.config.op = "succeeded"
    <3>1. k \in BOOLEAN /\ Step(Redirected(s, k))
      BY <2>4
    <3> HIDE DEF k
    <3> QED BY <1>0, <3>1, RedirectedFacts, StepKeeps
  <2> QED BY <1>1, <1>6, <2>1, <2>3, <2>4
<1>14. CASE SignInReply
  <2>1. Step(SendAuthRpc(s, "getPassword")) => ConnInv'
    BY <1>0, <1>1, <1>8, SendAuthRpcFacts
  <2> QED BY <1>2, <1>4, <1>6, <1>7, <1>8, <1>14, <2>1 DEF SignInReply
<1>15. CASE GetPasswordReply
  BY <1>6, <1>7, <1>8, <1>15 DEF GetPasswordReply
<1>16. CASE CheckPasswordReply
  BY <1>2, <1>4, <1>6, <1>7, <1>8, <1>16 DEF CheckPasswordReply
<1> QED BY <1>10, <1>11, <1>12, <1>13, <1>14, <1>15, <1>16 DEF Replies

\* The first state, however the account was stored.
LEMMA InitConnInv == Init => ConnInv
<1> SUFFICES ASSUME Init PROVE ConnInv
  OBVIOUS
<1>0. calls = 0 /\ losses = 0
  BY DEF Init
<1>1. 0 \in 0..Len(Intervals) /\ None \in Conns \cup {None}
  BY ConnectionAssumption
<1>2. <<>> \in Seq(Events)
  OBVIOUS
<1>3. [c \in Conns |-> "free"] \in [Conns -> ConnStatuses]
  BY DEF ConnStatuses
<1>4. [kind |-> "checkIn", step |-> "none", phone |-> FALSE, on |-> None, sent |-> FALSE] \in Auth
  BY DEF Auth, AuthSteps
<1>5. s \in Client
  BY <1>1, <1>2, <1>3, <1>4 DEF Init, Client, Statuses, OpStates, Events
<1>6. s.connectOp = "null" /\ s.initial = None /\ s.queued = "no"
  BY DEF Init
<1> QED BY <1>0, <1>5, <1>6 DEF ConnInv, Sound, GoesOn

\* Every step.
LEMMA NextConnInv == ConnInv /\ [Next]_vars => ConnInv'
<1> SUFFICES ASSUME ConnInv, [Next]_vars PROVE ConnInv'
  OBVIOUS
<1>0. s \in Client
  BY DEF ConnInv, Sound
<1>1. CASE TimerFires
  BY <1>0, <1>1, ConnectToNextServerFacts, StepKeeps DEF TimerFires
<1>2. CASE ServerForgetsKey
  <2> DEFINE x == [s EXCEPT !.known = FALSE]
  <2>1. x \in Client /\ Quiet(s, x)
    BY <1>0 DEF Client, Quiet, Waiting
  <2>2. Step(x)
    BY <1>2 DEF ServerForgetsKey
  <2> HIDE DEF x
  <2> QED BY <2>1, <2>2, QuietStepKeeps
<1>3. CASE UNCHANGED vars
  BY <1>3 DEF vars, ConnInv, Sound, GoesOn, Waiting
<1> QED BY <1>1, <1>2, <1>3, ApplicationKeeps, UserKeeps, RunPostedKeeps, RepliesKeep,
           ConnectionKeeps DEF Next

\* Every variable of the client keeps its type, whatever is called, received or lost.
THEOREM ConnectionTypeCorrect == Spec => []TypeOK
<1>1. ConnInv => TypeOK
  BY DEF ConnInv, Sound, TypeOK
<1> QED BY <1>1, InitConnInv, NextConnInv, PTL DEF Spec

\* The connection attempt behind connectToServer never dies quietly, in whatever
\* order the application signs in, checks in and disconnects and whatever is lost.
THEOREM AttemptGoesOn == Spec => []ConnectGoesOn
<1>1. ConnInv => ConnectGoesOn
  BY DEF ConnInv, GoesOn, Waiting, ConnectGoesOn
<1> QED BY <1>1, InitConnInv, NextConnInv, PTL DEF Spec
-----------------------------------------------------------------------------
(***************************************************************************)
(* An application that only checks in, and only while the client is        *)
(* disconnected.                                                           *)
(***************************************************************************)
\* The phases of checkIn.
AtRest(x) ==
  /\ x.auth.step \in {"none", "failed"} /\ x.status = "Disconnected" /\ x.connectOp = "null"
  /\ x.initial = None /\ x.main = None /\ x.sync = None /\ x.queued = "no" /\ x.posted = <<>>

Trying(x) ==
  /\ x.auth.step = "afterConnect" /\ x.connectOp = "running"
  /\ x.status \in {"WaitForConnection", "Connecting"}
  /\ x.main = None /\ x.sync = None
  /\ x.queued # "no" => x.initial = None \/ x.conn[x.initial] = "Disconnected"
  /\ x.posted \in {<<>>, <<"connect">>, <<"config">>}
  /\ x.queued = "posted" <=> x.posted = <<"connect">>

Asking(x) ==
  /\ x.auth.step = "updateStatus" /\ x.status = "WaitForAuthentication"
  /\ x.connectOp = "succeeded"
  /\ x.initial # None /\ x.conn[x.initial] = "HasDhKey" /\ x.auth.on = x.initial
  /\ x.main = None /\ x.sync = None /\ x.queued = "no" /\ x.posted = <<>>

SignedIn(x) ==
  /\ x.auth.step = "succeeded" /\ x.status \in {"Connected", "Ready"} /\ x.connectOp = "null"
  /\ x.initial = None /\ x.main # None /\ x.conn[x.main] = "Signed"
  /\ x.sync \in {None, x.main} /\ x.queued = "no" /\ x.posted \in {<<>>, <<"sync">>}

\* No connection but the initial one is still on its way to a key.
Known(x) ==
  /\ x \in Client /\ x.auth.kind = "checkIn" /\ ~x.crashed
  /\ \A c \in Conns : x.conn[c] \in {"Connecting", "Connected"} => c = x.initial
  /\ x.auth.step # "updateStatus" => x.auth.on = None

Phase(x) == Known(x) /\ (AtRest(x) \/ Trying(x) \/ Asking(x) \/ SignedIn(x))

\* What the phases are about is the same.
Alike(x, y) ==
  /\ x.status = y.status /\ x.conn = y.conn /\ x.initial = y.initial /\ x.main = y.main
  /\ x.queued = y.queued /\ x.connectOp = y.connectOp /\ x.auth = y.auth /\ x.sync = y.sync
  /\ x.posted = y.posted /\ x.crashed = y.crashed

\* The phase does not depend on the rest of the state.
LEMMA AlikePhase ==
  ASSUME NEW x, NEW y \in Client, Alike(x, y)
  PROVE  /\ AtRest(x) <=> AtRest(y)
         /\ Trying(x) <=> Trying(y)
         /\ Asking(x) <=> Asking(y)
         /\ SignedIn(x) <=> SignedIn(y)
         /\ Known(x) => Known(y)
<1>1. AtRest(x) <=> AtRest(y)
  BY DEF Alike, AtRest
<1>2. Trying(x) <=> Trying(y)
  BY DEF Alike, Trying
<1>3. Asking(x) <=> Asking(y)
  BY DEF Alike, Asking
<1>4. SignedIn(x) <=> SignedIn(y)
  BY DEF Alike, SignedIn
<1>5. Known(x) => Known(y)
  BY DEF Alike, Known
<1> QED BY <1>1, <1>2, <1>3, <1>4, <1>5

\* checkIn fails: the client is disconnected and nothing is left behind.
LEMMA FailedRests ==
  ASSUME NEW x \in Client, x.auth.kind = "checkIn", ~x.crashed,
         x.sync = None, x.queued = "no", x.posted = <<>>,
         \A c \in Conns : x.conn[c] \in {"Connecting", "Connected"} => c = x.initial,
         x.initial # None => x.conn[x.initial] \notin {"Connecting", "Connected"}
  PROVE  /\ FinishAuthFailed(x) \in Client /\ Known(FinishAuthFailed(x)) /\ AtRest(FinishAuthFailed(x))
         /\ FinishAuthFailed(x).conn = x.conn
<1> DEFINE y == FinishAuthFailed(x)
<1>1. y \in Client
  BY FinishAuthFailedFacts
<1>2. /\ y.status = "Disconnected" /\ y.initial = None /\ y.main = None /\ y.connectOp = "null"
      /\ y.conn = x.conn /\ y.sync = x.sync /\ y.queued = x.queued /\ y.posted = x.posted
      /\ y.crashed = x.crashed
  BY DEF FinishAuthFailed, DisconnectFromServer, Client
<1>3. y.auth.step = "failed" /\ y.auth.kind = "checkIn" /\ y.auth.on = None
  BY DEF FinishAuthFailed, DisconnectFromServer, Client, Auth
<1> HIDE DEF y
<1>4. \A c \in Conns : x.conn[c] \notin {"Connecting", "Connected"}
  BY ConnectionAssumption DEF None
<1>5. Known(y)
  BY <1>1, <1>2, <1>3, <1>4 DEF Known
<1>6. AtRest(y)
  BY <1>2, <1>3 DEF AtRest
<1> QED BY <1>1, <1>2, <1>5, <1>6 DEF y

\* The connect operation has succeeded: the stored session is checked.
LEMMA CheckAsks ==
  ASSUME NEW x \in Client, x.auth.kind = "checkIn", ~x.crashed,
         x.sync = None, x.main = None, x.queued = "no", x.posted = <<>>,
         x.connectOp = "succeeded", x.status = "WaitForAuthentication",
         \A c \in Conns : x.conn[c] \in {"Connecting", "Connected"} => c = x.initial,
         x.initial # None, x.conn[x.initial] = "HasDhKey"
  PROVE  LET y == StartAuth(x)
         IN  Known(y) /\ (AtRest(y) \/ (Asking(y) /\ y.initial = x.initial)) /\ y.conn = x.conn
<1>1. CASE ~x.stored
  <2>1. StartAuth(x) = FinishAuthFailed(x)
    BY <1>1 DEF StartAuth, CheckAuthorization
  <2> QED BY <2>1, FailedRests
<1>2. CASE x.stored
  <2> DEFINE y == SendAuthRpc(x, "updateStatus")
  <2>1. StartAuth(x) = y
    BY <1>2 DEF StartAuth, CheckAuthorization
  <2>2. y \in Client
    BY SendAuthRpcFacts DEF Rpcs
  <2>3. /\ y.status = x.status /\ y.conn = x.conn /\ y.initial = x.initial /\ y.main = x.main
        /\ y.queued = x.queued /\ y.connectOp = x.connectOp /\ y.sync = x.sync
        /\ y.posted = x.posted /\ y.crashed = x.crashed
    BY DEF SendAuthRpc, Client
  <2>4. y.auth.step = "updateStatus" /\ y.auth.kind = "checkIn" /\ y.auth.on = x.initial
    BY DEF SendAuthRpc, Client, Auth, Default
  <2> HIDE DEF y
  <2>5. Known(y)
    BY <2>2, <2>3, <2>4 DEF Known
  <2>6. Asking(y)
    BY <2>3, <2>4 DEF Asking
  <2> QED BY <2>1, <2>3, <2>5, <2>6
<1> QED BY <1>1, <1>2 DEF Client

\* The configuration comes when no connection waits for it.
LEMMA ConfigIgnored ==
  ASSUME NEW x, x.initial = None \/ x.conn[x.initial] # "HasDhKey"
  PROVE  OnGotDcConfig(x) = x
BY DEF OnGotDcConfig

\* The configuration comes, in any phase.
LEMMA ConfigKeepsPhase ==
  ASSUME NEW x, Phase(x), x.posted = <<>>
  PROVE  LET y == OnGotDcConfig(x)
         IN  /\ Phase(y) /\ y.conn = x.conn
             /\ y.initial \in {x.initial, None}
             /\ AtRest(x) \/ SignedIn(x) => y = x
             /\ Trying(x) \/ Asking(x) => ~SignedIn(y)
<1>0. x \in Client /\ Known(x)
  BY DEF Phase, Known
<1>1. CASE x.initial = None \/ x.conn[x.initial] # "HasDhKey"
  BY <1>1, ConfigIgnored DEF Trying, Asking, SignedIn
<1>2. CASE x.initial # None /\ x.conn[x.initial] = "HasDhKey"
  <2> DEFINE w == SetStatus(x, "WaitForAuthentication")
             z == [w EXCEPT !.connectOp = "succeeded"]
  <2>1. Trying(x) \/ Asking(x)
    BY <1>2 DEF Phase, AtRest, SignedIn
  <2>2. OnGotDcConfig(x) = ConnectOpSucceeded(w)
    BY <1>2, <2>1 DEF OnGotDcConfig, Trying, Asking
  <2>3. /\ w \in Client /\ w.status = "WaitForAuthentication"
        /\ w.conn = x.conn /\ w.initial = x.initial /\ w.main = x.main
        /\ w.queued = x.queued /\ w.connectOp = x.connectOp /\ w.auth = x.auth
        /\ w.sync = x.sync /\ w.posted = x.posted /\ w.crashed = x.crashed
    BY <1>0, SetStatusFacts DEF Client, SetStatus, Statuses
  <2>4. CASE Asking(x)
    <3>1. ConnectOpSucceeded(w) = w
      BY <2>3, <2>4 DEF ConnectOpSucceeded, Asking
    <3>2. Alike(x, w)
      BY <2>3, <2>4 DEF Asking, Alike
    <3>3. Asking(w) /\ Known(w)
      BY <1>0, <2>3, <2>4, <3>2, AlikePhase
    <3>4. ~SignedIn(w) /\ ~AtRest(x) /\ ~SignedIn(x)
      BY <2>4, <3>3 DEF Asking, SignedIn, AtRest
    <3> HIDE DEF w
    <3> QED BY <2>2, <2>3, <3>1, <3>3, <3>4 DEF Phase
  <2>5. CASE Trying(x)
    <3>1. ConnectOpSucceeded(w) = StartAuth(z)
      BY <2>3, <2>5 DEF ConnectOpSucceeded, Trying
    <3> HIDE DEF w
    <3>2. /\ z \in Client /\ z.status = w.status
          /\ z.conn = w.conn /\ z.initial = w.initial /\ z.main = w.main
          /\ z.queued = w.queued /\ z.connectOp = "succeeded" /\ z.auth = w.auth
          /\ z.sync = w.sync /\ z.posted = w.posted /\ z.crashed = w.crashed
      BY <2>3 DEF Client, OpStates
    <3> HIDE DEF z
    <3>3. z.sync = None /\ z.main = None /\ z.queued = "no" /\ z.posted = <<>>
      BY <1>2, <2>3, <2>5, <3>2 DEF Trying
    <3>4. z.auth.kind = "checkIn" /\ ~z.crashed
      BY <1>0, <2>3, <3>2 DEF Known
    <3>5. \A c \in Conns : z.conn[c] \in {"Connecting", "Connected"} => c = z.initial
      BY <1>0, <2>3, <3>2 DEF Known
    <3>6. LET y == StartAuth(z)
          IN  Known(y) /\ (AtRest(y) \/ (Asking(y) /\ y.initial = z.initial)) /\ y.conn = z.conn
      BY <1>2, <2>3, <3>2, <3>3, <3>4, <3>5, CheckAsks
    <3>7. StartAuth(z).initial \in {z.initial, None}
      BY <3>6 DEF AtRest
    <3>8. ~SignedIn(StartAuth(z)) /\ ~AtRest(x) /\ ~SignedIn(x)
      BY <2>5, <3>6 DEF Asking, SignedIn, AtRest, Trying
    <3> QED BY <2>2, <2>3, <3>1, <3>2, <3>6, <3>7, <3>8 DEF Phase
  <2> QED BY <2>1, <2>4, <2>5
<1> QED BY <1>1, <1>2

\* What queueConnectToNextServer changes.
LEMMA QueueFields ==
  ASSUME NEW x \in Client, x.queued = "no", x.posted = <<>>, x.main = None
  PROVE  LET y == QueueConnectToNextServer(x)
         IN  /\ y \in Client /\ y.status = "WaitForConnection"
             /\ y.conn = x.conn /\ y.initial = x.initial /\ y.main = x.main
             /\ y.connectOp = x.connectOp /\ y.auth = x.auth /\ y.sync = x.sync
             /\ y.crashed = x.crashed
             /\ \/ y.queued = "posted" /\ y.posted = <<"connect">>
                \/ y.queued = "timer" /\ y.posted = <<>>
<1> DEFINE a == IF x.attempt < Len(Intervals) THEN x.attempt + 1 ELSE x.attempt
           w == [x EXCEPT !.attempt = a, !.status = "WaitForConnection"]
           p == [w EXCEPT !.queued = "posted"]
           q == [w EXCEPT !.queued = "timer"]
<1>1. Sound(x)
  BY DEF Sound
<1>2. QueueConnectToNextServer(x) \in Client
  BY <1>1, QueueFacts DEF Sound
<1>3. QueueConnectToNextServer(x) \in {Post(p, "connect"), q}
  BY DEF QueueConnectToNextServer, SetStatus
<1> HIDE DEF a
<1>4. /\ w.status = "WaitForConnection"
      /\ w.conn = x.conn /\ w.initial = x.initial /\ w.main = x.main
      /\ w.connectOp = x.connectOp /\ w.auth = x.auth /\ w.sync = x.sync
      /\ w.crashed = x.crashed /\ w.posted = <<>>
      /\ DOMAIN w = DOMAIN x
  BY DEF Client
<1>5. /\ Post(p, "connect").status = w.status
      /\ Post(p, "connect").conn = w.conn /\ Post(p, "connect").initial = w.initial
      /\ Post(p, "connect").main = w.main
      /\ Post(p, "connect").connectOp = w.connectOp /\ Post(p, "connect").auth = w.auth
      /\ Post(p, "connect").sync = w.sync /\ Post(p, "connect").crashed = w.crashed
      /\ Post(p, "connect").queued = "posted"
      /\ Post(p, "connect").posted = Append(w.posted, "connect")
  BY DEF Client, Post
<1>6. /\ q.status = w.status
      /\ q.conn = w.conn /\ q.initial = w.initial /\ q.main = w.main
      /\ q.connectOp = w.connectOp /\ q.auth = w.auth /\ q.sync = w.sync
      /\ q.crashed = w.crashed /\ q.queued = "timer" /\ q.posted = w.posted
  BY DEF Client
<1>7. Append(<<>>, "connect") = <<"connect">>
  OBVIOUS
<1> HIDE DEF w, p, q
<1> QED BY <1>2, <1>3, <1>4, <1>5, <1>6, <1>7

\* checkIn of a client at rest, or of one whose main connection was lost.
LEMMA CheckInTries ==
  ASSUME NEW x \in Client, ~x.crashed, AuthFinished(x), x.stored, x.main = None,
         x.initial = None, x.connectOp = "null", x.sync = None, x.queued = "no",
         x.posted = <<>>, \A c \in Conns : x.conn[c] \notin {"Connecting", "Connected"}
  PROVE  Known(CheckIn(x)) /\ Trying(CheckIn(x))
<1> DEFINE y == NewAuth(x, "checkIn", FALSE)
           w == [y EXCEPT !.connectOp = "running", !.attempt = 0]
           z == QueueConnectToNextServer(w)
           r == [z EXCEPT !.auth.step = "afterConnect"]
<1>1. /\ y \in Client /\ y.main = None /\ y.initial = None /\ y.connectOp = "null"
      /\ y.sync = None /\ y.queued = "no" /\ y.posted = <<>> /\ y.conn = x.conn
      /\ ~y.crashed
  <2>1. y \in Client
    BY NewAuthFacts
  <2> QED BY <2>1 DEF NewAuth, Client
<1>2. y.auth = [kind |-> "checkIn", step |-> "none", phone |-> FALSE, on |-> None, sent |-> FALSE]
  BY DEF NewAuth, Client
<1>3. CheckIn(x) = RunAfterConnect(ConnectToServer(y))
  BY DEF CheckIn
<1> HIDE DEF y
<1>4. ConnectToServer(y) = z
  BY <1>1 DEF ConnectToServer
<1>5. 0 \in 0..Len(Intervals)
  BY ConnectionAssumption
<1>6. /\ w \in Client /\ w.main = None /\ w.initial = None /\ w.connectOp = "running"
      /\ w.sync = None /\ w.queued = "no" /\ w.posted = <<>> /\ w.conn = x.conn
      /\ ~w.crashed /\ w.auth = y.auth
  BY <1>1, <1>5 DEF Client, OpStates
<1> HIDE DEF w
<1>7. /\ z \in Client /\ z.status = "WaitForConnection"
      /\ z.conn = x.conn /\ z.initial = None /\ z.main = None
      /\ z.connectOp = "running" /\ z.auth = y.auth /\ z.sync = None
      /\ ~z.crashed
      /\ \/ z.queued = "posted" /\ z.posted = <<"connect">>
         \/ z.queued = "timer" /\ z.posted = <<>>
  BY <1>6, QueueFields
<1> HIDE DEF z
<1>8. RunAfterConnect(z) = r
  BY <1>7 DEF RunAfterConnect
<1>9. r \in Client
  BY <1>7, SetStepFacts DEF AuthSteps
<1>10. /\ r.status = "WaitForConnection"
       /\ r.conn = x.conn /\ r.initial = None /\ r.main = None
       /\ r.connectOp = "running" /\ r.sync = None /\ ~r.crashed
       /\ r.queued = z.queued /\ r.posted = z.posted
       /\ r.auth.step = "afterConnect" /\ r.auth.kind = "checkIn" /\ r.auth.on = None
  BY <1>2, <1>7 DEF Client
<1> HIDE DEF r
<1>11. <<>> # <<"connect">>
  OBVIOUS
<1>12. Trying(r)
  BY <1>7, <1>10, <1>11 DEF Trying
<1>13. Known(r)
  BY <1>9, <1>10 DEF Known
<1> QED BY <1>3, <1>4, <1>8, <1>12, <1>13

\* The RPCs of a connection fail: first the one for the configuration, then the
\* one of the auth operation.
LEMMA LostForm ==
  ASSUME NEW x \in Client, NEW c \in Conns
  PROVE  \E u \in Client :
           /\ Alike([x EXCEPT !.sync = IF x.sync = c THEN None ELSE x.sync], u)
           /\ RpcLost(x, c) \in {AuthRpcLost(u, c), AuthRpcLost(OnGotDcConfig(u), c)}
<1> DEFINE n == IF x.sync = c THEN None ELSE x.sync
           y == [x EXCEPT !.sync = n]
           u == [y EXCEPT !.config = [op |-> "failed", on |-> None]]
<1>1. n \in Conns \cup {None}
  BY DEF Client
<1>2. RpcLost(x, c) \in {AuthRpcLost(y, c), AuthRpcLost(OnGotDcConfig(u), c)}
  BY DEF RpcLost, ConfigFinished
<1>3. y = [x EXCEPT !.sync = IF x.sync = c THEN None ELSE x.sync]
  OBVIOUS
<1> HIDE DEF n
<1>4. y \in Client
  BY <1>1 DEF Client
<1> HIDE DEF y
<1>5. u \in Client /\ Alike(y, u)
  <2>1. u \in Client
    BY <1>4 DEF Client, OpStates
  <2>2. Alike(y, u)
    BY <1>4 DEF Client, Alike
  <2> QED BY <2>1, <2>2
<1>6. Alike(y, y)
  BY DEF Alike
<1> HIDE DEF u
<1> QED BY <1>2, <1>3, <1>4, <1>5, <1>6

\* The main connection is lost: the client checks in again.
LEMMA MainLostTries ==
  ASSUME NEW x, Known(x), SignedIn(x), x.posted = <<>>
  PROVE  Phase(SetConnStatus(x, x.main, "Disconnected"))
<1> DEFINE c == x.main
           n == IF x.sync = c THEN None ELSE x.sync
           f == [x.conn EXCEPT ![c] = "Disconnected"]
           y == [x EXCEPT !.conn = f]
           v == [y EXCEPT !.sync = IF y.sync = c THEN None ELSE y.sync]
<1>0. x \in Client /\ c \in Conns /\ c # None /\ x.conn[c] = "Signed"
  BY DEF Known, SignedIn, Client
<1>1. SetConnStatus(x, c, "Disconnected") = OnConnectionStatusChanged(RpcLost(y, c), c)
  BY <1>0 DEF SetConnStatus
<1>2. /\ f \in [Conns -> ConnStatuses] /\ f[c] = "Disconnected"
      /\ \A d \in Conns : f[d] \notin {"Connecting", "Connected"}
  BY <1>0, ConnectionAssumption DEF Known, SignedIn, Client, ConnStatuses, None
<1> HIDE DEF f, c
<1>3. /\ y \in Client /\ y.conn = f /\ y.status = x.status /\ y.initial = None /\ y.main = c
      /\ y.queued = "no" /\ y.connectOp = "null" /\ y.auth = x.auth
      /\ y.sync \in {None, c} /\ y.posted = <<>> /\ ~y.crashed
  BY <1>0, <1>2 DEF Client, SignedIn, Known, c
<1> HIDE DEF y
<1>4. /\ v.conn = f /\ v.status = x.status /\ v.initial = None /\ v.main = c
      /\ v.queued = "no" /\ v.connectOp = "null" /\ v.auth = x.auth
      /\ v.sync = None /\ v.posted = <<>> /\ ~v.crashed
  BY <1>0, <1>3 DEF Client
<1>5. PICK u \in Client : /\ Alike(v, u)
                          /\ RpcLost(y, c) \in {AuthRpcLost(u, c), AuthRpcLost(OnGotDcConfig(u), c)}
  BY <1>0, <1>3, LostForm
<1> HIDE DEF v
<1>6. /\ u.conn = f /\ u.status = x.status /\ u.initial = None /\ u.main = c
      /\ u.queued = "no" /\ u.connectOp = "null" /\ u.auth = x.auth
      /\ u.sync = None /\ u.posted = <<>> /\ ~u.crashed
  BY <1>4, <1>5 DEF Alike
<1>7. OnGotDcConfig(u) = u
  BY <1>6, ConfigIgnored
<1>8. AuthRpcLost(u, c) = u
  BY <1>6 DEF AuthRpcLost, SignedIn, Rpcs
<1>9. OnConnectionStatusChanged(u, c) = OnMainConnectionLost(u)
  BY <1>0, <1>2, <1>6 DEF OnConnectionStatusChanged, OnMainConnectionStatusChanged, SignedIn
<1> DEFINE g == Forget(u, c)
           h == [g EXCEPT !.main = None, !.stored = TRUE]
           w == SetStatus(h, "Connecting")
<1>10. OnMainConnectionLost(u) = CheckIn(w)
  BY <1>6 DEF OnMainConnectionLost
<1>11. /\ g \in Client /\ g.initial = None /\ g.conn = [f EXCEPT ![c] = "free"]
       /\ g.queued = "no" /\ g.connectOp = "null" /\ g.posted = <<>>
  BY <1>0, <1>6, ForgetFacts
<1>12. g.sync = None /\ g.auth.step = "succeeded" /\ ~g.crashed
  BY <1>0, <1>6, ConnectionAssumption DEF Forget, Client, SignedIn, Auth
<1> HIDE DEF g
<1>13. /\ h \in Client /\ h.initial = None /\ h.conn = g.conn /\ h.main = None /\ h.stored
       /\ h.queued = "no" /\ h.connectOp = "null" /\ h.posted = <<>>
       /\ h.sync = None /\ h.auth = g.auth /\ ~h.crashed
  BY <1>11, <1>12 DEF Client
<1> HIDE DEF h
<1>14. /\ w \in Client /\ w.initial = None /\ w.conn = g.conn /\ w.main = None /\ w.stored
       /\ w.queued = "no" /\ w.connectOp = "null" /\ w.posted = <<>>
       /\ w.sync = None /\ w.auth = g.auth /\ ~w.crashed
  BY <1>13 DEF Client, SetStatus, Statuses
<1>15. AuthFinished(w)
  BY <1>12, <1>14 DEF AuthFinished
<1> HIDE DEF w
<1>16. \A d \in Conns : w.conn[d] \notin {"Connecting", "Connected"}
  BY <1>0, <1>2, <1>11, <1>14
<1>17. Known(CheckIn(w)) /\ Trying(CheckIn(w))
  BY <1>14, <1>15, <1>16, CheckInTries
<1> QED BY <1>1, <1>5, <1>7, <1>8, <1>9, <1>10, <1>17 DEF Phase, c

\* The initial connection is lost on the way: the next attempt is queued.
LEMMA InitialLostTries ==
  ASSUME NEW x, Known(x), Trying(x), x.posted = <<>>, x.initial # None,
         x.conn[x.initial] \in Live
  PROVE  Phase(SetConnStatus(x, x.initial, "Disconnected"))
<1> DEFINE c == x.initial
           f == [x.conn EXCEPT ![c] = "Disconnected"]
           y == [x EXCEPT !.conn = f]
           v == [y EXCEPT !.sync = IF y.sync = c THEN None ELSE y.sync]
<1>0. x \in Client /\ c \in Conns /\ c # None
  BY DEF Known, Client
<1>1. SetConnStatus(x, c, "Disconnected")
        \in {OnConnectionStatusChanged(RpcLost(y, c), c), OnConnectionStatusChanged(y, c)}
  BY <1>0 DEF SetConnStatus
<1>2. /\ f \in [Conns -> ConnStatuses] /\ f[c] = "Disconnected"
      /\ \A d \in Conns : f[d] \notin {"Connecting", "Connected"}
  BY <1>0 DEF Known, Client, ConnStatuses
<1>3. x.queued = "no"
  BY DEF Trying, Live
<1> HIDE DEF f, c
<1>4. /\ y \in Client /\ y.conn = f /\ y.initial = c /\ y.main = None
      /\ y.queued = "no" /\ y.connectOp = "running" /\ y.auth = x.auth
      /\ y.sync = None /\ y.posted = <<>> /\ ~y.crashed
  BY <1>0, <1>2, <1>3 DEF Client, Trying, Known, c
<1> HIDE DEF y
<1>5. /\ v.conn = f /\ v.initial = c /\ v.main = None
      /\ v.queued = "no" /\ v.connectOp = "running" /\ v.auth = x.auth
      /\ v.sync = None /\ v.posted = <<>> /\ ~v.crashed
  BY <1>0, <1>4 DEF Client
<1>6. PICK u \in Client : /\ Alike(v, u)
                          /\ RpcLost(y, c) \in {AuthRpcLost(u, c), AuthRpcLost(OnGotDcConfig(u), c)}
  BY <1>0, <1>4, LostForm
<1> HIDE DEF v
<1>7. /\ u.conn = f /\ u.initial = c /\ u.main = None
      /\ u.queued = "no" /\ u.connectOp = "running" /\ u.auth = x.auth
      /\ u.sync = None /\ u.posted = <<>> /\ ~u.crashed
  BY <1>5, <1>6 DEF Alike
<1>8. OnGotDcConfig(u) = u
  BY <1>0, <1>2, <1>7, ConfigIgnored
<1>9. AuthRpcLost(u, c) = u
  BY <1>7 DEF AuthRpcLost, Trying, Rpcs
<1>10. \A k : k.initial = c /\ k.conn = f => OnConnectionStatusChanged(k, c) = QueueConnectToNextServer(k)
  BY <1>2 DEF OnConnectionStatusChanged, OnInitialConnectionStatusChanged
<1>11. ASSUME NEW k \in Client, k.conn = f, k.initial = c, k.main = None,
              k.queued = "no", k.connectOp = "running", k.auth = x.auth,
              k.sync = None, k.posted = <<>>, ~k.crashed
       PROVE  Phase(QueueConnectToNextServer(k))
  <2> DEFINE q == QueueConnectToNextServer(k)
  <2>1. /\ q \in Client /\ q.status = "WaitForConnection"
        /\ q.conn = f /\ q.initial = c /\ q.main = None
        /\ q.connectOp = "running" /\ q.auth = x.auth /\ q.sync = None
        /\ ~q.crashed
        /\ \/ q.queued = "posted" /\ q.posted = <<"connect">>
           \/ q.queued = "timer" /\ q.posted = <<>>
    BY <1>11, QueueFields
  <2> HIDE DEF q
  <2>2. <<>> # <<"connect">>
    OBVIOUS
  <2>3. Trying(q)
    BY <1>2, <2>1, <2>2 DEF Trying
  <2>4. Known(q)
    BY <1>2, <2>1 DEF Known
  <2> QED BY <2>3, <2>4 DEF Phase, q
<1>12. Phase(QueueConnectToNextServer(y)) /\ Phase(QueueConnectToNextServer(u))
  BY <1>4, <1>7, <1>11
<1> QED BY <1>1, <1>4, <1>6, <1>7, <1>8, <1>9, <1>10, <1>12 DEF c

\* The initial connection is lost while the session is checked: checkIn fails.
LEMMA AskingLostRests ==
  ASSUME NEW x, Known(x), Asking(x), NEW status \in {"Disconnected", "Failed"}
  PROVE  Phase(SetConnStatus(x, x.initial, status))
<1> DEFINE c == x.initial
           f == [x.conn EXCEPT ![c] = status]
           y == [x EXCEPT !.conn = f]
           v == [y EXCEPT !.sync = IF y.sync = c THEN None ELSE y.sync]
<1>0. x \in Client /\ c \in Conns /\ c # None
  BY DEF Known, Client, Asking
<1>1. SetConnStatus(x, c, status) = OnConnectionStatusChanged(RpcLost(y, c), c)
  BY <1>0 DEF SetConnStatus, Asking
<1>2. /\ f \in [Conns -> ConnStatuses] /\ f[c] = status
      /\ \A d \in Conns : f[d] \notin {"Connecting", "Connected"}
  BY <1>0 DEF Known, Client, ConnStatuses
<1> HIDE DEF f, c
<1>4. /\ y \in Client /\ y.conn = f /\ y.initial = c /\ y.main = None
      /\ y.queued = "no" /\ y.auth = x.auth
      /\ y.sync = None /\ y.posted = <<>> /\ ~y.crashed
  BY <1>0, <1>2 DEF Client, Asking, Known, c
<1> HIDE DEF y
<1>5. /\ v.conn = f /\ v.initial = c /\ v.main = None
      /\ v.queued = "no" /\ v.auth = x.auth
      /\ v.sync = None /\ v.posted = <<>> /\ ~v.crashed
  BY <1>0, <1>4 DEF Client
<1>6. PICK u \in Client : /\ Alike(v, u)
                          /\ RpcLost(y, c) \in {AuthRpcLost(u, c), AuthRpcLost(OnGotDcConfig(u), c)}
  BY <1>0, <1>4, LostForm
<1> HIDE DEF v
<1>7. /\ u.conn = f /\ u.initial = c /\ u.main = None
      /\ u.queued = "no" /\ u.auth = x.auth
      /\ u.sync = None /\ u.posted = <<>> /\ ~u.crashed
  BY <1>5, <1>6 DEF Alike
<1>8. OnGotDcConfig(u) = u
  BY <1>0, <1>2, <1>7, ConfigIgnored
<1>9. AuthRpcLost(u, c) = FinishAuthFailed(u)
  BY <1>7 DEF AuthRpcLost, Asking, Known, Rpcs, c
<1> DEFINE w == FinishAuthFailed(u)
<1>10. u.auth.kind = "checkIn"
  BY <1>7 DEF Known
<1>11. Known(w) /\ AtRest(w) /\ w.conn = f
  BY <1>0, <1>2, <1>7, <1>10, FailedRests
<1> HIDE DEF w
<1>12. OnConnectionStatusChanged(w, c) = w
  BY <1>0, <1>2, <1>11 DEF AtRest, OnConnectionStatusChanged, OnOrphanStatusChanged
<1> QED BY <1>1, <1>6, <1>8, <1>9, <1>11, <1>12 DEF Phase, c, w

\* A connection nobody refers to is lost.
LEMMA OrphanLostKeeps ==
  ASSUME NEW x, Phase(x), x.posted = <<>>, NEW c \in Conns, c # x.initial, c # x.main,
         NEW status \in {"Disconnected", "Failed"}
  PROVE  Phase(SetConnStatus(x, c, status))
<1> DEFINE f == [x.conn EXCEPT ![c] = status]
           y == [x EXCEPT !.conn = f]
           n == IF y.sync = c THEN None ELSE y.sync
           v == [y EXCEPT !.sync = n]
<1>0. x \in Client /\ Known(x) /\ c # None
  BY ConnectionAssumption DEF Phase, Known, None
<1>1. SetConnStatus(x, c, status)
        \in {OnConnectionStatusChanged(RpcLost(y, c), c), OnConnectionStatusChanged(y, c)}
  BY DEF SetConnStatus
<1>2. /\ f \in [Conns -> ConnStatuses] /\ f[c] = status
      /\ \A d \in Conns : d # c => f[d] = x.conn[d]
  BY <1>0 DEF Client, ConnStatuses
<1> HIDE DEF f
<1>3. /\ y \in Client /\ y.conn = f /\ y.initial = x.initial /\ y.main = x.main
      /\ y.status = x.status /\ y.connectOp = x.connectOp
      /\ y.queued = x.queued /\ y.auth = x.auth
      /\ y.sync = x.sync /\ y.posted = <<>> /\ y.crashed = x.crashed
  BY <1>0, <1>2 DEF Client
<1> HIDE DEF y
<1>4. x.initial \in Conns \cup {None} /\ x.main \in Conns \cup {None}
  BY <1>0 DEF Client
<1>5. Known(y)
  BY <1>0, <1>2, <1>3 DEF Known
<1>6. Phase(y)
  <2>1. AtRest(x) => AtRest(y)
    BY <1>3 DEF AtRest
  <2>2. Trying(x) => Trying(y)
    BY <1>2, <1>3, <1>4 DEF Trying
  <2>3. Asking(x) => Asking(y)
    BY <1>2, <1>3, <1>4 DEF Asking
  <2>4. SignedIn(x) => SignedIn(y)
    BY <1>2, <1>3, <1>4 DEF SignedIn
  <2> QED BY <1>5, <2>1, <2>2, <2>3, <2>4 DEF Phase
<1>7. n = y.sync
  BY <1>0, <1>3, <1>6 DEF Phase, AtRest, Trying, Asking, SignedIn
<1>8. PICK u \in Client : /\ Alike(v, u)
                          /\ RpcLost(y, c) \in {AuthRpcLost(u, c), AuthRpcLost(OnGotDcConfig(u), c)}
  BY <1>3, LostForm
<1> HIDE DEF n
<1>9. Alike(y, u)
  BY <1>3, <1>7, <1>8 DEF Alike, Client
<1>10. Phase(u) /\ u.posted = <<>> /\ u.conn = f /\ u.initial = x.initial /\ u.main = x.main
  BY <1>3, <1>6, <1>9, AlikePhase DEF Phase, Alike
<1> DEFINE k == OnGotDcConfig(u)
<1>11. Phase(k) /\ k.conn = f /\ k.initial # c
  BY <1>0, <1>10, ConfigKeepsPhase
<1>12. k.main # c
  <2>1. AtRest(u) \/ SignedIn(u) => k = u
    BY <1>10, ConfigKeepsPhase
  <2>2. Trying(u) \/ Asking(u) => ~SignedIn(k)
    BY <1>10, ConfigKeepsPhase
  <2> HIDE DEF k
  <2> QED BY <1>0, <1>10, <1>11, <2>1, <2>2 DEF Phase, AtRest, Trying, Asking
<1> HIDE DEF k
<1>13. ASSUME NEW w, Phase(w), w.conn = f, w.initial # c, w.main # c
       PROVE  AuthRpcLost(w, c) = w /\ OnConnectionStatusChanged(w, c) = w
  <2>1. w.auth.step \notin Rpcs \/ w.auth.on # c
    BY <1>13 DEF Phase, AtRest, Trying, Asking, SignedIn, Rpcs
  <2>2. AuthRpcLost(w, c) = w
    BY <2>1 DEF AuthRpcLost
  <2>3. OnConnectionStatusChanged(w, c) = w
    BY <1>2, <1>13 DEF OnConnectionStatusChanged, OnOrphanStatusChanged
  <2> QED BY <2>2, <2>3
<1>14. OnConnectionStatusChanged(y, c) = y
  BY <1>3, <1>6, <1>13
<1>15. AuthRpcLost(u, c) = u /\ OnConnectionStatusChanged(u, c) = u
  BY <1>10, <1>13
<1>16. AuthRpcLost(k, c) = k /\ OnConnectionStatusChanged(k, c) = k
  BY <1>11, <1>12, <1>13
<1> QED BY <1>1, <1>6, <1>8, <1>10, <1>11, <1>14, <1>15, <1>16 DEF k

\* A transport is closed, in any phase.
LEMMA ClosedKeepsPhase ==
  ASSUME NEW x, Phase(x), x.posted = <<>>, NEW c \in Conns, x.conn[c] \in Live
  PROVE  Phase(SetConnStatus(x, c, "Disconnected"))
<1>0. c # None /\ Known(x)
  BY ConnectionAssumption DEF None, Phase
<1>1. CASE c = x.main
  <2>1. SignedIn(x)
    BY <1>0, <1>1 DEF Phase, AtRest, Trying, Asking
  <2> QED BY <1>0, <1>1, <2>1, MainLostTries
<1>2. CASE c = x.initial /\ Trying(x)
  BY <1>0, <1>2, InitialLostTries
<1>3. CASE c = x.initial /\ Asking(x)
  BY <1>0, <1>3, AskingLostRests
<1>4. CASE c # x.main /\ c # x.initial
  BY <1>4, OrphanLostKeeps
<1> QED BY <1>0, <1>1, <1>2, <1>3, <1>4 DEF Phase, AtRest, SignedIn

\* The server refuses the key of a connection, in any phase.
LEMMA RefusedKeepsPhase ==
  ASSUME NEW x, Phase(x), x.posted = <<>>, NEW c \in Conns, x.conn[c] = "HasDhKey"
  PROVE  Phase(SetConnStatus(OnConnectionError(x, c), c, "Failed"))
<1>0. c # None /\ Known(x) /\ x \in Client /\ c # x.main
  BY ConnectionAssumption DEF None, Phase, Known, SignedIn, AtRest, Trying, Asking
<1> DEFINE y == [x EXCEPT !.stored = FALSE]
<1>1. y \in Client /\ Alike(x, y)
  BY <1>0 DEF Client, Alike
<1>2. CASE c # x.initial
  <2>1. OnConnectionError(x, c) = x
    BY <1>0, <1>2 DEF OnConnectionError, Known
  <2> QED BY <1>0, <1>2, <2>1, OrphanLostKeeps
<1>3. CASE c = x.initial /\ Asking(x)
  <2>1. OnConnectionError(x, c) = y
    BY <1>0, <1>1, <1>3 DEF OnConnectionError, Known, Asking, Alike
  <2> HIDE DEF y
  <2>2. Known(y) /\ Asking(y) /\ y.initial = c
    BY <1>0, <1>1, <1>3, AlikePhase DEF Alike
  <2>3. Phase(SetConnStatus(y, y.initial, "Failed"))
    BY <2>2, AskingLostRests
  <2> QED BY <2>1, <2>2, <2>3
<1>4. CASE c = x.initial /\ Trying(x)
  <2> DEFINE z == [y EXCEPT !.connectOp = "failed"]
             w == FinishAuthFailed(z)
  <2>1. ConnectOpFailed(y) = w
    BY <1>1, <1>4 DEF ConnectOpFailed, Trying, Alike
  <2>2. y.conn = x.conn /\ y.auth = x.auth /\ y.queued = "no" /\ y.posted = <<>>
        /\ y.initial = c /\ y.sync = None /\ ~y.crashed
    BY <1>0, <1>1, <1>4 DEF Alike, Trying, Known
  <2>6. OnConnectionError(x, c) \in {ConnectOpFailed(y), FinishAuthFailed(ConnectOpFailed(y))}
        /\ (ConnectOpFailed(y).auth.kind = "checkIn" => OnConnectionError(x, c) = ConnectOpFailed(y))
    BY <1>4 DEF OnConnectionError, Trying
  <2> HIDE DEF y
  <2>3. z \in Client /\ z.conn = x.conn /\ z.auth = x.auth /\ z.queued = "no"
        /\ z.posted = <<>> /\ z.initial = c /\ z.sync = None /\ ~z.crashed
    BY <1>1, <2>2 DEF Client, OpStates
  <2> HIDE DEF z
  <2>4. z.auth.kind = "checkIn"
        /\ (\A d \in Conns : z.conn[d] \in {"Connecting", "Connected"} => d = z.initial)
    BY <1>0, <1>4, <2>3 DEF Known, Phase
  <2>5. Known(w) /\ AtRest(w)
    BY <1>4, <2>3, <2>4, FailedRests
  <2> HIDE DEF w
  <2>7. OnConnectionError(x, c) = w
    BY <2>1, <2>5, <2>6 DEF Known
  <2>8. Phase(w) /\ w.posted = <<>> /\ c # w.initial /\ c # w.main
    BY <1>0, <2>5 DEF Phase, AtRest
  <2> QED BY <2>7, <2>8, OrphanLostKeeps
<1> QED BY <1>0, <1>2, <1>3, <1>4 DEF Phase, AtRest, SignedIn

\* The initial connection gets on; nobody else has one that does.
LEMMA ProgressKeepsPhase ==
  ASSUME NEW x, Phase(x), x.posted = <<>>, NEW c \in Conns,
         x.conn[c] \in {"Connecting", "Connected"}, NEW status \in {"Connected", "HasDhKey"}
  PROVE  /\ Phase(SetConnStatus(x, c, status))
         /\ status = "Connected" => /\ SetConnStatus(x, c, status).posted = <<>>
                                    /\ SetConnStatus(x, c, status).conn[c] = "Connected"
<1>0. x \in Client /\ Known(x) /\ c = x.initial /\ c # None
  BY ConnectionAssumption DEF Phase, Known, None
<1>1. Trying(x) /\ x.queued = "no"
  BY <1>0 DEF Phase, AtRest, SignedIn, Asking, Trying
<1> DEFINE f == [x.conn EXCEPT ![c] = status]
           y == [x EXCEPT !.conn = f]
<1>2. f \in [Conns -> ConnStatuses] /\ f[c] = status /\ \A d \in Conns : d # c => f[d] = x.conn[d]
  BY <1>0 DEF Client, ConnStatuses
<1>3. SetConnStatus(x, c, status) = OnConnectionStatusChanged(y, c)
  BY DEF SetConnStatus
<1> HIDE DEF f
<1>4. /\ y \in Client /\ y.conn = f /\ y.initial = x.initial /\ y.main = x.main
      /\ y.status = x.status /\ y.connectOp = x.connectOp
      /\ y.queued = x.queued /\ y.auth = x.auth
      /\ y.sync = x.sync /\ y.posted = <<>> /\ y.crashed = x.crashed
  BY <1>0, <1>2 DEF Client
<1> HIDE DEF y
<1>5. Known(y)
  BY <1>0, <1>2, <1>4 DEF Known
<1>6. Trying(y)
  BY <1>1, <1>4 DEF Trying
<1>7. CASE status = "Connected"
  <2>1. OnConnectionStatusChanged(y, c) = y
    BY <1>0, <1>2, <1>4, <1>7 DEF OnConnectionStatusChanged, OnInitialConnectionStatusChanged
  <2> QED BY <1>2, <1>3, <1>4, <1>5, <1>6, <1>7, <2>1 DEF Phase
<1>8. CASE status = "HasDhKey"
  <2> DEFINE z == [y EXCEPT !.attempt = 0]
             w == [z EXCEPT !.config = [op |-> "running", on |-> None]]
  <2>1. OnConnectionStatusChanged(y, c) = GetDcConfig(z)
    BY <1>0, <1>2, <1>4, <1>8 DEF OnConnectionStatusChanged, OnInitialConnectionStatusChanged
  <2>2. 0 \in 0..Len(Intervals)
    BY ConnectionAssumption
  <2>3. z \in Client /\ Alike(y, z)
    BY <1>4, <2>2 DEF Client, Alike
  <2> HIDE DEF z
  <2>4. Phase(z) /\ Known(z) /\ Trying(z) /\ z.posted = <<>> /\ z.queued = "no"
    BY <1>1, <1>4, <1>5, <1>6, <2>3, AlikePhase DEF Phase, Alike
  <2>5. GetDcConfig(z) \in {z, OnGotDcConfig(z), Post(w, "config")}
    BY DEF GetDcConfig
  <2>6. w \in Client /\ Alike(z, w)
    BY <2>3 DEF Client, Alike, OpStates
  <2> HIDE DEF w
  <2>7. Known(w) /\ Trying(w) /\ w.posted = <<>> /\ w.queued = "no"
    BY <2>4, <2>6, AlikePhase DEF Alike
  <2> DEFINE p == Post(w, "config")
  <2>8. p \in Client
    BY <2>6, PostFacts DEF Events
  <2>9. /\ p.conn = w.conn /\ p.initial = w.initial /\ p.main = w.main
        /\ p.status = w.status /\ p.connectOp = w.connectOp
        /\ p.queued = w.queued /\ p.auth = w.auth
        /\ p.sync = w.sync /\ p.posted = Append(w.posted, "config") /\ p.crashed = w.crashed
    BY <2>6 DEF Client, Post
  <2>10. Append(<<>>, "config") = <<"config">> /\ <<"config">> # <<"connect">>
    OBVIOUS
  <2> HIDE DEF p
  <2>11. Trying(p)
    BY <2>7, <2>9, <2>10 DEF Trying
  <2>12. Known(p)
    BY <2>7, <2>8, <2>9 DEF Known
  <2> QED BY <1>3, <1>8, <2>1, <2>4, <2>5, <2>11, <2>12, ConfigKeepsPhase DEF Phase, p
<1> QED BY <1>7, <1>8

\* connectToNextServer, when an attempt is queued or its event was taken.
LEMMA NextServerTries ==
  ASSUME NEW x \in Client, Unused(x) # {}, x.auth.kind = "checkIn", ~x.crashed,
         x.auth.on = None, x.auth.step = "afterConnect", x.connectOp = "running",
         x.main = None, x.sync = None, x.posted = <<>>,
         \A c \in Conns : x.conn[c] \in {"Connecting", "Connected"} => c = x.initial
  PROVE  Phase(ConnectToNextServer(x))
<1> DEFINE y == IF x.initial = None THEN x ELSE Forget(x, x.initial)
           c == Min(Unused(x))
           z == Forget(y, c)
           k == IF x.stored THEN z.keyed \cup {c} ELSE z.keyed \ {c}
           f == [z.conn EXCEPT ![c] = "Connecting"]
           n == [z EXCEPT !.queued = "no", !.initial = c, !.conn = f, !.keyed = k,
                          !.status = "Connecting"]
<1>1. c \in Unused(x)
  <2>1. Unused(x) \in SUBSET Nat
    BY ConnectionAssumption DEF Unused
  <2> QED BY <2>1, MinFacts
<1>2. c \in Conns /\ c # None /\ None \notin Conns
  BY <1>1, ConnectionAssumption DEF Unused, None
<1>3. ConnectToNextServer(x) = n
  BY DEF ConnectToNextServer, SetStatus
<1> HIDE DEF c
<1>4. ASSUME NEW u \in Client, NEW d \in Conns, u.auth.on = None, u.sync = None
      PROVE  /\ Forget(u, d) \in Client /\ Forget(u, d).main = u.main
             /\ Forget(u, d).conn = [u.conn EXCEPT ![d] = "free"]
             /\ Forget(u, d).connectOp = u.connectOp /\ Forget(u, d).posted = u.posted
             /\ Forget(u, d).sync = None /\ Forget(u, d).auth = u.auth
             /\ Forget(u, d).crashed = u.crashed
  <2>1. d # None
    BY <1>2
  <2>2. /\ Forget(u, d).sync = None /\ Forget(u, d).auth = u.auth
        /\ Forget(u, d).crashed = u.crashed
    BY <1>4, <2>1 DEF Forget, Client
  <2> QED BY <1>4, <2>2, ForgetFacts
<1>5. /\ y \in Client /\ y.main = None /\ y.connectOp = "running" /\ y.posted = <<>>
      /\ y.sync = None /\ y.auth = x.auth /\ ~y.crashed
      /\ \A d \in Conns : y.conn[d] \notin {"Connecting", "Connected"}
  <2>1. CASE x.initial = None
    BY <1>2, <2>1
  <2>2. CASE x.initial # None
    <3>1. x.initial \in Conns /\ x.conn \in [Conns -> ConnStatuses] /\ y = Forget(x, x.initial)
      BY <2>2 DEF Client
    <3> HIDE DEF y
    <3>2. /\ y \in Client /\ y.main = x.main
          /\ y.conn = [x.conn EXCEPT ![x.initial] = "free"]
          /\ y.connectOp = x.connectOp /\ y.posted = x.posted
          /\ y.sync = None /\ y.auth = x.auth
          /\ y.crashed = x.crashed
      BY <1>4, <3>1
    <3> QED BY <3>1, <3>2
  <2> QED BY <2>1, <2>2
<1> HIDE DEF y
<1>6. /\ z \in Client /\ z.main = None /\ z.connectOp = "running" /\ z.posted = <<>>
      /\ z.sync = None /\ z.auth = x.auth /\ ~z.crashed
      /\ z.conn = [y.conn EXCEPT ![c] = "free"]
  <2>1. y.auth.on = None
    BY <1>5
  <2>2. /\ z \in Client /\ z.main = y.main
        /\ z.conn = [y.conn EXCEPT ![c] = "free"]
        /\ z.connectOp = y.connectOp /\ z.posted = y.posted
        /\ z.sync = None /\ z.auth = y.auth
        /\ z.crashed = y.crashed
    BY <1>2, <1>4, <1>5, <2>1
  <2> HIDE DEF z
  <2> QED BY <1>5, <2>2
<1>7. \A d \in Conns : z.conn[d] \notin {"Connecting", "Connected"}
  BY <1>2, <1>5, <1>6 DEF Client
<1> HIDE DEF z
<1>8. k \in SUBSET Conns
  BY <1>2, <1>6 DEF Client
<1>9. f \in [Conns -> ConnStatuses] /\ \A d \in Conns : f[d] \in {"Connecting", "Connected"} => d = c
  BY <1>2, <1>6, <1>7 DEF Client, ConnStatuses
<1> HIDE DEF k, f
<1>10. /\ n \in Client /\ n.main = None /\ n.connectOp = "running" /\ n.posted = <<>>
       /\ n.sync = None /\ n.auth = x.auth /\ ~n.crashed /\ n.conn = f /\ n.initial = c
       /\ n.queued = "no" /\ n.status = "Connecting"
  BY <1>2, <1>6, <1>8, <1>9 DEF Client, Statuses
<1> HIDE DEF n
<1>11. <<>> # <<"connect">>
  OBVIOUS
<1>12. Trying(n)
  BY <1>10, <1>11 DEF Trying
<1>13. Known(n)
  BY <1>9, <1>10 DEF Known
<1> QED BY <1>3, <1>12, <1>13 DEF Phase

\* The session is confirmed.
LEMMA ConfirmedSignsIn ==
  ASSUME NEW x, Known(x), Asking(x)
  PROVE  Phase(AuthSucceeded(x, x.auth.on))
<1> DEFINE c == x.initial
           f == [x.conn EXCEPT ![c] = "Signed"]
           a == [x.auth EXCEPT !.step = "succeeded", !.on = None]
           y == [x EXCEPT !.conn = f, !.auth = a, !.connectOp = "null"]
           m == [y EXCEPT !.main = c, !.initial = None]
           b == m.known \/ m.main \notin m.keyed
           k == [m EXCEPT !.stored = TRUE, !.known = b, !.status = "Connected"]
           w == [k EXCEPT !.sync = c]
<1>0. x \in Client /\ c \in Conns /\ c # None /\ x.auth.on = c
  BY DEF Known, Client, Asking
<1>1. y.initial = c
  BY <1>0 DEF Client
<1>2. AuthSucceeded(x, c) = SetMainConnection(y, c)
  BY <1>0 DEF AuthSucceeded, Client, Auth
<1>3. SetMainConnection(y, c) = OnMainSigned(m)
  BY <1>1 DEF SetMainConnection
<1>4. /\ f \in [Conns -> ConnStatuses] /\ f[c] = "Signed"
      /\ \A d \in Conns : f[d] \notin {"Connecting", "Connected"}
  BY <1>0 DEF Client, ConnStatuses, Known
<1>5. a \in Auth /\ a.step = "succeeded" /\ a.on = None /\ a.kind = "checkIn"
  <2>1. x.auth \in Auth
    BY <1>0, ClientAuth
  <2> QED BY <2>1 DEF Auth, AuthSteps, Known
<1> HIDE DEF c, f, a
<1>6. /\ y \in Client /\ y.conn = f /\ y.auth = a /\ y.connectOp = "null"
      /\ y.sync = None /\ y.queued = "no" /\ y.posted = <<>> /\ ~y.crashed
  BY <1>0, <1>4, <1>5 DEF Client, OpStates, Asking, Known
<1> HIDE DEF y
<1>7. /\ m \in Client /\ m.conn = f /\ m.auth = a /\ m.connectOp = "null"
      /\ m.sync = None /\ m.queued = "no" /\ m.posted = <<>> /\ ~m.crashed
      /\ m.main = c /\ m.initial = None
  <2>0. y \in Client /\ c \in Conns
    BY <1>0, <1>6
  <2>1. m \in Client
    BY <2>0 DEF Client
  <2>2. /\ m.conn = y.conn /\ m.auth = y.auth /\ m.connectOp = y.connectOp
        /\ m.sync = y.sync /\ m.queued = y.queued /\ m.posted = y.posted /\ m.crashed = y.crashed
        /\ m.main = c /\ m.initial = None
    BY <1>6 DEF Client
  <2> HIDE DEF m
  <2> QED BY <1>6, <2>1, <2>2
<1>8. OnMainSigned(m) \in {Post(k, "sync"), w}
  BY <1>7 DEF OnMainSigned, SetStatus
<1>9. b \in BOOLEAN
  OBVIOUS
<1> HIDE DEF m, b
<1>10. /\ k \in Client /\ k.conn = f /\ k.auth = a /\ k.connectOp = "null"
       /\ k.sync = None /\ k.queued = "no" /\ k.posted = <<>> /\ ~k.crashed
       /\ k.main = c /\ k.initial = None /\ k.status = "Connected"
  BY <1>7, <1>9 DEF Client, Statuses
<1> HIDE DEF k
<1>11. ASSUME NEW q \in Client, q.conn = f, q.auth = a, q.connectOp = "null",
              q.sync \in {None, c}, q.queued = "no", q.posted \in {<<>>, <<"sync">>}, ~q.crashed,
              q.main = c, q.initial = None, q.status = "Connected"
       PROVE  Phase(q)
  <2>1. SignedIn(q)
    BY <1>0, <1>4, <1>5, <1>11 DEF SignedIn
  <2>2. Known(q)
    BY <1>4, <1>5, <1>11 DEF Known
  <2> QED BY <2>1, <2>2 DEF Phase
<1>12. Phase(w)
  <2>1. /\ w \in Client /\ w.conn = f /\ w.auth = a /\ w.connectOp = "null"
        /\ w.sync = c /\ w.queued = "no" /\ w.posted = <<>> /\ ~w.crashed
        /\ w.main = c /\ w.initial = None /\ w.status = "Connected"
    BY <1>0, <1>10 DEF Client
  <2> HIDE DEF w
  <2> QED BY <1>11, <2>1
<1>13. Phase(Post(k, "sync"))
  <2> DEFINE p == Post(k, "sync")
  <2>0. Append(<<>>, "sync") = <<"sync">>
    OBVIOUS
  <2>1. /\ p.conn = f /\ p.auth = a /\ p.connectOp = "null"
        /\ p.sync = None /\ p.queued = "no" /\ p.posted = Append(<<>>, "sync") /\ ~p.crashed
        /\ p.main = c /\ p.initial = None /\ p.status = "Connected"
    BY <1>10 DEF Client, Post
  <2>2. p \in Client
    BY <1>10, PostFacts DEF Events
  <2> HIDE DEF p
  <2>3. Phase(p)
    BY <1>11, <2>0, <2>1, <2>2
  <2> QED BY <2>3 DEF p
<1> QED BY <1>0, <1>2, <1>3, <1>8, <1>12, <1>13

\* The inductive invariant.
PhaseInv == Phase(s)

\* A step that ends in a phase.
LEMMA StepPhase ==
  ASSUME NEW x, Phase(x), s' = x
  PROVE  PhaseInv'
<1>1. Phase(s')
  OBVIOUS
<1> QED BY <1>1 DEF PhaseInv, Phase, Known, AtRest, Trying, Asking, SignedIn

\* A posted event is handled, in any phase.
LEMMA RunPostedPhase ==
  ASSUME PhaseInv, RunPosted
  PROVE  PhaseInv'
<1> DEFINE x == [s EXCEPT !.posted = Tail(s.posted)]
           d == Default(x)
           g == [s.config EXCEPT !.on = d]
           w == [x EXCEPT !.config = g]
           event == Head(s.posted)
<1>0. s \in Client /\ Known(s) /\ Phase(s) /\ s.posted # <<>>
  BY DEF PhaseInv, Phase, Known, RunPosted
<1>1. \/ Trying(s) /\ s.posted \in {<<"connect">>, <<"config">>}
      \/ SignedIn(s) /\ s.posted = <<"sync">>
  <2>1. Trying(s) => s.posted \in {<<>>, <<"connect">>, <<"config">>}
    BY Zenon DEF Trying
  <2>2. SignedIn(s) => s.posted \in {<<>>, <<"sync">>}
    BY Zenon DEF SignedIn
  <2>3. AtRest(s) \/ Asking(s) => s.posted = <<>>
    BY Zenon DEF AtRest, Asking
  <2>4. Trying(s) => s.posted \in {<<"connect">>, <<"config">>}
    BY <1>0, <2>1
  <2>5. SignedIn(s) => s.posted = <<"sync">>
    BY <1>0, <2>2
  <2>6. ~AtRest(s) /\ ~Asking(s)
    BY <1>0, <2>3
  <2> QED BY <1>0, <2>4, <2>5, <2>6 DEF Phase
<1>2. \A e : Head(<<e>>) = e /\ Tail(<<e>>) = <<>>
  OBVIOUS
<1>3. Tail(s.posted) = <<>> /\ s.posted = <<event>>
  BY <1>1, <1>2, Zenon
<1>4. /\ x.posted = <<>> /\ x.queued = s.queued /\ x.connectOp = s.connectOp
      /\ x.initial = s.initial /\ x.main = s.main /\ x.conn = s.conn
      /\ x.config = s.config /\ x.auth = s.auth /\ x.sync = s.sync /\ x.crashed = s.crashed
      /\ x.status = s.status
  BY <1>0, <1>3 DEF Client
<1>5. <<>> \in Seq(Events)
  OBVIOUS
<1>6. x \in Client
  BY <1>0, <1>3, <1>5 DEF Client, Events
<1>7. /\ event = "connect" => s' = ConnectToNextServer(x) /\ Unused(x) # {}
      /\ event = "config" => s' = w
      /\ event = "sync" => s' = SetStatus(x, "Ready")
  BY <1>4 DEF RunPosted, Step, Unused
<1>8. d \in Conns \cup {None}
  BY <1>6 DEF Default, Client
<1> HIDE DEF x, d, event
<1>9. CASE event = "connect"
  <2>1. Trying(s)
    BY <1>1, <1>2, <1>3, <1>9
  <2>2. x.auth.step = "afterConnect" /\ x.connectOp = "running" /\ x.main = None /\ x.sync = None
    BY <1>4, <2>1 DEF Trying
  <2>3. x.auth.kind = "checkIn" /\ ~x.crashed /\ x.auth.on = None
        /\ \A c \in Conns : x.conn[c] \in {"Connecting", "Connected"} => c = x.initial
    BY <1>0, <1>4, <2>2 DEF Known
  <2>4. Phase(ConnectToNextServer(x))
    BY <1>4, <1>6, <1>7, <1>9, <2>2, <2>3, NextServerTries
  <2> QED BY <1>7, <1>9, <2>4, StepPhase
<1>10. CASE event = "config"
  <2>1. Trying(s) /\ s.queued # "posted"
    BY <1>1, <1>2, <1>3, <1>10 DEF Trying
  <2>2. <<>> # <<"connect">>
    OBVIOUS
  <2>3. Trying(x) /\ Known(x)
    <3>1. Trying(x)
      BY <1>4, <2>1, <2>2 DEF Trying
    <3>2. Known(x)
      BY <1>0, <1>4, <1>6 DEF Known
    <3> QED BY <3>1, <3>2
  <2>4. g \in [op : OpStates, on : Conns \cup {None}]
    BY <1>0, <1>8 DEF Client
  <2> HIDE DEF g
  <2>5. w \in Client /\ Alike(x, w)
    BY <1>6, <2>4 DEF Client, Alike
  <2> HIDE DEF w
  <2>6. Phase(w)
    BY <2>3, <2>5, AlikePhase DEF Phase
  <2> QED BY <1>7, <1>10, <2>6, StepPhase
<1>11. CASE event = "sync"
  <2> DEFINE y == SetStatus(x, "Ready")
  <2>1. SignedIn(s)
    BY <1>1, <1>2, <1>3, <1>11
  <2>2. y \in Client
    BY <1>6, SetStatusFacts DEF Statuses
  <2>3. /\ y.posted = <<>> /\ y.queued = x.queued /\ y.connectOp = x.connectOp
        /\ y.initial = x.initial /\ y.main = x.main /\ y.conn = x.conn
        /\ y.auth = x.auth /\ y.sync = x.sync /\ y.crashed = x.crashed /\ y.status = "Ready"
    BY <1>4, <1>6 DEF SetStatus, Client
  <2> HIDE DEF y
  <2>4. SignedIn(y)
    BY <1>4, <2>1, <2>3 DEF SignedIn
  <2>5. Known(y)
    BY <1>0, <1>4, <2>2, <2>3 DEF Known
  <2>6. Phase(y)
    BY <2>4, <2>5 DEF Phase
  <2> QED BY <1>7, <1>11, <2>6, StepPhase DEF y
<1>12. event \in {"connect", "config", "sync"}
  BY <1>1, <1>2 DEF event
<1> QED BY <1>9, <1>10, <1>11, <1>12

\* A connection gets on, is refused or closed, in any phase.
LEMMA ConnectionPhase ==
  ASSUME PhaseInv, NEW c \in Conns, Progress(c) \/ TransportClosed(c)
  PROVE  PhaseInv'
<1>0. Phase(s) /\ s.posted = <<>>
  BY DEF PhaseInv, Progress, TransportConnected, DhEstablished, KeyRefused, TransportClosed, Idle
<1>1. CASE TransportConnected(c)
  <2> DEFINE x == SetConnStatus(s, c, "Connected")
  <2>1. Phase(x) /\ x.posted = <<>> /\ x.conn[c] = "Connected"
    BY <1>0, <1>1, ProgressKeepsPhase DEF TransportConnected
  <2>2. s' = SetConnStatus(x, c, "HasDhKey") \/ s' = x
    BY <1>1 DEF TransportConnected, Step
  <2> HIDE DEF x
  <2>3. Phase(SetConnStatus(x, c, "HasDhKey"))
    BY <2>1, ProgressKeepsPhase
  <2> QED BY <2>1, <2>2, <2>3, StepPhase
<1>2. CASE DhEstablished(c)
  <2>1. s.conn[c] \in {"Connecting", "Connected"} /\ s' = SetConnStatus(s, c, "HasDhKey")
    BY <1>2 DEF DhEstablished, Step
  <2>2. Phase(SetConnStatus(s, c, "HasDhKey"))
    BY <1>0, <2>1, ProgressKeepsPhase
  <2> QED BY <2>1, <2>2, StepPhase
<1>3. CASE KeyRefused(c)
  <2>1. s.conn[c] = "HasDhKey" /\ s' = SetConnStatus(OnConnectionError(s, c), c, "Failed")
    BY <1>3 DEF KeyRefused, Step
  <2>2. Phase(SetConnStatus(OnConnectionError(s, c), c, "Failed"))
    BY <1>0, <2>1, RefusedKeepsPhase
  <2> QED BY <2>1, <2>2, StepPhase
<1>4. CASE TransportClosed(c)
  <2>1. s.conn[c] \in Live /\ s' = SetConnStatus(s, c, "Disconnected")
    BY <1>4 DEF TransportClosed
  <2>2. Phase(SetConnStatus(s, c, "Disconnected"))
    BY <1>0, <2>1, ClosedKeepsPhase
  <2> QED BY <2>1, <2>2, StepPhase
<1> QED BY <1>1, <1>2, <1>3, <1>4 DEF Progress

\* A reply comes, in any phase.
LEMMA RepliesPhase ==
  ASSUME PhaseInv, Replies
  PROVE  PhaseInv'
<1>0. Phase(s) /\ Known(s) /\ s \in Client
  BY DEF PhaseInv, Phase, Known
<1>1. s.posted = <<>>
  BY DEF Replies, ConfigReply, SyncReply, UpdateStatusReply, SendCodeReply, SignInReply,
         GetPasswordReply, CheckPasswordReply, AuthAnswered, Answers, Idle
<1>2. CASE ConfigReply
  <2>1. PICK result \in {"succeeded", "failed"} : s' = ConfigFinished(s, result)
    BY <1>2 DEF ConfigReply, Step
  <2> DEFINE x == [s EXCEPT !.config = [op |-> result, on |-> None]]
  <2>2. ConfigFinished(s, result) = OnGotDcConfig(x)
    BY DEF ConfigFinished
  <2>3. x \in Client /\ Alike(s, x)
    <3>1. x \in Client
      BY <1>0 DEF Client, OpStates
    <3>2. Alike(s, x)
      BY <1>0 DEF Client, Alike
    <3> QED BY <3>1, <3>2
  <2> HIDE DEF x
  <2>4. Phase(x) /\ x.posted = <<>>
    BY <1>0, <1>1, <2>3, AlikePhase DEF Phase, Alike
  <2> QED BY <2>1, <2>2, <2>4, ConfigKeepsPhase, StepPhase
<1>3. CASE SyncReply
  <2> DEFINE x == [s EXCEPT !.sync = None]
             y == [x EXCEPT !.self = TRUE, !.status = "Ready"]
  <2>1. s' = y \/ s' = x
    BY <1>3 DEF SyncReply, Step, SetStatus
  <2>2. SignedIn(s)
    BY <1>0, <1>3 DEF SyncReply, Answers, Encrypted, Phase, AtRest, Trying, Asking
  <2>3. /\ x \in Client /\ x.sync = None /\ x.posted = s.posted /\ x.queued = s.queued
        /\ x.connectOp = s.connectOp /\ x.initial = s.initial /\ x.main = s.main
        /\ x.conn = s.conn /\ x.auth = s.auth /\ x.crashed = s.crashed /\ x.status = s.status
    BY <1>0 DEF Client
  <2> HIDE DEF x
  <2>0. x \in Client
    BY <2>3
  <2>7. y \in Client
    BY <2>0 DEF Client, Statuses
  <2>4. /\ y.sync = x.sync /\ y.posted = x.posted /\ y.queued = x.queued
        /\ y.connectOp = x.connectOp /\ y.initial = x.initial /\ y.main = x.main
        /\ y.conn = x.conn /\ y.auth = x.auth /\ y.crashed = x.crashed /\ y.status = "Ready"
    BY <2>0 DEF Client
  <2> HIDE DEF y
  <2>5. SignedIn(x) /\ SignedIn(y)
    BY <2>2, <2>3, <2>4 DEF SignedIn
  <2>6. Known(x) /\ Known(y)
    BY <1>0, <2>3, <2>4, <2>7 DEF Known
  <2> QED BY <2>1, <2>5, <2>6, StepPhase DEF Phase
<1>4. CASE UpdateStatusReply
  <2>1. Asking(s)
    BY <1>0, <1>4 DEF UpdateStatusReply, AuthAnswered, Phase, AtRest, Trying, SignedIn
  <2>2. s' = AuthSucceeded(s, s.auth.on) \/ s' = FinishAuthFailed(s)
    BY <1>4 DEF UpdateStatusReply, Step
  <2>3. Phase(AuthSucceeded(s, s.auth.on))
    BY <1>0, <2>1, ConfirmedSignsIn
  <2>4. Phase(FinishAuthFailed(s))
    <3>1. s.auth.kind = "checkIn" /\ ~s.crashed /\ s.sync = None /\ s.queued = "no"
          /\ s.conn[s.initial] = "HasDhKey"
      BY <1>0, <2>1 DEF Known, Asking
    <3>2. \A c \in Conns : s.conn[c] \in {"Connecting", "Connected"} => c = s.initial
      BY <1>0 DEF Known
    <3> QED BY <1>0, <1>1, <3>1, <3>2, FailedRests DEF Phase
  <2> QED BY <2>2, <2>3, <2>4, StepPhase
<1>5. CASE SendCodeReply \/ SignInReply \/ GetPasswordReply \/ CheckPasswordReply
  BY <1>0, <1>5 DEF SendCodeReply, SignInReply, GetPasswordReply, CheckPasswordReply,
                    AuthAnswered, Phase, AtRest, Trying, Asking, SignedIn
<1> QED BY <1>2, <1>3, <1>4, <1>5 DEF Replies

\* The application that only checks in, and only while the client is disconnected.
OnlyCheckIn == AppCalls \subseteq {"checkIn"} /\ Polite

\* The first state is at rest.
LEMMA InitPhase == Init => PhaseInv
<1> SUFFICES ASSUME Init PROVE PhaseInv
  OBVIOUS
<1>1. s \in Client
  BY InitConnInv DEF ConnInv, Sound
<1>2. /\ s.status = "Disconnected" /\ s.connectOp = "null" /\ s.initial = None /\ s.main = None
      /\ s.sync = None /\ s.queued = "no" /\ s.posted = <<>> /\ ~s.crashed
      /\ s.auth.step = "none" /\ s.auth.kind = "checkIn" /\ s.auth.on = None
      /\ \A c \in Conns : s.conn[c] = "free"
  BY DEF Init
<1> QED BY <1>1, <1>2 DEF PhaseInv, Phase, Known, AtRest

\* Every step of an application that only checks in.
LEMMA NextPhase ==
  ASSUME OnlyCheckIn, PhaseInv, [Next]_vars
  PROVE  PhaseInv'
<1>0. Phase(s) /\ Known(s) /\ s \in Client
  BY DEF PhaseInv, Phase, Known
<1>1. CASE Application
  <2>1. AppCheckIn
    BY <1>1 DEF Application, AppStartAuthentication, AppDisconnect, AppCall, OnlyCheckIn
  <2>2. s.status = "Disconnected" /\ s.posted = <<>> /\ s' = CheckIn(s)
    BY <2>1 DEF AppCheckIn, MayConnect, AppCall, Idle, OnlyCheckIn
  <2>3. AtRest(s)
    BY <1>0, <2>2 DEF Phase, Trying, Asking, SignedIn
  <2>4. CASE ~s.stored
    BY <1>0, <2>2, <2>4, StepPhase DEF CheckIn
  <2>5. CASE s.stored
    <3>1. AuthFinished(s) /\ s.main = None /\ s.initial = None /\ s.connectOp = "null"
          /\ s.sync = None /\ s.queued = "no"
      BY <2>3 DEF AtRest, AuthFinished
    <3>2. ~s.crashed /\ \A c \in Conns : s.conn[c] \notin {"Connecting", "Connected"}
      BY <1>0, <3>1, ConnectionAssumption DEF Known, None
    <3>3. Known(CheckIn(s)) /\ Trying(CheckIn(s))
      BY <1>0, <2>2, <2>5, <3>1, <3>2, CheckInTries
    <3> QED BY <2>2, <3>3, StepPhase DEF Phase
  <2> QED BY <1>0, <2>4, <2>5 DEF Client
<1>2. CASE User
  BY <1>0, <1>2 DEF User, SubmitPhoneNumber, SubmitAuthCode, SubmitPassword,
                    Phase, AtRest, Trying, Asking, SignedIn
<1>3. CASE TimerFires
  <2>1. s.posted = <<>> /\ s.queued = "timer" /\ Unused(s) # {} /\ s' = ConnectToNextServer(s)
    BY <1>3 DEF TimerFires, Idle, Step
  <2>2. Trying(s)
    BY <1>0, <2>1 DEF Phase, AtRest, Asking, SignedIn
  <2>3. s.auth.step = "afterConnect" /\ s.connectOp = "running" /\ s.main = None /\ s.sync = None
    BY <2>2 DEF Trying
  <2>4. s.auth.kind = "checkIn" /\ ~s.crashed /\ s.auth.on = None
        /\ \A c \in Conns : s.conn[c] \in {"Connecting", "Connected"} => c = s.initial
    BY <1>0, <2>3 DEF Known
  <2>5. Phase(ConnectToNextServer(s))
    BY <1>0, <2>1, <2>3, <2>4, NextServerTries
  <2> QED BY <2>1, <2>5, StepPhase
<1>4. CASE ServerForgetsKey
  <2> DEFINE x == [s EXCEPT !.known = FALSE]
  <2>1. x \in Client /\ Alike(s, x)
    BY <1>0 DEF Client, Alike
  <2>2. s' = x
    BY <1>4 DEF ServerForgetsKey, Step
  <2> HIDE DEF x
  <2>3. Phase(x)
    BY <1>0, <2>1, AlikePhase DEF Phase
  <2> QED BY <2>2, <2>3, StepPhase
<1>5. CASE UNCHANGED vars
  BY <1>0, <1>5, StepPhase DEF vars
<1> QED BY <1>1, <1>2, <1>3, <1>4, <1>5, RunPostedPhase, RepliesPhase, ConnectionPhase DEF Next

\* isSignedIn() is only true with a main connection that is Signed: no late reply,
\* posted event, refused key or loss leaves the client Connected or Ready without it.
THEOREM SignedInConnected ==
  ASSUME OnlyCheckIn
  PROVE  Spec => []SignedInIsConnected
<1>1. PhaseInv => SignedInIsConnected
  BY DEF PhaseInv, Phase, AtRest, Trying, Asking, SignedIn, SignedInIsConnected
<1>2. PhaseInv /\ [Next]_vars => PhaseInv'
  BY NextPhase
<1> QED BY <1>1, <1>2, InitPhase, PTL DEF Spec

\* onGotDcConfig finds the connect operation, and onConnectionStatusChanged never
\* asks a missing main connection for its key.
THEOREM NoNullDereferenced ==
  ASSUME OnlyCheckIn
  PROVE  Spec => []NoCrash
<1>1. PhaseInv => NoCrash
  BY DEF PhaseInv, Phase, Known, NoCrash
<1>2. PhaseInv /\ [Next]_vars => PhaseInv'
  BY NextPhase
<1> QED BY <1>1, <1>2, InitPhase, PTL DEF Spec
=============================================================================
