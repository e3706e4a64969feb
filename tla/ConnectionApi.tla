---------------------------- MODULE ConnectionApi ----------------------------
(***************************************************************************)
(* Client::ConnectionApiPrivate: how the client library connects, checks   *)
(* the stored session in, signs a user in and reconnects; with the         *)
(* AuthOperation it runs and the statuses of its Connection objects.       *)
(*                                                                         *)
(* Slots call each other synchronously, so a handler is an operator from a *)
(* state of the client to the next one and a step of the system applies    *)
(* one handler.  Qt delivers posted events (startLater, queued calls) in   *)
(* order and before it looks at sockets and timers again.                  *)
(***************************************************************************)
EXTENDS Naturals, Sequences, Functions, FiniteSetsExt

CONSTANTS
  Conns,      \* bound: names of Connection objects that exist at the same time
  Intervals,  \* getIntervals(): delays of the connection attempts
  AppCalls,   \* what the application calls: a subset of {"checkIn", "signIn", "disconnect"}
  Polite,     \* the application connects only while the status is Disconnected
  MaxCalls,   \* bound: number of calls of the application
  MaxLosses   \* bound: number of times a transport is closed

ASSUME ConnectionAssumption ==
  /\ Conns \subseteq Nat \ {0}
  /\ Intervals \in Seq(Nat) /\ Intervals # <<>>
  /\ AppCalls \subseteq {"checkIn", "signIn", "disconnect"}
  /\ Polite \in BOOLEAN /\ MaxCalls \in Nat /\ MaxLosses \in Nat

VARIABLES
  s,      \* the client
  calls, losses

vars == <<s, calls, losses>>

None == 0   \* nullptr

Statuses == {"Disconnected", "WaitForConnection", "Connecting", "WaitForAuthentication",
             "Connected", "Ready"}
ConnStatuses == {"free", "Disconnected", "Connecting", "Connected", "HasDhKey", "Signed",
                 "Failed"}
Live == {"Connecting", "Connected", "HasDhKey", "Signed", "Failed"}
OpStates == {"null", "running", "succeeded", "failed"}

\* How far the AuthOperation is.  Rpcs: it waits for the reply to that RPC.
Rpcs == {"updateStatus", "sendCode", "signIn", "getPassword", "checkPassword"}
AuthSteps == Rpcs \cup
  {"none", "afterConnect", "startPosted", "redirected", "phone", "code", "password",
   "stalled", "errorPosted", "succeeded", "failed"}
Auth == [kind : {"checkIn", "signIn"}, step : AuthSteps, phone : BOOLEAN,
         on : Conns \cup {None}, sent : BOOLEAN]
AuthFinished(x) == x.auth.step \in {"none", "succeeded", "failed"}

Client ==
  [status : Statuses,               \* m_status
   conn : [Conns -> ConnStatuses],  \* status() of every Connection object
   keyed : SUBSET Conns,            \* those that use the stored auth key
   initial : Conns \cup {None},     \* m_initialConnection
   main : Conns \cup {None},        \* m_mainConnection
   queued : {"no", "posted", "timer"},       \* m_connectionQueued, and how
   attempt : 0..Len(Intervals),     \* m_connectionAttemptNumber, capped
   connectOp : OpStates,            \* m_initialConnectOperation
   auth : Auth,                     \* m_authOperation, its RPC
   config : [op : OpStates, on : Conns \cup {None}],  \* m_getConfigOperation
   sync : Conns \cup {None},        \* connection of the pending sync RPC
   self : BOOLEAN,                  \* selfUserId() is known
   stored : BOOLEAN,                \* AccountStorage::hasMinimalDataSet()
   known : BOOLEAN,                 \* the server knows the stored auth key
   posted : Seq({"connect", "config", "auth", "authError", "sync"}),
   crashed : BOOLEAN]               \* a null pointer was dereferenced

SetStatus(x, status) == [x EXCEPT !.status = status]
Post(x, event) == [x EXCEPT !.posted = Append(@, event)]

\* getDefaultConnection
Default(x) == IF x.main # None THEN x.main ELSE x.initial

\* An RPC is answered only if it is sent over an encrypted connection.  Over
\* another one it is lost: it fails with the connection (RpcLost) or never.
Encrypted(x, c) == c # None /\ x.conn[c] \in {"HasDhKey", "Signed"}
-----------------------------------------------------------------------------
(***************************************************************************)
(* Connecting.                                                             *)
(***************************************************************************)
Interval(x) == Intervals[IF x.attempt < Len(Intervals) THEN x.attempt + 1 ELSE Len(Intervals)]

QueueConnectToNextServer(x) ==
  IF x.queued # "no" THEN x
  ELSE LET y == SetStatus([x EXCEPT !.attempt = IF @ < Len(Intervals) THEN @ + 1 ELSE @],
                          "WaitForConnection")
       IN  IF Interval(x) = 0 THEN Post([y EXCEPT !.queued = "posted"], "connect")
                              ELSE [y EXCEPT !.queued = "timer"]

ConnectToServer(x) ==
  IF x.connectOp # "null" THEN x
  ELSE QueueConnectToNextServer([x EXCEPT !.connectOp = "running", !.attempt = 0])

\* The operation that owns the RPC of a destroyed connection never finishes.
Forget(x, c) ==
  [x EXCEPT !.conn[c] = "free",
            !.auth = IF @.on = c THEN [@ EXCEPT !.on = None] ELSE @,
            !.config = IF @.on = c THEN [@ EXCEPT !.on = None] ELSE @,
            !.sync = IF @ = c THEN None ELSE @]

\* Names nobody refers to.  An orphan that is Disconnected stays so.
Unused(x) == {c \in Conns \ {x.initial, x.main} : x.conn[c] \in {"free", "Disconnected"}}

\* fault: m_connectionQueued is not reset
ConnectToNextServerStillQueued(x) ==
  LET y == IF x.initial = None THEN x ELSE Forget(x, x.initial)
      c == Min(Unused(x))
      z == Forget(y, c)
  IN  SetStatus([z EXCEPT !.initial = c, !.conn[c] = "Connecting",
                          !.keyed = IF x.stored THEN @ \cup {c} ELSE @ \ {c}],
                "Connecting")

\* connectToNextServer: a new Connection replaces the initial one, takes the
\* stored session, and its ConnectOperation makes it Connecting.
ConnectToNextServer(x) ==
  LET y == IF x.initial = None THEN x ELSE Forget(x, x.initial)
      c == Min(Unused(x))
      z == Forget(y, c)
  IN  SetStatus([z EXCEPT !.queued = "no", !.initial = c, !.conn[c] = "Connecting",
                          !.keyed = IF x.stored THEN @ \cup {c} ELSE @ \ {c}],
                "Connecting")

\* fault: m_initialConnectOperation keeps pointing to the deleted operation
DisconnectFromServerDangling(x) ==
  [x EXCEPT !.status = "Disconnected", !.initial = None, !.main = None,
            !.connectOp = IF @ = "null" THEN @ ELSE "dangling",
            !.auth.step = IF @ \in {"afterConnect", "redirected"} THEN "stalled" ELSE @]

\* Kept connections live on as orphans; a posted or delayed connection attempt
\* is not revoked; who waits for the connect operation waits forever.  Without an
\* operation the code calls deleteLater of a null pointer: in the Qt 5 it is built with
\* that only posts an event to no receiver, which QCoreApplication warns of and drops.
DisconnectFromServer(x) ==
  [x EXCEPT !.status = "Disconnected", !.initial = None, !.main = None,
            !.connectOp = "null",
            !.auth.step = IF @ \in {"afterConnect", "redirected"} THEN "stalled" ELSE @]
-----------------------------------------------------------------------------
(***************************************************************************)
(* AuthOperation.                                                          *)
(***************************************************************************)
SendAuthRpc(x, rpc) ==
  [x EXCEPT !.auth.step = rpc, !.auth.on = Default(x),
            !.auth.sent = Encrypted(x, Default(x))]

\* onCheckInFinished, onNewAuthenticationFinished: the failures.
FinishAuthFailed(x) ==
  LET y == [x EXCEPT !.auth.step = "failed", !.auth.on = None]
  IN  IF x.auth.kind = "checkIn" THEN DisconnectFromServer(y)
                                 ELSE SetStatus(y, "WaitForAuthentication")

\* setDelayedFinishedWithError
FinishAuthLater(x) ==
  Post([x EXCEPT !.auth.step = "errorPosted", !.auth.on = None], "authError")

\* The operation emits a signal and waits for the application.
AskUser(x, step) == [x EXCEPT !.auth.step = step, !.auth.on = None]

CheckAuthorization(x) ==
  IF x.stored THEN SendAuthRpc(x, "updateStatus") ELSE FinishAuthFailed(x)

RequestAuthCode(x) ==
  IF x.status # "WaitForAuthentication" THEN [x EXCEPT !.auth.step = "stalled"]
  ELSE IF ~x.auth.phone THEN AskUser(x, "phone")
  ELSE IF Default(x) = None THEN FinishAuthFailed(x)
  ELSE SendAuthRpc(x, "sendCode")

StartAuth(x) ==
  IF x.auth.kind = "checkIn" THEN CheckAuthorization(x) ELSE RequestAuthCode(x)

\* PendingOperation::runAfter(m_initialConnectOperation)
RunAfterConnect(x) ==
  CASE x.connectOp = "running"   -> [x EXCEPT !.auth.step = "afterConnect"]
    [] x.connectOp = "succeeded" -> Post([x EXCEPT !.auth.step = "startPosted"], "auth")
    [] OTHER                     -> FinishAuthLater(x)

NewAuth(x, kind, phone) ==
  [x EXCEPT !.auth = [kind |-> kind, step |-> "none", phone |-> phone, on |-> None,
                       sent |-> FALSE]]

StartAuthentication(x, phone) ==
  IF ~AuthFinished(x) THEN x
  ELSE RunAfterConnect(ConnectToServer(NewAuth(x, "signIn", phone)))

CheckIn(x) ==
  LET y == NewAuth(x, "checkIn", FALSE)
  IN  IF ~AuthFinished(x) \/ ~x.stored THEN x
      ELSE IF x.main # None THEN Post([y EXCEPT !.auth.step = "startPosted"], "auth")
      ELSE RunAfterConnect(ConnectToServer(y))

\* m_initialConnectOperation finishes: its auth operation goes on.
ConnectOpSucceeded(x) ==
  LET y == [x EXCEPT !.connectOp = "succeeded"]
  IN  IF x.connectOp # "running" THEN x
      ELSE CASE x.auth.step = "afterConnect" -> StartAuth(y)
             [] x.auth.step = "redirected"   -> RequestAuthCode(y)
             [] OTHER                        -> y

ConnectOpFailed(x) ==
  LET y == [x EXCEPT !.connectOp = "failed"]
  IN  CASE x.auth.step = "afterConnect" -> FinishAuthFailed(y)
        [] x.auth.step = "redirected"   -> [y EXCEPT !.auth.step = "stalled"]
        [] OTHER                        -> y
-----------------------------------------------------------------------------
(***************************************************************************)
(* Status changes of the connections.                                      *)
(***************************************************************************)
\* fault: the initial connection is not looked at
OnGotDcConfigBlind(x) ==
  LET y == SetStatus(x, "WaitForAuthentication")
  IN  IF x.connectOp = "null" THEN [y EXCEPT !.crashed = TRUE] ELSE ConnectOpSucceeded(y)

OnGotDcConfig(x) ==
  IF x.initial # None /\ x.conn[x.initial] = "HasDhKey"
  THEN LET y == SetStatus(x, "WaitForAuthentication")
       IN  IF x.connectOp = "null" THEN [y EXCEPT !.crashed = TRUE] ELSE ConnectOpSucceeded(y)
  ELSE x

\* fault: a failed operation is reused, too
GetDcConfigStale(x) ==
  CASE x.config.op = "succeeded"           -> OnGotDcConfig(x)
    [] x.config.op \in {"running", "failed"} -> x
    [] OTHER -> Post([x EXCEPT !.config = [op |-> "running", on |-> None]], "config")

\* Backend::getDcConfig reuses an operation that has not failed.
GetDcConfig(x) ==
  CASE x.config.op = "succeeded" -> OnGotDcConfig(x)
    [] x.config.op = "running"   -> x
    [] OTHER -> Post([x EXCEPT !.config = [op |-> "running", on |-> None]], "config")

ConfigFinished(x, result) ==
  OnGotDcConfig([x EXCEPT !.config = [op |-> result, on |-> None]])

\* A Signed main connection: store the session, then synchronise.
OnMainSigned(x) ==
  LET y == SetStatus([x EXCEPT !.stored = TRUE, !.known = @ \/ x.main \notin x.keyed],
                     "Connected")
  IN  IF x.self THEN Post(y, "sync") ELSE [y EXCEPT !.sync = x.main]

SetMainConnection(x, c) ==
  OnMainSigned([x EXCEPT !.main = c, !.initial = IF @ = c THEN None ELSE @])

OnMainConnectionLost(x) ==
  CheckIn(SetStatus([Forget(x, x.main) EXCEPT !.main = None, !.stored = TRUE], "Connecting"))

OnInitialConnectionStatusChanged(x, status) ==
  CASE status = "Disconnected" -> QueueConnectToNextServer(x)
    [] status = "HasDhKey"     -> GetDcConfig([x EXCEPT !.attempt = 0])
    [] OTHER                   -> x

\* fault: a loss before the synchronisation is overlooked
OnMainConnectionStatusChangedReady(x, status) ==
  IF status = "Disconnected" /\ x.status = "Ready" THEN OnMainConnectionLost(x) ELSE x

OnMainConnectionStatusChanged(x, status) ==
  IF status = "Disconnected" /\ x.status \in {"Connected", "Ready"}
  THEN OnMainConnectionLost(x) ELSE x

\* An orphan with a key is compared with the main connection.
OnOrphanStatusChanged(x, c, status) ==
  IF status # "HasDhKey" THEN x
  ELSE IF x.main = None THEN [x EXCEPT !.crashed = TRUE]
  ELSE IF c \in x.keyed THEN [x EXCEPT !.conn[c] = "Signed"]
  ELSE x

OnConnectionStatusChanged(x, c) ==
  IF c = x.initial THEN OnInitialConnectionStatusChanged(x, x.conn[c])
  ELSE IF c = x.main THEN OnMainConnectionStatusChanged(x, x.conn[c])
  ELSE OnOrphanStatusChanged(x, c, x.conn[c])

\* RpcLayer::onConnectionLost fails the RPCs of the connection.
AuthRpcLost(x, c) ==
  IF x.auth.step \notin Rpcs \/ x.auth.on # c THEN x
  ELSE IF x.auth.kind = "checkIn" THEN FinishAuthFailed(x)
  ELSE FinishAuthLater(x)

RpcLost(x, c) ==
  LET y == [x EXCEPT !.sync = IF @ = c THEN None ELSE @]
  IN  AuthRpcLost(IF x.config.op = "running" /\ x.config.on = c
                  THEN ConfigFinished(y, "failed") ELSE y, c)

\* BaseConnection::setStatus
SetConnStatus(x, c, status) ==
  LET y == [x EXCEPT !.conn[c] = status]
      lost == \/ status = "Failed"
              \/ status = "Disconnected" /\ x.conn[c] # "Failed"
  IN  OnConnectionStatusChanged(IF lost THEN RpcLost(y, c) ELSE y, c)

\* A user is authorized on connection c; the operation succeeds.
AuthSucceeded(x, c) ==
  SetMainConnection([x EXCEPT !.conn[c] = "Signed", !.auth.step = "succeeded",
                              !.auth.on = None, !.connectOp = "null"], c)

\* onConnectionError with InvalidAuthKey
OnConnectionError(x, c) ==
  LET y == [x EXCEPT !.stored = FALSE]
      z == IF c # x.initial THEN x
           ELSE IF x.connectOp = "running" THEN ConnectOpFailed(y) ELSE y
  IN  IF z.auth.kind = "signIn" /\ z.auth.step \in Rpcs /\ z.auth.on = c
      THEN FinishAuthFailed(z) ELSE z
-----------------------------------------------------------------------------
(***************************************************************************)
(* Steps of the system.                                                    *)
(***************************************************************************)
Idle == ~s.crashed /\ s.posted = <<>>

Step(x) == s' = x /\ UNCHANGED <<calls, losses>>

AppCall(name, x) ==
  /\ Idle /\ name \in AppCalls /\ calls < MaxCalls
  /\ calls' = calls + 1
  /\ s' = x
  /\ UNCHANGED losses

MayConnect == Polite => s.status = "Disconnected"

AppCheckIn == MayConnect /\ AppCall("checkIn", CheckIn(s))

AppStartAuthentication ==
  MayConnect /\ \E phone \in BOOLEAN : AppCall("signIn", StartAuthentication(s, phone))

AppDisconnect == AppCall("disconnect", DisconnectFromServer(s))

SubmitPhoneNumber ==
  /\ Idle /\ s.auth.step = "phone"
  /\ Step(RequestAuthCode([s EXCEPT !.auth.phone = TRUE]))

SubmitAuthCode == Idle /\ s.auth.step = "code" /\ Step(SendAuthRpc(s, "signIn"))

SubmitPassword == Idle /\ s.auth.step = "password" /\ Step(SendAuthRpc(s, "checkPassword"))

\* The event loop takes the next posted event.
RunPosted ==
  LET event == Head(s.posted)
      x     == [s EXCEPT !.posted = Tail(@)]
  IN  /\ ~s.crashed /\ s.posted # <<>>
      /\ event = "connect" => Unused(s) # {}
      /\ Step(CASE event = "connect"   -> ConnectToNextServer(x)
                [] event = "config"    -> [x EXCEPT !.config.on = Default(x)]
                [] event = "auth"      -> StartAuth(x)
                [] event = "authError" -> FinishAuthFailed(x)
                [] event = "sync"      -> SetStatus(x, "Ready"))

\* m_queuedConnectionTimer, perhaps hastened by connectRightNow
TimerFires ==
  /\ Idle /\ s.queued = "timer" /\ Unused(s) # {}
  /\ Step(ConnectToNextServer(s))

TransportConnected(c) ==
  /\ Idle /\ s.conn[c] = "Connecting"
  /\ Step(LET x == SetConnStatus(s, c, "Connected")
          IN  IF c \in s.keyed THEN SetConnStatus(x, c, "HasDhKey") ELSE x)

\* The DH exchange of the connection ends (DhLayer, whose messages are not modelled).
DhEstablished(c) ==
  /\ Idle /\ s.conn[c] = "Connected"
  /\ Step(SetConnStatus(s, c, "HasDhKey"))

\* Connection refused, timed out or closed.
TransportClosed(c) ==
  /\ Idle /\ s.conn[c] \in Live
  /\ losses < MaxLosses
  /\ losses' = losses + 1
  /\ s' = SetConnStatus(s, c, "Disconnected")
  /\ UNCHANGED calls

\* The server does not know the key of the first packet.
KeyRefused(c) ==
  /\ Idle /\ s.conn[c] = "HasDhKey" /\ c \in s.keyed /\ ~s.known
  /\ s.config.on = c \/ s.auth.on = c
  /\ Step(SetConnStatus(OnConnectionError(s, c), c, "Failed"))

\* The server has been started anew, without its sessions.
ServerForgetsKey == Idle /\ s.known /\ Step([s EXCEPT !.known = FALSE])

Answers(c) == Idle /\ Encrypted(s, c) /\ (s.conn[c] = "HasDhKey" /\ c \in s.keyed => s.known)

AuthAnswered(rpc) == s.auth.step = rpc /\ s.auth.sent /\ Answers(s.auth.on)

ConfigReply ==
  /\ s.config.op = "running" /\ Answers(s.config.on)
  /\ \E result \in {"succeeded", "failed"} : Step(ConfigFinished(s, result))

SyncReply ==
  /\ Answers(s.sync)
  /\ \E ok \in BOOLEAN : LET x == [s EXCEPT !.sync = None] IN
       Step(IF ok THEN SetStatus([x EXCEPT !.self = TRUE], "Ready") ELSE x)

UpdateStatusReply ==
  /\ AuthAnswered("updateStatus")
  /\ \/ Step(AuthSucceeded(s, s.auth.on))
     \/ Step(FinishAuthFailed(s))

\* RpcError::SeeOther: the account lives on another DC (connectToDc).
Redirected(x, known) ==
  LET y == [x EXCEPT !.connectOp = "null", !.auth.on = None]
  IN  IF known THEN [ConnectToServer(y) EXCEPT !.auth.step = "redirected"]
               ELSE [y EXCEPT !.auth.step = "stalled"]

SendCodeReply ==
  /\ AuthAnswered("sendCode")
  /\ \/ Step(SetStatus(AskUser(s, "code"), "WaitForAuthentication"))
     \/ \E known \in BOOLEAN : Step(Redirected(s, known /\ s.config.op = "succeeded"))
     \/ Step(FinishAuthLater(s))

\* signIn or signUp: authorized, or the code is wrong, or a password is needed,
\* or another error.
SignInReply ==
  /\ AuthAnswered("signIn")
  /\ \/ Step(AuthSucceeded([s EXCEPT !.self = TRUE], s.auth.on))
     \/ Step(AskUser(s, "code"))
     \/ Step(SendAuthRpc(s, "getPassword"))
     \/ Step(FinishAuthLater(s))

GetPasswordReply ==
  /\ AuthAnswered("getPassword")
  /\ \/ Step(AskUser(s, "password"))
     \/ Step(FinishAuthLater(s))

CheckPasswordReply ==
  /\ AuthAnswered("checkPassword")
  /\ \/ Step(AuthSucceeded([s EXCEPT !.self = TRUE], s.auth.on))
     \/ Step(AskUser(s, "password"))
     \/ Step(FinishAuthLater(s))
-----------------------------------------------------------------------------
Init ==
  /\ calls = 0 /\ losses = 0
  /\ \E stored \in BOOLEAN :
       s = [status |-> "Disconnected", conn |-> [c \in Conns |-> "free"], keyed |-> {},
            initial |-> None, main |-> None, queued |-> "no", attempt |-> 0,
            connectOp |-> "null",
            auth |-> [kind |-> "checkIn", step |-> "none", phone |-> FALSE, on |-> None,
                     sent |-> FALSE],
            config |-> [op |-> "null", on |-> None], sync |-> None, self |-> FALSE,
            stored |-> stored, known |-> stored, posted |-> <<>>, crashed |-> FALSE]

Application == AppCheckIn \/ AppStartAuthentication \/ AppDisconnect

User == SubmitPhoneNumber \/ SubmitAuthCode \/ SubmitPassword

Replies == ConfigReply \/ SyncReply \/ UpdateStatusReply \/ SendCodeReply \/ SignInReply
             \/ GetPasswordReply \/ CheckPasswordReply

Progress(c) == TransportConnected(c) \/ DhEstablished(c) \/ KeyRefused(c)

Next ==
  \/ Application \/ User \/ RunPosted \/ TimerFires \/ Replies \/ ServerForgetsKey
  \/ \E c \in Conns : Progress(c) \/ TransportClosed(c)

Spec == Init /\ [][Next]_vars

\* The event loop runs, timers fire, and a connection that is not closed gets
\* on: nothing is assumed of the application, the user or of losses.
Fairness ==
  /\ WF_vars(RunPosted) /\ WF_vars(TimerFires) /\ WF_vars(Replies)
  /\ \A c \in Conns : WF_vars(Progress(c))

FairSpec == Spec /\ Fairness
-----------------------------------------------------------------------------
\* Every variable keeps its type.
TypeOK == s \in Client /\ calls \in Nat /\ losses \in Nat

\* isSignedIn() is only true with a main connection whose session the server
\* has confirmed: no late reply, posted event or loss leaves the client Ready
\* without it (onSyncFinished, onMainConnectionLost).
SignedInIsConnected ==
  s.status \in {"Connected", "Ready"} => s.main # None /\ s.conn[s.main] = "Signed"

\* The connection attempt behind connectToServer never dies quietly: an attempt
\* is queued, or the initial connection is on its way and its end will queue
\* the next attempt (queueConnectToNextServer, connectToNextServer).
ConnectGoesOn ==
  s.connectOp = "running" =>
    \/ s.queued = "timer"
    \/ "connect" \in Range(s.posted)
    \/ s.initial # None /\ s.conn[s.initial] \in Live

\* A null pointer is never dereferenced (onGotDcConfig uses
\* m_initialConnectOperation and onConnectionStatusChanged mainConnection()).
NoCrash == ~s.crashed

\* checkIn finishes.
CheckInFinishes ==
  s.auth.kind = "checkIn" /\ ~AuthFinished(s) ~> AuthFinished(s)
=============================================================================
