--------------------------- MODULE ServerSessions ---------------------------
(***************************************************************************)
(* Server::Server: client connections, the sessions bound to them, the     *)
(* auth keys, the authorization of users and their online status.          *)
(*                                                                         *)
(* The server has one thread and runs a posted RPC operation before it     *)
(* looks at its sockets again, so a call is one step.  Its client may have *)
(* opened a new connection while the server still holds the old one.       *)
(***************************************************************************)
EXTENDS Naturals, FiniteSets

CONSTANTS
  Conns,      \* bound: connections over the time of a behaviour
  Sessions,   \* bound: session ids the clients use
  Keys,       \* bound: auth keys generated
  Users,      \* the accounts of this DC, registered or to be signed up
  Protected,  \* those with a password
  Foreign,    \* users of another DC, who import their authorization
  Timeout,    \* onlineCloudTimeoutMs / 1000
  MaxTime,    \* bound on the clock
  None

ASSUME SessionsAssumption ==
  /\ Protected \subseteq Users /\ Users \cap Foreign = {}
  /\ None \notin Conns \cup Sessions \cup Keys \cup Users \cup Foreign
  /\ Timeout \in Nat \ {0} /\ MaxTime \in Nat

VARIABLES
  status,      \* BaseConnection::m_status of the RemoteClientConnection
  key,         \* the auth key of a connection's send helper
  session,     \* RpcLayer::m_session of a connection
  registered,  \* AuthService::m_authorizations
  authUser,    \* AuthService::m_authToUserId
  sessionKey,  \* m_sessions: the key a session was made with (None: no such session)
  connection,  \* Session::m_connection
  userId,      \* Session::m_userId
  wanted,      \* Session::m_wanterUserId
  accounts,    \* Server::m_users
  userSessions,  \* AuthorizedUser::m_sessions, as a set: nothing is ever taken out of it
  exported,    \* Server::m_exportedAuthorizations
  online,      \* LocalUser::m_onlineTimestamp
  told,        \* history: the last timestamp sent as UpdateUserStatus
  now

connVars == <<status, key, session>>
authVars == <<registered, authUser, wanted, accounts, exported>>
onlineVars == <<online, told>>
vars == <<status, key, session, registered, authUser, sessionKey, connection, userId, wanted,
          accounts, userSessions, exported, online, told, now>>

People == Users \cup Foreign
Living == {"connected", "hasKey", "failed"}
-----------------------------------------------------------------------------
(***************************************************************************)
(* What the handlers share.  The operators about sessions take the new     *)
(* Session::m_connection as an argument.                                   *)
(***************************************************************************)
Active(s, conns) == conns[s] # None

HasActiveSession(u, conns) == \E s \in userSessions[u] : Active(s, conns)

\* LocalUser::isOnline; setUserOnline compares with > instead.
IsOnline(u) == online[u] >= now

\* fault: the user is set offline without the update.
SetUserOnlineSilently(u, isOnline) ==
  /\ online' = [online EXCEPT ![u] = IF isOnline THEN now + Timeout ELSE now]
  /\ told' = IF isOnline THEN [told EXCEPT ![u] = now + Timeout] ELSE told

\* setUserOnline, with the UpdateUserStatus that queueUpdates sends: it carries
\* the new timestamp whether the status is Online (expires) or Offline.
SetUserOnline(u, isOnline) ==
  LET date == IF isOnline THEN now + Timeout ELSE now
      wasOnline == online[u] > now
  IN  /\ online' = [online EXCEPT ![u] = date]
      /\ told' = IF isOnline = wasOnline THEN told ELSE [told EXCEPT ![u] = date]

\* fault: a session that ends is not looked at.
OnUserSessionStatusChangedIgnored(s, conns) == UNCHANGED onlineVars

\* onUserSessionStatusChanged: the end of the last active session of a local user.
OnUserSessionStatusChanged(s, conns) ==
  LET u == userId[s] IN
  IF /\ u \in accounts /\ ~Active(s, conns)
     /\ ~HasActiveSession(u, conns) /\ IsOnline(u)
  THEN SetUserOnline(u, FALSE)
  ELSE UNCHANGED onlineVars

\* fault: a session without a user keeps its lost connection.
SetSessionConnectionKept(s, c) ==
  LET conns == [connection EXCEPT ![s] = IF c = None /\ userId[s] = None THEN @ ELSE c]
  IN  connection' = conns /\ OnUserSessionStatusChanged(s, conns)

SetSessionConnection(s, c) ==
  LET conns == [connection EXCEPT ![s] = c]
  IN  connection' = conns /\ OnUserSessionStatusChanged(s, conns)

\* bindUserSession: the key is remembered as the user's only while the session
\* has a connection, and it is the key of that one.  The session stays in the
\* list of the user it had before.
BindUserSession(u, s) ==
  /\ userSessions' = [userSessions EXCEPT ![u] = @ \cup {s}]
  /\ userId' = [userId EXCEPT ![s] = u]
  /\ authUser' = IF Active(s, connection)
                   THEN [authUser EXCEPT ![key[connection[s]]] = u] ELSE authUser
-----------------------------------------------------------------------------
(***************************************************************************)
(* Connections.                                                            *)
(***************************************************************************)
NewConnection(c) ==
  /\ status[c] = "none"
  /\ status' = [status EXCEPT ![c] = "connected"]
  /\ UNCHANGED <<key, session, authVars, onlineVars, sessionKey, connection, userId,
                 userSessions, now>>

\* The key exchange ends with a new key (HasDhKey without a session).
KeyExchanged(c, k) ==
  /\ status[c] = "connected" /\ key[c] = None /\ k \notin registered
  /\ status' = [status EXCEPT ![c] = "hasKey"]
  /\ key' = [key EXCEPT ![c] = k]
  /\ registered' = registered \cup {k}
  /\ UNCHANGED <<session, authUser, wanted, accounts, exported, onlineVars, sessionKey,
                 connection, userId, userSessions, now>>

\* processAuthKey of the packet's key; the connection keeps status Connected
\* when it takes a key the server already has.
KeyAccepted(c, k) == key[c] = k \/ (key[c] = None /\ k \in registered)

\* A packet with another key, or one the server does not know: key error.
KeyRefused(c, k) ==
  /\ status[c] \in {"connected", "hasKey"} /\ ~KeyAccepted(c, k)
  /\ status' = [status EXCEPT ![c] = "failed"]
  /\ UNCHANGED <<key, session, authVars, onlineVars, sessionKey, connection, userId,
                 userSessions, now>>

\* The first encrypted message of a connection: bindClientConnectionSession.  A
\* client uses a session id with one key only.
BindClientConnectionSession(c, k, s) ==
  /\ status[c] \in {"connected", "hasKey"} /\ session[c] = None
  /\ KeyAccepted(c, k)
  /\ sessionKey[s] \in {None, k}
  /\ key' = [key EXCEPT ![c] = k]
  /\ session' = [session EXCEPT ![c] = s]
  /\ sessionKey' = [sessionKey EXCEPT ![s] = k]
  /\ LET u == authUser[k]
         new == sessionKey[s] = None /\ u \in accounts
     IN  /\ userId' = IF new THEN [userId EXCEPT ![s] = u] ELSE userId
         /\ userSessions' = IF new THEN [userSessions EXCEPT ![u] = @ \cup {s}]
                            ELSE userSessions
  /\ SetSessionConnection(s, c)
  /\ UNCHANGED <<status, authVars, now>>

\* The server notices that the connection is gone: onClientConnectionStatusChanged.
Disconnected(c) ==
  /\ status[c] \in Living
  /\ status' = [status EXCEPT ![c] = "deleted"]
  /\ IF session[c] # None THEN SetSessionConnection(session[c], None)
                          ELSE UNCHANGED <<connection, onlineVars>>
  /\ UNCHANGED <<key, session, authVars, sessionKey, userId, userSessions, now>>
-----------------------------------------------------------------------------
(***************************************************************************)
(* Calls over a connection with a session.                                 *)
(***************************************************************************)
Calls(c) == status[c] \in {"connected", "hasKey"} /\ session[c] # None

\* fault: the password is asked for whoever signs in.
SignInAlwaysWanted(c, u) ==
  LET s == session[c] IN
  /\ Calls(c) /\ u \in accounts
  /\ wanted' = [wanted EXCEPT ![s] = u]
  /\ UNCHANGED <<connVars, registered, authUser, accounts, exported, onlineVars, sessionKey,
                 connection, userId, userSessions, now>>

\* auth.signIn with the right code, whatever user the session has already.
SignIn(c, u) ==
  LET s == session[c] IN
  /\ Calls(c) /\ u \in accounts
  /\ IF u \in Protected
     THEN /\ wanted' = [wanted EXCEPT ![s] = u]
          /\ UNCHANGED <<authUser, userId, userSessions>>
     ELSE BindUserSession(u, s) /\ UNCHANGED wanted
  /\ UNCHANGED <<connVars, registered, accounts, exported, onlineVars, sessionKey,
                 connection, now>>

\* auth.checkPassword with the right password; the wanted user is not reset.
CheckPassword(c) ==
  LET s == session[c] IN
  /\ Calls(c) /\ wanted[s] # None
  /\ BindUserSession(wanted[s], s)
  /\ UNCHANGED <<connVars, registered, wanted, accounts, exported, onlineVars,
                 sessionKey, connection, now>>

\* addUser: the identifier must be free.
AddUser(u) == u \notin accounts /\ accounts' = accounts \cup {u}

\* auth.signUp with the right code.
SignUp(c, u) ==
  LET s == session[c] IN
  /\ Calls(c) /\ AddUser(u)
  /\ BindUserSession(u, s)
  /\ UNCHANGED <<connVars, registered, wanted, exported, onlineVars, sessionKey,
                 connection, now>>

\* Another DC asks for the authorization of one of its users
\* (generateExportedAuthorization).
ExportAuthorization(u) ==
  /\ u \in Foreign \ exported
  /\ exported' = exported \cup {u}
  /\ UNCHANGED <<connVars, registered, authUser, wanted, accounts, onlineVars, sessionKey,
                 connection, userId, userSessions, now>>

\* getAuthorizedUser: the bytes were exported for this user.
GetAuthorizedUser(u) == u \in exported

\* auth.importAuthorization: the user of the other DC is no LocalUser here.
ImportAuthorization(c, u) ==
  LET s == session[c] IN
  /\ Calls(c) /\ GetAuthorizedUser(u)
  /\ userId[s] = None /\ wanted[s] = None
  /\ BindUserSession(u, s)
  /\ UNCHANGED <<connVars, registered, wanted, accounts, exported, onlineVars, sessionKey,
                 connection, now>>

\* account.updateStatus
UpdateStatus(c, isOnline) ==
  /\ Calls(c) /\ userId[session[c]] \in accounts
  /\ SetUserOnline(userId[session[c]], isOnline)
  /\ UNCHANGED <<connVars, authVars, sessionKey, connection, userId, userSessions, now>>

Tick ==
  /\ now < MaxTime
  /\ now' = now + 1
  /\ UNCHANGED <<connVars, authVars, onlineVars, sessionKey, connection, userId,
                 userSessions>>
-----------------------------------------------------------------------------
Init ==
  /\ status = [c \in Conns |-> "none"]
  /\ key = [c \in Conns |-> None] /\ session = [c \in Conns |-> None]
  /\ registered = {} /\ authUser = [k \in Keys |-> None]
  /\ sessionKey = [s \in Sessions |-> None]
  /\ connection = [s \in Sessions |-> None]
  /\ userId = [s \in Sessions |-> None] /\ wanted = [s \in Sessions |-> None]
  /\ accounts = Protected
  /\ userSessions = [u \in People |-> {}]
  /\ exported = {}
  /\ online = [u \in Users |-> 0] /\ told = [u \in Users |-> 0]
  /\ now = 1

Next ==
  \/ Tick
  \/ \E u \in Foreign : ExportAuthorization(u)
  \/ \E c \in Conns :
       \/ NewConnection(c) \/ Disconnected(c) \/ CheckPassword(c)
       \/ \E k \in Keys :
            \/ KeyExchanged(c, k) \/ KeyRefused(c, k)
            \/ \E s \in Sessions : BindClientConnectionSession(c, k, s)
       \/ \E u \in Users : SignIn(c, u) \/ SignUp(c, u)
       \/ \E u \in Foreign : ImportAuthorization(c, u)
       \/ \E isOnline \in BOOLEAN : UpdateStatus(c, isOnline)

Spec == Init /\ [][Next]_vars
-----------------------------------------------------------------------------
\* Every variable keeps its type.
TypeOK ==
  /\ status \in [Conns -> Living \cup {"none", "deleted"}]
  /\ key \in [Conns -> Keys \cup {None}]
  /\ session \in [Conns -> Sessions \cup {None}]
  /\ registered \subseteq Keys
  /\ authUser \in [Keys -> People \cup {None}]
  /\ sessionKey \in [Sessions -> Keys \cup {None}]
  /\ connection \in [Sessions -> Conns \cup {None}]
  /\ userId \in [Sessions -> People \cup {None}]
  /\ wanted \in [Sessions -> Protected \cup {None}]
  /\ accounts \subseteq Users
  /\ userSessions \in [People -> SUBSET Sessions]
  /\ exported \subseteq Foreign
  /\ online \in [Users -> Nat] /\ told \in [Users -> Nat] /\ now \in Nat

Connected(u, c) ==
  status[c] \in Living /\ session[c] # None /\ userId[session[c]] = u

\* queueUpdates uses session->getConnection() of every active session: it is
\* never a deleted connection, however connections of a session overlap.
NoDanglingConnection ==
  \A s \in Sessions : Active(s, connection) =>
    /\ status[connection[s]] \in Living
    /\ session[connection[s]] = s

\* No session of the user was taken over by another one: bindUserSession leaves
\* the session in the list of the first and tells nobody of his end.
KeepsSessions(u) == \A s \in userSessions[u] : userId[s] = u

\* What onUserSessionStatusChanged and setUserOnline are for: once the last
\* connection of a user is gone isOnline() is over with the current second
\* (setUserOnline(false) stores that second, which isOnline() still counts),
\* whichever of the overlapping connections of his sessions ended last, and
\* whoever else signed in over them before he came back.
OfflineWhenGone ==
  \A u \in accounts :
    KeepsSessions(u) /\ IsOnline(u) =>
      online[u] = now \/ \E c \in Conns : Connected(u, c)

\* Nobody is shown as online for longer than he is: when a status is cut short,
\* the users who were told about it are told again (setUserOnline).
WatchersNotMisled == \A u \in Users : told[u] > now => told[u] <= online[u]

\* "The user has no connected devices. Definitely offline."
DefinitelyOffline ==
  [][\A c \in Conns, u \in Users :
       status'[c] # status[c] /\ online'[u] # online[u]
         => \A d \in Conns : ~Connected(u, d)']_vars
=============================================================================
