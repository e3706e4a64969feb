------------------------ MODULE ServerSessionsProofs ------------------------
(***************************************************************************)
(* Proofs about ServerSessions, for any number of connections, sessions,   *)
(* keys and users.                                                         *)
(***************************************************************************)
EXTENDS ServerSessions, TLAPS

USE DEF People, Living

(***************************************************************************)
(* What the shared operators do to the types.                              *)
(***************************************************************************)

\* setUserOnline keeps the timestamps numbers.
LEMMA SetUserOnlineType ==
  ASSUME TypeOK, NEW u \in Users, NEW isOnline \in BOOLEAN, SetUserOnline(u, isOnline)
  PROVE  online' \in [Users -> Nat] /\ told' \in [Users -> Nat]
<1>1. now \in Nat /\ now + Timeout \in Nat
  BY SessionsAssumption DEF TypeOK
<1>. DEFINE date == IF isOnline THEN now + Timeout ELSE now
<1>2. date \in Nat
  BY <1>1
<1>3. online' = [online EXCEPT ![u] = date]
      /\ (told' = told \/ told' = [told EXCEPT ![u] = date])
  BY DEF SetUserOnline
<1>. HIDE DEF date
<1> QED
  BY <1>2, <1>3 DEF TypeOK

\* So does the end of a session.
LEMMA StatusChangedType ==
  ASSUME TypeOK, NEW s \in Sessions, NEW conns, OnUserSessionStatusChanged(s, conns)
  PROVE  online' \in [Users -> Nat] /\ told' \in [Users -> Nat]
<1>1. CASE UNCHANGED onlineVars
  BY <1>1 DEF TypeOK, onlineVars
<1>2. CASE userId[s] \in accounts /\ SetUserOnline(userId[s], FALSE)
  <2>1. userId[s] \in Users
    BY <1>2 DEF TypeOK
  <2> QED
    BY <1>2, <2>1, SetUserOnlineType
<1> QED
  BY <1>1, <1>2 DEF OnUserSessionStatusChanged

\* bindUserSession
LEMMA BindUserType ==
  ASSUME TypeOK, NEW u \in People, NEW s \in Sessions, BindUserSession(u, s)
  PROVE  /\ userSessions' \in [People -> SUBSET Sessions]
         /\ userId' \in [Sessions -> People \cup {None}]
         /\ authUser' \in [Keys -> People \cup {None}]
<1>1. userSessions' \in [People -> SUBSET Sessions]
  BY DEF TypeOK, BindUserSession
<1>2. userId' \in [Sessions -> People \cup {None}]
  BY DEF TypeOK, BindUserSession
<1>3. authUser' \in [Keys -> People \cup {None}]
  BY DEF TypeOK, BindUserSession
<1> QED
  BY <1>1, <1>2, <1>3

\* The session of a connection that makes a call.
LEMMA CallsType ==
  ASSUME TypeOK, NEW c \in Conns, Calls(c)
  PROVE  session[c] \in Sessions /\ session[c] # None /\ status[c] \in Living
BY DEF TypeOK, Calls
-----------------------------------------------------------------------------
(***************************************************************************)
(* Type correctness.                                                       *)
(***************************************************************************)

\* Every step of the server keeps the types.
LEMMA TypeStep == TypeOK /\ [Next]_vars => TypeOK'
<1>. SUFFICES ASSUME TypeOK, [Next]_vars PROVE TypeOK'
  OBVIOUS
<1>. USE DEF connVars, authVars
<1>1. CASE Tick
  BY <1>1 DEF TypeOK, Tick, onlineVars
<1>2. ASSUME NEW u \in Foreign, ExportAuthorization(u) PROVE TypeOK'
  BY <1>2 DEF TypeOK, ExportAuthorization, onlineVars
<1>3. ASSUME NEW c \in Conns, NewConnection(c) PROVE TypeOK'
  BY <1>3 DEF TypeOK, NewConnection, onlineVars
<1>4. ASSUME NEW c \in Conns, Disconnected(c) PROVE TypeOK'
  <2>1. connection' \in [Sessions -> Conns \cup {None}]
        /\ online' \in [Users -> Nat] /\ told' \in [Users -> Nat]
    <3>1. CASE session[c] # None
      <4>1. session[c] \in Sessions
        BY <3>1 DEF TypeOK
      <4>2. connection' = [connection EXCEPT ![session[c]] = None]
            /\ OnUserSessionStatusChanged(session[c], [connection EXCEPT ![session[c]] = None])
        BY <1>4, <3>1 DEF Disconnected, SetSessionConnection
      <4> QED
        BY <4>1, <4>2, StatusChangedType DEF TypeOK
    <3>2. CASE session[c] = None
      BY <1>4, <3>2 DEF Disconnected, TypeOK, onlineVars
    <3> QED
      BY <3>1, <3>2
  <2>2. status' \in [Conns -> Living \cup {"none", "deleted"}]
    BY <1>4 DEF Disconnected, TypeOK
  <2> QED
    BY <1>4, <2>1, <2>2 DEF Disconnected, TypeOK
<1>5. ASSUME NEW c \in Conns, CheckPassword(c) PROVE TypeOK'
  <2>1. session[c] \in Sessions /\ wanted[session[c]] \in People
    BY <1>5, CallsType, SessionsAssumption DEF CheckPassword, TypeOK
  <2>2. BindUserSession(wanted[session[c]], session[c])
    BY <1>5 DEF CheckPassword
  <2> QED
    BY <1>5, <2>1, <2>2, BindUserType DEF CheckPassword, TypeOK, onlineVars
<1>6. ASSUME NEW c \in Conns, NEW k \in Keys, KeyExchanged(c, k) PROVE TypeOK'
  BY <1>6 DEF TypeOK, KeyExchanged, onlineVars
<1>7. ASSUME NEW c \in Conns, NEW k \in Keys, KeyRefused(c, k) PROVE TypeOK'
  BY <1>7 DEF TypeOK, KeyRefused, onlineVars
<1>8. ASSUME NEW c \in Conns, NEW k \in Keys, NEW s \in Sessions,
             BindClientConnectionSession(c, k, s)
      PROVE  TypeOK'
  <2>1. connection' = [connection EXCEPT ![s] = c]
        /\ OnUserSessionStatusChanged(s, [connection EXCEPT ![s] = c])
    BY <1>8 DEF BindClientConnectionSession, SetSessionConnection
  <2>2. online' \in [Users -> Nat] /\ told' \in [Users -> Nat]
    BY <2>1, StatusChangedType
  <2>3. userId' \in [Sessions -> People \cup {None}]
        /\ userSessions' \in [People -> SUBSET Sessions]
    BY <1>8 DEF BindClientConnectionSession, TypeOK
  <2> QED
    BY <1>8, <2>1, <2>2, <2>3 DEF BindClientConnectionSession, TypeOK
<1>9. ASSUME NEW c \in Conns, NEW u \in Users, SignIn(c, u) PROVE TypeOK'
  <2>1. session[c] \in Sessions
    BY <1>9, CallsType DEF SignIn
  <2>2. CASE u \in Protected
    BY <1>9, <2>1, <2>2 DEF SignIn, TypeOK, onlineVars
  <2>3. CASE u \notin Protected
    BY <1>9, <2>1, <2>3, BindUserType DEF SignIn, TypeOK, onlineVars
  <2> QED
    BY <2>2, <2>3
<1>10. ASSUME NEW c \in Conns, NEW u \in Users, SignUp(c, u) PROVE TypeOK'
  <2>1. session[c] \in Sessions
    BY <1>10, CallsType DEF SignUp
  <2> QED
    BY <1>10, <2>1, BindUserType DEF SignUp, AddUser, TypeOK, onlineVars
<1>11. ASSUME NEW c \in Conns, NEW u \in Foreign, ImportAuthorization(c, u) PROVE TypeOK'
  <2>1. session[c] \in Sessions
    BY <1>11, CallsType DEF ImportAuthorization
  <2> QED
    BY <1>11, <2>1, BindUserType DEF ImportAuthorization, TypeOK, onlineVars
<1>12. ASSUME NEW c \in Conns, NEW isOnline \in BOOLEAN, UpdateStatus(c, isOnline) PROVE TypeOK'
  <2>1. userId[session[c]] \in Users
    BY <1>12 DEF UpdateStatus, TypeOK
  <2> QED
    BY <1>12, <2>1, SetUserOnlineType DEF UpdateStatus, TypeOK
<1>13. CASE UNCHANGED vars
  BY <1>13 DEF TypeOK, vars
<1> QED
  BY <1>1, <1>2, <1>3, <1>4, <1>5, <1>6, <1>7, <1>8, <1>9, <1>10, <1>11, <1>12, <1>13 DEF Next

\* Sessions, keys, users and timestamps keep their types through every call and every
\* connection that comes and goes.
THEOREM TypeCorrect == Spec => []TypeOK
<1>1. Init => TypeOK
  BY SessionsAssumption DEF Init, TypeOK
<1> QED
  BY <1>1, TypeStep, PTL DEF Spec
-----------------------------------------------------------------------------
(***************************************************************************)
(* The inductive invariant.                                                *)
(***************************************************************************)

\* A session that a connection or a user has is one the server made.
SessionsMade ==
  /\ \A c \in Conns : session[c] # None => sessionKey[session[c]] # None
  /\ \A s \in Sessions : userId[s] # None => sessionKey[s] # None
  /\ \A u \in People : \A s \in userSessions[u] : sessionKey[s] # None

\* A session is in the list of its user, and may still be in those of the users it
\* had before.
SessionsListed == \A s \in Sessions : userId[s] # None => s \in userSessions[userId[s]]

\* OfflineWhenGone, in terms of the timestamp.
GoneOffline ==
  \A u \in accounts :
    KeepsSessions(u) /\ online[u] > now => \E c \in Conns : Connected(u, c)

\* Nobody is online for longer than the timeout.
OnlineBounded == \A u \in Users : online[u] <= now + Timeout

SessionsInv ==
  /\ TypeOK
  /\ SessionsMade
  /\ SessionsListed
  /\ NoDanglingConnection
  /\ OnlineBounded
  /\ GoneOffline
  /\ WatchersNotMisled

\* The two forms say the same.
LEMMA OfflineForms == TypeOK => (GoneOffline <=> OfflineWhenGone)
<1>. SUFFICES ASSUME TypeOK PROVE GoneOffline <=> OfflineWhenGone
  OBVIOUS
<1>1. \A u \in accounts : online[u] > now <=> IsOnline(u) /\ online[u] # now
  <2>. SUFFICES ASSUME NEW u \in accounts
                PROVE  online[u] > now <=> online[u] >= now /\ online[u] # now
    BY DEF IsOnline
  <2>1. online[u] \in Nat /\ now \in Nat
    BY DEF TypeOK
  <2> QED
    BY <2>1
<1> QED
  BY <1>1 DEF GoneOffline, OfflineWhenGone

\* What a step must leave of a user's sessions and connections: he has a connection
\* after it, or he lost none and no session of his was taken over before.
Unharmed(u) ==
  KeepsSessions(u)' =>
    \/ \E c \in Conns : Connected(u, c)'
    \/ /\ u \in accounts /\ KeepsSessions(u)
       /\ \A c \in Conns : Connected(u, c) => Connected(u, c)'

\* A user is bound to a session, whose user before, if any, still lists it.
LEMMA BindUserFacts ==
  ASSUME TypeOK, SessionsListed, NEW u \in People, NEW s \in Sessions,
         BindUserSession(u, s), UNCHANGED <<status, session>>,
         NEW b \in Conns, Calls(b), session[b] = s,
         accounts' \subseteq accounts \cup {u}, accounts' \subseteq Users
  PROVE  /\ SessionsListed'
         /\ \A v \in accounts' : Unharmed(v)
         /\ \A t \in Sessions : userId'[t] # None => t = s \/ userId[t] # None
         /\ \A v \in People : userSessions'[v] \subseteq userSessions[v] \cup {s}
<1>1. userId' = [userId EXCEPT ![s] = u] /\ userId'[s] = u
      /\ \A t \in Sessions \ {s} : userId'[t] = userId[t]
  BY DEF BindUserSession, TypeOK
<1>2. /\ userSessions' = [userSessions EXCEPT ![u] = @ \cup {s}]
      /\ s \in userSessions'[u]
      /\ \A v \in People : userSessions[v] \subseteq userSessions'[v]
      /\ \A v \in People \ {u} : userSessions'[v] = userSessions[v]
      /\ \A v \in People : userSessions'[v] \subseteq userSessions[v] \cup {s}
  BY DEF BindUserSession, TypeOK
<1>3. SessionsListed'
  <2>. SUFFICES ASSUME NEW t \in Sessions, userId'[t] # None
                PROVE  t \in userSessions'[userId'[t]]
    BY DEF SessionsListed
  <2>1. CASE t = s
    BY <1>1, <1>2, <2>1
  <2>2. CASE t # s
    <3>1. userId'[t] = userId[t] /\ userId[t] \in People /\ t \in userSessions[userId[t]]
      BY <1>1, <2>2 DEF SessionsListed, TypeOK
    <3> QED
      BY <1>2, <3>1
  <2> QED
    BY <2>1, <2>2
<1>4. \A v \in accounts' : Unharmed(v)
  <2>. SUFFICES ASSUME NEW v \in accounts', KeepsSessions(v)',
                       ~ \E c \in Conns : Connected(v, c)'
                PROVE  /\ v \in accounts /\ KeepsSessions(v)
                       /\ \A c \in Conns : Connected(v, c) => Connected(v, c)'
    BY DEF Unharmed
  <2>1. v \in Users /\ v \in People /\ v # None
    BY SessionsAssumption
  <2>2. Connected(u, b)'
    BY <1>1 DEF Calls, Connected
  <2>3. v # u /\ v \in accounts
    BY <2>2
  <2>4. s \notin userSessions[v]
    BY <1>1, <1>2, <2>1, <2>3 DEF KeepsSessions
  <2>5. KeepsSessions(v)
    <3>. SUFFICES ASSUME NEW t \in userSessions[v] PROVE userId[t] = v
      BY DEF KeepsSessions
    <3>1. t \in Sessions /\ t # s /\ t \in userSessions'[v]
      BY <1>2, <2>1, <2>4 DEF TypeOK
    <3> QED
      BY <1>1, <3>1 DEF KeepsSessions
  <2>6. ASSUME NEW c \in Conns, Connected(v, c) PROVE Connected(v, c)'
    <3>1. session[c] \in Sessions /\ userId[session[c]] = v
      BY <2>6 DEF Connected, TypeOK
    <3>2. session[c] # s
      BY <2>1, <2>4, <3>1 DEF SessionsListed
    <3> QED
      BY <1>1, <2>6, <3>1, <3>2 DEF Connected
  <2> QED
    BY <2>3, <2>5, <2>6
<1> QED
  BY <1>1, <1>2, <1>3, <1>4

\* setUserOnline tells a watcher of every status that ends earlier than he knows.
LEMMA SetUserOnlineFacts ==
  ASSUME TypeOK, OnlineBounded, WatchersNotMisled, now' = now,
         NEW u \in Users, NEW isOnline \in BOOLEAN, SetUserOnline(u, isOnline)
  PROVE  /\ OnlineBounded' /\ WatchersNotMisled'
         /\ \A v \in Users \ {u} : online'[v] = online[v]
         /\ ~isOnline => online'[u] = now
<1>1. now \in Nat /\ Timeout \in Nat /\ online \in [Users -> Nat] /\ told \in [Users -> Nat]
  BY SessionsAssumption DEF TypeOK
<1>. DEFINE date == IF isOnline THEN now + Timeout ELSE now
<1>2. date \in Nat /\ date <= now + Timeout /\ (~isOnline => date = now)
  BY <1>1
<1>3. online' = [online EXCEPT ![u] = date]
      /\ told' = IF isOnline = (online[u] > now) THEN told ELSE [told EXCEPT ![u] = date]
  BY DEF SetUserOnline
<1>4. told' = [told EXCEPT ![u] = date]
      \/ (told' = told /\ (isOnline => online[u] > now) /\ (online[u] > now => isOnline))
  BY <1>3
<1>5. isOnline => date = now + Timeout
  OBVIOUS
<1>. HIDE DEF date
<1>6. online'[u] = date /\ \A v \in Users \ {u} : online'[v] = online[v]
  BY <1>1, <1>3
<1>7. OnlineBounded'
  <2>. SUFFICES ASSUME NEW v \in Users PROVE online'[v] <= now + Timeout
    BY DEF OnlineBounded
  <2> QED
    BY <1>2, <1>6 DEF OnlineBounded
<1>8. WatchersNotMisled'
  <2>. SUFFICES ASSUME NEW v \in Users, told'[v] > now PROVE told'[v] <= online'[v]
    BY DEF WatchersNotMisled
  <2>1. CASE v # u
    BY <1>1, <1>4, <1>6, <2>1 DEF WatchersNotMisled
  <2>2. CASE v = u /\ told' = [told EXCEPT ![u] = date]
    BY <1>1, <1>2, <1>6, <2>2
  <2>3. CASE v = u /\ told' = told
    <3>1. told[u] <= online[u] /\ online[u] > now
      BY <1>1, <2>3 DEF WatchersNotMisled
    <3>2. isOnline \/ told' = [told EXCEPT ![u] = date]
      BY <1>4, <3>1
    <3>3. CASE isOnline
      BY <1>1, <1>5, <1>6, <2>3, <3>1, <3>3 DEF OnlineBounded
    <3>4. CASE told' = [told EXCEPT ![u] = date]
      BY <2>2, <2>3, <3>4
    <3> QED
      BY <3>2, <3>3, <3>4
  <2> QED
    BY <1>4, <2>1, <2>2, <2>3
<1> QED
  BY <1>2, <1>6, <1>7, <1>8

\* A step that leaves the timestamps and the clock alone and harms no user keeps the
\* three properties of the online status.
LEMMA OnlineKept ==
  ASSUME SessionsInv, UNCHANGED <<online, told, now>>,
         \A u \in accounts' : Unharmed(u)
  PROVE  OnlineBounded' /\ GoneOffline' /\ WatchersNotMisled'
<1>1. OnlineBounded' /\ WatchersNotMisled'
  BY DEF SessionsInv, OnlineBounded, WatchersNotMisled
<1>2. GoneOffline'
  <2>. SUFFICES ASSUME NEW u \in accounts', KeepsSessions(u)', online[u] > now
                PROVE  \E c \in Conns : Connected(u, c)'
    BY DEF GoneOffline
  <2>1. CASE \E c \in Conns : Connected(u, c)'
    BY <2>1
  <2>2. CASE /\ u \in accounts /\ KeepsSessions(u)
             /\ \A c \in Conns : Connected(u, c) => Connected(u, c)'
    <3>1. PICK c \in Conns : Connected(u, c)
      BY <2>2 DEF SessionsInv, GoneOffline
    <3> QED
      BY <2>2, <3>1
  <2> QED
    BY <2>1, <2>2 DEF Unharmed
<1> QED
  BY <1>1, <1>2

\* A call that binds a user to the session of its connection: signIn, signUp,
\* checkPassword, importAuthorization.
LEMMA BindCallStep ==
  ASSUME SessionsInv, TypeOK', NEW c \in Conns, NEW u \in People, Calls(c),
         BindUserSession(u, session[c]),
         UNCHANGED <<status, session, sessionKey, connection, online, told, now>>,
         accounts' \subseteq accounts \cup {u}
  PROVE  SessionsInv'
<1>1. session[c] \in Sessions /\ session[c] # None
  BY CallsType DEF SessionsInv
<1>2. accounts' \subseteq Users
  BY DEF TypeOK
<1>3. /\ SessionsListed'
      /\ \A v \in accounts' : Unharmed(v)
      /\ \A t \in Sessions : userId'[t] # None => t = session[c] \/ userId[t] # None
      /\ \A v \in People : userSessions'[v] \subseteq userSessions[v] \cup {session[c]}
  BY <1>1, <1>2, BindUserFacts DEF SessionsInv
<1>4. SessionsMade'
  BY <1>1, <1>3 DEF SessionsInv, SessionsMade
<1>5. NoDanglingConnection'
  BY DEF SessionsInv, NoDanglingConnection, Active
<1>6. OnlineBounded' /\ GoneOffline' /\ WatchersNotMisled'
  BY <1>3, OnlineKept
<1> QED
  BY <1>3, <1>4, <1>5, <1>6 DEF SessionsInv

\* A step that changes no session keeps what the invariant says of them.
LEMMA SessionsKept ==
  ASSUME SessionsInv, UNCHANGED <<session, sessionKey, connection, userId, userSessions, accounts>>,
         \A c \in Conns : status[c] \in Living => status'[c] \in Living
  PROVE  /\ SessionsMade' /\ SessionsListed' /\ NoDanglingConnection'
         /\ \A u \in Users, c \in Conns : Connected(u, c) => Connected(u, c)'
         /\ \A u \in accounts' : Unharmed(u)
<1>1. SessionsMade' /\ SessionsListed'
  BY DEF SessionsInv, SessionsMade, SessionsListed
<1>2. NoDanglingConnection'
  BY DEF SessionsInv, NoDanglingConnection, Active, TypeOK
<1>3. \A u \in Users, c \in Conns : Connected(u, c) => Connected(u, c)'
  BY DEF Connected
<1>4. \A u \in accounts' : Unharmed(u)
  BY <1>3 DEF SessionsInv, TypeOK, Unharmed, KeepsSessions
<1> QED
  BY <1>1, <1>2, <1>3, <1>4

\* A connection gets a session, new or resumed.
LEMMA BindConnectionStep ==
  ASSUME SessionsInv, TypeOK', NEW c \in Conns, NEW k \in Keys, NEW s \in Sessions,
         BindClientConnectionSession(c, k, s)
  PROVE  SessionsInv'
<1>. DEFINE u == authUser[k]
            new == sessionKey[s] = None /\ u \in accounts
<1>1. /\ session[c] = None /\ status[c] \in Living /\ status' = status
      /\ session' = [session EXCEPT ![c] = s]
      /\ sessionKey' = [sessionKey EXCEPT ![s] = k]
      /\ connection' = [connection EXCEPT ![s] = c]
      /\ userId' = IF new THEN [userId EXCEPT ![s] = u] ELSE userId
      /\ userSessions' = IF new THEN [userSessions EXCEPT ![u] = @ \cup {s}] ELSE userSessions
      /\ UNCHANGED <<accounts, now>>
  BY DEF BindClientConnectionSession, SetSessionConnection, authVars
<1>2. TypeOK /\ k # None /\ s # None /\ c # None /\ None \notin Users
  BY SessionsAssumption DEF SessionsInv
<1>3. UNCHANGED <<online, told>>
  <2>1. OnUserSessionStatusChanged(s, connection')
    BY DEF BindClientConnectionSession, SetSessionConnection
  <2>2. Active(s, connection')
    BY <1>1, <1>2 DEF Active, TypeOK
  <2> QED
    BY <2>1, <2>2 DEF OnUserSessionStatusChanged, onlineVars
<1>4. new => userId[s] = None /\ u \in Users /\ u # None
  BY <1>2 DEF SessionsInv, SessionsMade, TypeOK
<1>5. SessionsMade'
  <2>1. \A d \in Conns : session'[d] # None => sessionKey'[session'[d]] # None
    BY <1>1, <1>2 DEF SessionsInv, SessionsMade, TypeOK
  <2>2. \A t \in Sessions : userId'[t] # None => sessionKey'[t] # None
    BY <1>1, <1>2 DEF SessionsInv, SessionsMade, TypeOK
  <2>3. ASSUME NEW v \in People, NEW t \in userSessions'[v] PROVE sessionKey'[t] # None
    <3>1. t = s \/ (t \in userSessions[v] /\ sessionKey[t] # None)
      BY <1>1, <1>2, <2>3 DEF SessionsInv, SessionsMade, TypeOK
    <3>2. t \in Sessions
      BY <1>2, <2>3, <3>1 DEF TypeOK
    <3> QED
      BY <1>1, <1>2, <3>1, <3>2 DEF TypeOK
  <2> QED
    BY <2>1, <2>2, <2>3 DEF SessionsMade
<1>6. SessionsListed'
  <2>1. CASE ~new
    BY <1>1, <2>1 DEF SessionsInv, SessionsListed
  <2>2. CASE new
    <3>. SUFFICES ASSUME NEW t \in Sessions, userId'[t] # None
                  PROVE  t \in userSessions'[userId'[t]]
      BY DEF SessionsListed
    <3>1. CASE t = s
      BY <1>1, <1>2, <1>4, <2>2, <3>1 DEF TypeOK
    <3>2. CASE t # s
      <4>1. userId'[t] = userId[t] /\ userId[t] \in People /\ t \in userSessions[userId[t]]
        BY <1>1, <1>2, <2>2, <3>2 DEF SessionsInv, SessionsListed, TypeOK
      <4> QED
        BY <1>1, <1>2, <1>4, <2>2, <4>1 DEF TypeOK
    <3> QED
      BY <3>1, <3>2
  <2> QED
    BY <2>1, <2>2
<1>7. NoDanglingConnection'
  <2>. SUFFICES ASSUME NEW t \in Sessions, connection'[t] # None
                PROVE  status'[connection'[t]] \in Living /\ session'[connection'[t]] = t
    BY DEF NoDanglingConnection, Active
  <2>1. CASE t = s
    BY <1>1, <1>2, <2>1 DEF TypeOK
  <2>2. CASE t # s
    <3>1. connection'[t] = connection[t] /\ connection[t] \in Conns
      BY <1>1, <1>2, <2>2 DEF TypeOK
    <3>2. status[connection[t]] \in Living /\ session[connection[t]] = t
      BY <3>1 DEF SessionsInv, NoDanglingConnection, Active
    <3>3. t # None
      BY SessionsAssumption
    <3> QED
      BY <1>1, <1>2, <3>1, <3>2, <3>3 DEF TypeOK
  <2> QED
    BY <2>1, <2>2
<1>8. \A v \in Users, d \in Conns : Connected(v, d) => Connected(v, d)'
  <2>. SUFFICES ASSUME NEW v \in Users, NEW d \in Conns, Connected(v, d)
                PROVE  Connected(v, d)'
    OBVIOUS
  <2>1. d # c /\ session[d] \in Sessions /\ userId[session[d]] = v /\ v # None
    BY <1>1, <1>2 DEF Connected, TypeOK
  <2>2. session'[d] = session[d] /\ userId'[session[d]] = v
    BY <1>1, <1>2, <1>4, <2>1 DEF TypeOK
  <2> QED
    BY <1>1, <2>1, <2>2 DEF Connected
<1>9. \A v \in accounts' : Unharmed(v)
  <2>. SUFFICES ASSUME NEW v \in accounts, KeepsSessions(v)' PROVE KeepsSessions(v)
    BY <1>1, <1>2, <1>8 DEF Unharmed, TypeOK
  <2>. SUFFICES ASSUME NEW t \in userSessions[v] PROVE userId[t] = v
    BY DEF KeepsSessions
  <2>1. v \in People /\ t \in Sessions /\ t \in userSessions'[v]
    BY <1>1, <1>2 DEF TypeOK
  <2>2. userId'[t] = v
    BY <2>1 DEF KeepsSessions
  <2>3. CASE new /\ t = s
    <3>1. v = u
      BY <1>1, <1>2, <2>1, <2>2, <2>3 DEF TypeOK
    <3> QED
      BY <2>1, <2>3 DEF SessionsInv, SessionsMade
  <2>4. CASE ~(new /\ t = s)
    BY <1>1, <1>2, <2>1, <2>2, <2>4 DEF TypeOK
  <2> QED
    BY <2>3, <2>4
<1>10. OnlineBounded' /\ GoneOffline' /\ WatchersNotMisled'
  BY <1>3, <1>1, <1>9, OnlineKept
<1> QED
  BY <1>5, <1>6, <1>7, <1>10 DEF SessionsInv

\* The server notices that a connection is gone, perhaps after its session was resumed.
LEMMA DisconnectedStep ==
  ASSUME SessionsInv, TypeOK', NEW c \in Conns, Disconnected(c)
  PROVE  SessionsInv'
<1>. DEFINE s == session[c]
            conns == [connection EXCEPT ![s] = None]
<1>1. /\ TypeOK /\ SessionsMade /\ SessionsListed /\ NoDanglingConnection
      /\ status[c] \in Living /\ status' = [status EXCEPT ![c] = "deleted"]
      /\ UNCHANGED <<session, sessionKey, userId, userSessions, accounts, now>>
  BY DEF SessionsInv, Disconnected, authVars
<1>2. SessionsMade' /\ SessionsListed'
  BY <1>1 DEF SessionsMade, SessionsListed
<1>3. \A u \in Users, d \in Conns \ {c} : Connected(u, d) => Connected(u, d)'
  BY <1>1 DEF Connected, TypeOK
<1>6. \A u \in Users : KeepsSessions(u)' <=> KeepsSessions(u)
  BY <1>1 DEF KeepsSessions
<1>4. CASE s = None
  <2>1. UNCHANGED <<connection, online, told>>
    BY <1>4 DEF Disconnected, onlineVars
  <2>2. NoDanglingConnection'
    <3>. SUFFICES ASSUME NEW t \in Sessions, connection[t] # None
                  PROVE  status'[connection[t]] \in Living /\ session[connection[t]] = t
      BY <1>1, <2>1 DEF NoDanglingConnection, Active
    <3>1. status[connection[t]] \in Living /\ session[connection[t]] = t
      BY <1>1 DEF NoDanglingConnection, Active
    <3>2. connection[t] # c
      BY <1>4, <3>1, SessionsAssumption
    <3> QED
      BY <1>1, <3>1, <3>2 DEF TypeOK
  <2>3. \A u \in Users, d \in Conns : Connected(u, d) => Connected(u, d)'
    BY <1>3, <1>4 DEF Connected
  <2>4. \A u \in accounts' : Unharmed(u)
    BY <1>1, <1>6, <2>3 DEF Unharmed, TypeOK
  <2>5. OnlineBounded' /\ GoneOffline' /\ WatchersNotMisled'
    BY <1>1, <2>1, <2>4, OnlineKept
  <2> QED
    BY <1>2, <2>2, <2>5 DEF SessionsInv
<1>5. CASE s # None
  <2>1. s \in Sessions
    BY <1>1, <1>5 DEF TypeOK
  <2>2. connection' = conns /\ OnUserSessionStatusChanged(s, conns)
    BY <1>5 DEF Disconnected, SetSessionConnection
  <2>3. ~Active(s, conns) /\ \A t \in Sessions \ {s} : conns[t] = connection[t]
    BY <1>1, <2>1 DEF Active, TypeOK
  <2>4. \A t \in Sessions : Active(t, conns) =>
          /\ connection[t] \in Conns \ {c} /\ conns[t] = connection[t]
          /\ status[connection[t]] \in Living /\ session[connection[t]] = t
    <3>. SUFFICES ASSUME NEW t \in Sessions, Active(t, conns)
                  PROVE  /\ connection[t] \in Conns \ {c} /\ conns[t] = connection[t]
                         /\ status[connection[t]] \in Living /\ session[connection[t]] = t
      OBVIOUS
    <3>1. t # s /\ conns[t] = connection[t] /\ connection[t] \in Conns
      BY <1>1, <2>3 DEF Active, TypeOK
    <3> QED
      BY <1>1, <3>1 DEF NoDanglingConnection, Active
  <2>5. NoDanglingConnection'
    BY <1>1, <2>2, <2>4 DEF NoDanglingConnection, Active, TypeOK
  <2>6. CASE UNCHANGED onlineVars /\ ~(userId[s] \in accounts /\ ~HasActiveSession(userId[s], conns)
                                         /\ IsOnline(userId[s]))
    <3>1. OnlineBounded' /\ WatchersNotMisled'
      BY <1>1, <2>6 DEF SessionsInv, OnlineBounded, WatchersNotMisled, onlineVars
    <3>2. GoneOffline'
      <4>. SUFFICES ASSUME NEW u \in accounts, KeepsSessions(u), online[u] > now
                    PROVE  \E d \in Conns : Connected(u, d)'
        BY <1>1, <1>6, <2>6 DEF GoneOffline, onlineVars, TypeOK
      <4>1. u \in Users /\ online[u] \in Nat /\ now \in Nat
        BY <1>1 DEF TypeOK
      <4>2. PICK d \in Conns : Connected(u, d)
        BY DEF SessionsInv, GoneOffline
      <4>3. CASE d # c
        BY <1>3, <4>1, <4>2, <4>3
      <4>4. CASE d = c
        <5>1. u = userId[s] /\ IsOnline(u)
          BY <4>1, <4>2, <4>4 DEF Connected, IsOnline
        <5>2. PICK t \in userSessions[u] : Active(t, conns)
          BY <2>6, <5>1 DEF HasActiveSession
        <5>3. t \in Sessions /\ userId[t] = u
          BY <1>1, <4>1 DEF TypeOK, KeepsSessions
        <5>4. Connected(u, connection[t]) /\ connection[t] \in Conns \ {c}
          BY <2>4, <5>2, <5>3, SessionsAssumption DEF Connected
        <5> QED
          BY <1>3, <4>1, <5>4
      <4> QED
        BY <4>3, <4>4
    <3> QED
      BY <1>2, <2>5, <3>1, <3>2 DEF SessionsInv
  <2>7. CASE userId[s] \in accounts /\ SetUserOnline(userId[s], FALSE)
    <3>1. userId[s] \in Users
      BY <1>1, <2>7 DEF TypeOK
    <3>2. /\ OnlineBounded' /\ WatchersNotMisled'
          /\ \A v \in Users \ {userId[s]} : online'[v] = online[v]
          /\ online'[userId[s]] = now
      BY <1>1, <2>7, <3>1, SetUserOnlineFacts DEF SessionsInv
    <3>3. GoneOffline'
      <4>. SUFFICES ASSUME NEW u \in accounts, KeepsSessions(u), online'[u] > now
                    PROVE  \E d \in Conns : Connected(u, d)'
        BY <1>1, <1>6 DEF GoneOffline, TypeOK
      <4>1. u \in Users /\ now \in Nat /\ u # userId[s]
        BY <1>1, <3>2 DEF TypeOK
      <4>2. PICK d \in Conns : Connected(u, d)
        BY <3>2, <4>1 DEF SessionsInv, GoneOffline
      <4>3. d # c
        BY <4>1, <4>2 DEF Connected
      <4> QED
        BY <1>3, <4>1, <4>2, <4>3
    <3> QED
      BY <1>2, <2>5, <3>2, <3>3 DEF SessionsInv
  <2> QED
    BY <2>2, <2>3, <2>6, <2>7 DEF OnUserSessionStatusChanged
<1> QED
  BY <1>4, <1>5
-----------------------------------------------------------------------------
\* Every step of the server keeps the invariant.
LEMMA InvStep == SessionsInv /\ [Next]_vars => SessionsInv'
<1>. SUFFICES ASSUME SessionsInv, [Next]_vars PROVE SessionsInv'
  OBVIOUS
<1>0. TypeOK /\ TypeOK'
  BY TypeStep DEF SessionsInv
<1>. USE DEF connVars, authVars
<1>1. CASE Tick
  <2>1. /\ SessionsMade' /\ SessionsListed' /\ NoDanglingConnection'
        /\ \A u \in accounts' : Unharmed(u)
    BY <1>1, SessionsKept DEF Tick
  <2>2. now \in Nat /\ now' = now + 1 /\ UNCHANGED <<online, told, accounts>>
    BY <1>0, <1>1 DEF Tick, TypeOK, onlineVars
  <2>3. OnlineBounded' /\ WatchersNotMisled'
    BY <1>0, <2>2, SessionsAssumption
       DEF SessionsInv, OnlineBounded, WatchersNotMisled, TypeOK
  <2>4. GoneOffline'
    <3>. SUFFICES ASSUME NEW u \in accounts, KeepsSessions(u)', online[u] > now + 1
                  PROVE  \E c \in Conns : Connected(u, c)'
      BY <2>2 DEF GoneOffline
    <3>1. u \in Users /\ online[u] > now /\ Unharmed(u)
      BY <1>0, <2>1, <2>2 DEF TypeOK
    <3> QED
      BY <3>1 DEF SessionsInv, GoneOffline, Unharmed
  <2> QED
    BY <1>0, <2>1, <2>3, <2>4 DEF SessionsInv
<1>2. ASSUME NEW u \in Foreign, ExportAuthorization(u) PROVE SessionsInv'
  <2>1. UNCHANGED <<status, session, sessionKey, connection, userId, userSessions,
                    online, told, now, accounts>>
    BY <1>2 DEF ExportAuthorization, onlineVars
  <2> QED
    BY <1>0, <2>1, SessionsKept, OnlineKept DEF SessionsInv, TypeOK
<1>3. ASSUME NEW c \in Conns, NewConnection(c) PROVE SessionsInv'
  <2>1. /\ UNCHANGED <<session, sessionKey, connection, userId, userSessions,
                       online, told, now, accounts>>
        /\ \A d \in Conns : status[d] \in Living => status'[d] \in Living
    BY <1>0, <1>3 DEF NewConnection, onlineVars, TypeOK
  <2> QED
    BY <1>0, <2>1, SessionsKept, OnlineKept DEF SessionsInv, TypeOK
<1>4. ASSUME NEW c \in Conns, Disconnected(c) PROVE SessionsInv'
  BY <1>0, <1>4, DisconnectedStep
<1>5. ASSUME NEW c \in Conns, CheckPassword(c) PROVE SessionsInv'
  <2>1. wanted[session[c]] \in People
    BY <1>0, <1>5, CallsType, SessionsAssumption DEF CheckPassword, TypeOK
  <2> QED
    BY <1>0, <1>5, <2>1, BindCallStep DEF CheckPassword, onlineVars
<1>6. ASSUME NEW c \in Conns, NEW k \in Keys, KeyExchanged(c, k) PROVE SessionsInv'
  <2>1. /\ UNCHANGED <<session, sessionKey, connection, userId, userSessions,
                       online, told, now, accounts>>
        /\ \A d \in Conns : status[d] \in Living => status'[d] \in Living
    BY <1>0, <1>6 DEF KeyExchanged, onlineVars, TypeOK
  <2> QED
    BY <1>0, <2>1, SessionsKept, OnlineKept DEF SessionsInv, TypeOK
<1>7. ASSUME NEW c \in Conns, NEW k \in Keys, KeyRefused(c, k) PROVE SessionsInv'
  <2>1. /\ UNCHANGED <<session, sessionKey, connection, userId, userSessions,
                       online, told, now, accounts>>
        /\ \A d \in Conns : status[d] \in Living => status'[d] \in Living
    BY <1>0, <1>7 DEF KeyRefused, onlineVars, TypeOK
  <2> QED
    BY <1>0, <2>1, SessionsKept, OnlineKept DEF SessionsInv, TypeOK
<1>8. ASSUME NEW c \in Conns, NEW k \in Keys, NEW s \in Sessions,
             BindClientConnectionSession(c, k, s)
      PROVE  SessionsInv'
  BY <1>0, <1>8, BindConnectionStep
<1>9. ASSUME NEW c \in Conns, NEW u \in Users, SignIn(c, u) PROVE SessionsInv'
  <2>1. CASE u \in Protected
    <3>1. UNCHANGED <<status, session, sessionKey, connection, userId, userSessions,
                      online, told, now, accounts>>
      BY <1>9, <2>1 DEF SignIn, onlineVars
    <3> QED
      BY <1>0, <3>1, SessionsKept, OnlineKept DEF SessionsInv, TypeOK
  <2>2. CASE u \notin Protected
    BY <1>0, <1>9, <2>2, BindCallStep DEF SignIn, onlineVars
  <2> QED
    BY <2>1, <2>2
<1>10. ASSUME NEW c \in Conns, NEW u \in Users, SignUp(c, u) PROVE SessionsInv'
  BY <1>0, <1>10, BindCallStep DEF SignUp, AddUser, onlineVars
<1>11. ASSUME NEW c \in Conns, NEW u \in Foreign, ImportAuthorization(c, u) PROVE SessionsInv'
  BY <1>0, <1>11, BindCallStep DEF ImportAuthorization, onlineVars
<1>12. ASSUME NEW c \in Conns, NEW isOnline \in BOOLEAN, UpdateStatus(c, isOnline)
       PROVE  SessionsInv'
  <2>. DEFINE u == userId[session[c]]
  <2>1. /\ Calls(c) /\ u \in accounts /\ u \in Users /\ SetUserOnline(u, isOnline)
        /\ UNCHANGED <<status, session, sessionKey, connection, userId, userSessions, now, accounts>>
    BY <1>0, <1>12 DEF UpdateStatus, TypeOK
  <2>2. /\ SessionsMade' /\ SessionsListed' /\ NoDanglingConnection'
        /\ \A v \in accounts' : Unharmed(v)
    BY <2>1, SessionsKept
  <2>3. /\ OnlineBounded' /\ WatchersNotMisled'
        /\ \A v \in Users \ {u} : online'[v] = online[v]
    BY <1>0, <2>1, SetUserOnlineFacts DEF SessionsInv
  <2>4. Connected(u, c)'
    BY <2>1 DEF Calls, Connected
  <2>5. GoneOffline'
    <3>. SUFFICES ASSUME NEW v \in accounts, KeepsSessions(v)', online'[v] > now, v # u
                  PROVE  \E d \in Conns : Connected(v, d)'
      BY <2>1, <2>4 DEF GoneOffline
    <3>1. v \in Users /\ online[v] > now /\ Unharmed(v)
      BY <1>0, <2>1, <2>2, <2>3 DEF TypeOK
    <3> QED
      BY <3>1 DEF SessionsInv, GoneOffline, Unharmed
  <2> QED
    BY <1>0, <2>2, <2>3, <2>5 DEF SessionsInv
<1>13. CASE UNCHANGED vars
  <2>1. UNCHANGED <<status, session, sessionKey, connection, userId, userSessions,
                    online, told, now, accounts>>
    BY <1>13 DEF vars
  <2> QED
    BY <1>0, <2>1, SessionsKept, OnlineKept DEF SessionsInv, TypeOK
<1> QED
  BY <1>1, <1>2, <1>3, <1>4, <1>5, <1>6, <1>7, <1>8, <1>9, <1>10, <1>11, <1>12, <1>13 DEF Next

\* The inductive invariant of the server's sessions and users.
THEOREM SessionsInvariant == Spec => []SessionsInv
<1>1. Init => SessionsInv
  <2>. SUFFICES ASSUME Init PROVE SessionsInv
    OBVIOUS
  <2>1. TypeOK
    BY SessionsAssumption DEF Init, TypeOK
  <2>2. SessionsMade /\ SessionsListed /\ NoDanglingConnection
    BY DEF Init, SessionsMade, SessionsListed, NoDanglingConnection, Active
  <2>3. OnlineBounded /\ GoneOffline /\ WatchersNotMisled
    BY SessionsAssumption DEF Init, OnlineBounded, GoneOffline, WatchersNotMisled
  <2> QED
    BY <2>1, <2>2, <2>3 DEF SessionsInv
<1> QED
  BY <1>1, InvStep, PTL DEF Spec

\* However the connections of a session overlap, getConnection() of an active session
\* is a living connection that has this session.
THEOREM NoDangling == Spec => []NoDanglingConnection
<1>1. SessionsInv => NoDanglingConnection
  BY DEF SessionsInv
<1> QED
  BY <1>1, SessionsInvariant, PTL

\* A user whose last connection is gone is not online after the second in which it
\* went, whatever the order in which the server notices the ends of his connections
\* and whoever signed in over which session, as long as no session of his has another
\* user now.
THEOREM GoneIsOffline == Spec => []OfflineWhenGone
<1>1. SessionsInv => OfflineWhenGone
  BY OfflineForms DEF SessionsInv
<1> QED
  BY <1>1, SessionsInvariant, PTL

\* A contact is never left with a status that lasts longer than the user's own.
THEOREM NotMisled == Spec => []WatchersNotMisled
<1>1. SessionsInv => WatchersNotMisled
  BY DEF SessionsInv
<1> QED
  BY <1>1, SessionsInvariant, PTL
=============================================================================
