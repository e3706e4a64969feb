---------------------------- MODULE SessionSalts ----------------------------
(***************************************************************************)
(* The server salts of a Server::Session.  The salts are generated ahead,  *)
(* each valid for Rotation seconds from validSince and overlapping the     *)
(* next one by Overlap seconds.  getServerSalt is called for every message *)
(* received or sent and moves to the next salt, one salt per call, when    *)
(* the time of that salt has come.                                         *)
(*                                                                         *)
(* Salts are random numbers; here a salt is named by its validSince.       *)
(***************************************************************************)
EXTENDS Integers, Sequences

CONSTANTS
  Rotation,   \* c_sessionRotation
  Overlap,    \* c_sessionOverlapping
  MaxSalts,   \* c_maxServerSalts
  MaxTime     \* bound: the clock stops there

ASSUME SaltAssumption ==
  /\ Rotation \in Nat /\ Overlap \in Nat \ {0} /\ 2 * Overlap <= Rotation
  /\ MaxSalts \in Nat /\ MaxTime \in Nat

VARIABLES
  now,      \* getCurrentTime()
  salts,    \* m_salts
  oldSalt,  \* m_oldSalt
  served    \* the salts getServerSalt has returned so far

vars == <<now, salts, oldSalt, served>>

ValidUntil(s) == s + Rotation

\* The default ServerSalt, which expired before the clock starts.
NoSalt == -1 - Rotation

\* addSalt: the salt after s.
NextSalt(s) == ValidUntil(s) - Overlap

\* getSalts: generates salts until there are n of them.
Extended(n) ==
  [i \in 1..(IF n > Len(salts) THEN n ELSE Len(salts)) |->
     IF i <= Len(salts) THEN salts[i]
     ELSE salts[Len(salts)] + (i - Len(salts)) * (NextSalt(0))]

\* fault: a rotation in advance
MustRotateEarly == salts[2] <= now + Overlap

MustRotate == salts[2] < now

\* fault: the next salt is generated when none is left
RefilledLate(s, prev) == IF Len(s) < 1 THEN Append(s, NextSalt(prev)) ELSE s

\* "if (m_salts.count() < 2) addSalt();" after takeFirst
Refilled(s, prev) == IF Len(s) < 2 THEN Append(s, NextSalt(prev)) ELSE s

RotatedSalts == IF MustRotate THEN Refilled(Tail(salts), salts[Len(salts)]) ELSE salts
RotatedOld   == IF MustRotate THEN Head(salts) ELSE oldSalt

\* The answer of checkSalt(s), whose call of getServerSalt rotates first.
Accepts(s) ==
  \/ s = RotatedSalts[1]
  \/ s = RotatedOld /\ ValidUntil(RotatedOld) >= now
-----------------------------------------------------------------------------
Init ==
  /\ now = 0
  /\ salts = <<>>
  /\ oldSalt = NoSalt
  /\ served = {}

Tick ==
  /\ now < MaxTime
  /\ now' = now + 1
  /\ UNCHANGED <<salts, oldSalt, served>>

\* setInitialServerSalt (the salt of the key exchange or of an imported
\* session) and generateInitialServerSalt.  Both refuse a second call.
SetInitialServerSalt ==
  /\ salts = <<>>
  /\ salts' = <<now, NextSalt(now)>>
  /\ UNCHANGED <<now, oldSalt, served>>

GetServerSalt ==
  /\ salts # <<>>
  /\ salts' = RotatedSalts
  /\ oldSalt' = RotatedOld
  /\ served' = served \cup {RotatedSalts[1]}
  /\ UNCHANGED now

\* A message arrives with some salt (with salt 0 nothing happens).
CheckSalt ==
  /\ salts # <<>>
  /\ salts' = RotatedSalts
  /\ oldSalt' = RotatedOld
  /\ UNCHANGED <<now, served>>

GetSalts(n) ==
  /\ salts # <<>>
  /\ salts' = Extended(n)
  /\ UNCHANGED <<now, oldSalt, served>>

Next ==
  \/ Tick \/ SetInitialServerSalt \/ GetServerSalt \/ CheckSalt
  \/ \E n \in 0..MaxSalts : GetSalts(n)

Spec == Init /\ [][Next]_vars
-----------------------------------------------------------------------------
\* Every variable keeps its type.
TypeOK ==
  /\ now \in Nat
  /\ salts \in Seq(Nat)
  /\ oldSalt \in Int
  /\ served \in SUBSET Nat

\* getServerSalt always finds m_salts.at(1), and each salt takes over Overlap
\* seconds before its predecessor expires.
SaltsLinked ==
  salts # <<>> =>
    /\ Len(salts) >= 2
    /\ \A i \in 1..(Len(salts) - 1) : salts[i + 1] = NextSalt(salts[i])

\* Whatever salt a client was given is accepted until it expires, however the
\* messages of the session are spread over time: checkSalt knows two salts
\* only, and at most one older salt is still valid.
ServedSaltAccepted ==
  salts # <<>> => \A s \in served : now <= ValidUntil(s) => Accepts(s)

=============================================================================
