------------------------------ MODULE SaltProofs ------------------------------
(***************************************************************************)
(* Proofs about SessionSalts for every rotation and overlap: a salt that   *)
(* was given to a client is accepted until it expires.                     *)
(***************************************************************************)
EXTENDS SessionSalts, TLAPS

\* The salts given out before the current one: the one before it is m_oldSalt,
\* all others have expired.
OlderServed ==
  salts # <<>> =>
    /\ \A s \in served : \/ s = salts[1]
                         \/ s = oldSalt
                         \/ ValidUntil(s) <= salts[1] /\ salts[1] < now
    /\ oldSalt = NoSalt \/ NextSalt(oldSalt) = salts[1]

\* The inductive invariant.
SaltInv ==
  /\ TypeOK /\ SaltsLinked /\ OlderServed
  /\ salts = <<>> => served = {} /\ oldSalt = NoSalt

\* The current salt and its successor.
LEMMA TwoSalts ==
  ASSUME TypeOK, SaltsLinked, salts # <<>>
  PROVE  /\ salts[1] \in Nat /\ salts[2] \in Nat /\ Len(salts) >= 2
         /\ salts[2] = salts[1] + Rotation - Overlap
BY SaltAssumption DEF TypeOK, SaltsLinked, NextSalt, ValidUntil

\* A list with one more element.
LEMMA AppendLast ==
  ASSUME NEW t \in Seq(Nat), NEW x \in Nat
  PROVE  /\ Append(t, x) \in Seq(Nat) /\ Len(Append(t, x)) = Len(t) + 1
         /\ \A i \in 1..Len(t) : Append(t, x)[i] = t[i]
         /\ Append(t, x)[Len(t) + 1] = x
OBVIOUS

\* A rotation keeps the list linked.
LEMMA RotationLinked ==
  ASSUME TypeOK, SaltsLinked, salts # <<>>, salts' = RotatedSalts
  PROVE  /\ salts' \in Seq(Nat) /\ salts' # <<>>
         /\ SaltsLinked'
         /\ salts'[1] = IF MustRotate THEN salts[2] ELSE salts[1]
<1> USE SaltAssumption
<1>1. salts \in Seq(Nat) /\ Len(salts) >= 2 /\ salts[1] \in Nat /\ salts[2] \in Nat
  BY TwoSalts DEF TypeOK
<1>2. CASE ~MustRotate
  BY <1>1, <1>2 DEF RotatedSalts, SaltsLinked
<1>3. /\ Tail(salts) \in Seq(Nat) /\ Len(Tail(salts)) = Len(salts) - 1
      /\ \A i \in 1..(Len(salts) - 1) : Tail(salts)[i] = salts[i + 1]
  BY <1>1
<1> DEFINE t == Tail(salts)
           n == Len(salts) - 1
<1>4. CASE MustRotate /\ Len(Tail(salts)) < 2
  <2>1. salts' = Append(t, NextSalt(salts[n + 1]))
    BY <1>1, <1>4 DEF RotatedSalts, Refilled
  <2>2. salts[n + 1] \in Nat /\ NextSalt(salts[n + 1]) \in Nat /\ n \in Nat /\ n >= 1
    BY <1>1 DEF NextSalt, ValidUntil
  <2>3. t \in Seq(Nat) /\ Len(t) = n /\ \A i \in 1..n : t[i] = salts[i + 1]
    BY <1>3
  <2>4. \A i \in 1..n : salts[i + 1] = NextSalt(salts[i])
    BY <1>1 DEF SaltsLinked
  <2> HIDE DEF t, n
  <2>5. /\ salts' \in Seq(Nat) /\ Len(salts') = n + 1 /\ salts'[n + 1] = NextSalt(salts[n + 1])
        /\ \A i \in 1..n : salts'[i] = salts[i + 1]
    BY <2>1, <2>2, <2>3, AppendLast
  <2>6. ASSUME NEW i \in 1..n PROVE salts'[i + 1] = NextSalt(salts'[i])
    <3>1. CASE i = n
      BY <2>2, <2>5, <3>1
    <3>2. CASE i # n
      <4>1. i + 1 \in 1..n
        BY <2>2, <3>2
      <4> QED BY <2>4, <2>5, <4>1
    <3> QED BY <3>1, <3>2
  <2>7. Len(salts') >= 2 /\ Len(salts') - 1 = n /\ salts' # <<>>
    BY <2>2, <2>5
  <2>8. 1 \in 1..n /\ salts'[1] = salts[2]
    BY <2>2, <2>5
  <2> QED BY <1>4, <2>5, <2>6, <2>7, <2>8 DEF SaltsLinked
<1>5. CASE MustRotate /\ ~(Len(Tail(salts)) < 2)
  <2>1. salts' = Tail(salts)
    BY <1>5 DEF RotatedSalts, Refilled
  <2>2. /\ Len(salts') = Len(salts) - 1 /\ salts' \in Seq(Nat)
        /\ \A i \in 1..Len(salts') : salts'[i] = salts[i + 1]
    BY <1>1, <1>3, <2>1
  <2>3. Len(salts') >= 2
    BY <1>1, <1>3, <1>5, <2>1
  <2>4. \A i \in 1..(Len(salts') - 1) : salts'[i + 1] = NextSalt(salts'[i])
    <3>1. \A i \in 1..(Len(salts) - 1) : salts[i + 1] = NextSalt(salts[i])
      BY <1>1 DEF SaltsLinked
    <3> SUFFICES ASSUME NEW i \in 1..(Len(salts') - 1)
                 PROVE  salts'[i + 1] = NextSalt(salts'[i])
      OBVIOUS
    <3>2. i \in 1..Len(salts') /\ i + 1 \in 1..Len(salts') /\ i + 1 \in 1..(Len(salts) - 1)
      BY <1>1, <2>2
    <3> QED BY <2>2, <3>1, <3>2
  <2> QED BY <1>1, <1>5, <2>2, <2>3, <2>4 DEF SaltsLinked
<1> QED BY <1>2, <1>4, <1>5

\* More salts keep the list linked.
LEMMA ExtensionLinked ==
  ASSUME TypeOK, SaltsLinked, salts # <<>>, NEW n \in Nat, salts' = Extended(n)
  PROVE  salts' \in Seq(Nat) /\ salts' # <<>> /\ SaltsLinked' /\ salts'[1] = salts[1]
<1> USE SaltAssumption
<1>1. salts \in Seq(Nat) /\ Len(salts) >= 2 /\ Len(salts) \in Nat /\ salts[1] \in Nat
  BY TwoSalts DEF TypeOK
<1> DEFINE m == IF n > Len(salts) THEN n ELSE Len(salts)
           step == Rotation - Overlap
           e(i) == IF i <= Len(salts) THEN salts[i]
                   ELSE salts[Len(salts)] + (i - Len(salts)) * step
<1>2. m \in Nat /\ m >= Len(salts)
  BY <1>1
<1>3. NextSalt(0) = step /\ step \in Nat
  BY DEF NextSalt, ValidUntil
<1>4. salts' = [i \in 1..m |-> e(i)]
  BY <1>3 DEF Extended
<1>5. \A i \in 1..m : e(i) \in Nat
  <2> SUFFICES ASSUME NEW i \in 1..m PROVE e(i) \in Nat
    OBVIOUS
  <2> HIDE DEF step
  <2>1. CASE i <= Len(salts)
    BY <1>1, <2>1
  <2>2. CASE ~(i <= Len(salts))
    <3>1. i - Len(salts) \in Nat /\ salts[Len(salts)] \in Nat
      BY <1>1, <1>2, <2>2
    <3>2. (i - Len(salts)) * step \in Nat
      BY <1>3, <3>1
    <3> QED BY <2>2, <3>1, <3>2
  <2> QED BY <2>1, <2>2
<1>6. \A i \in 1..(m - 1) : e(i + 1) = e(i) + step
  <2> SUFFICES ASSUME NEW i \in 1..(m - 1) PROVE e(i + 1) = e(i) + step
    OBVIOUS
  <2>1. CASE i + 1 <= Len(salts)
    <3>1. i \in 1..(Len(salts) - 1) /\ salts[i] \in Nat
      BY <1>1, <2>1
    <3>2. salts[i + 1] = NextSalt(salts[i])
      BY <1>1, <3>1 DEF SaltsLinked
    <3>3. NextSalt(salts[i]) = salts[i] + step
      BY <3>1 DEF NextSalt, ValidUntil
    <3>4. e(i) = salts[i] /\ e(i + 1) = salts[i + 1]
      <4> HIDE DEF step
      <4> QED BY <2>1, <3>1
    <3> QED BY <3>2, <3>3, <3>4
  <2>2. CASE i = Len(salts)
    BY <1>1, <1>3, <2>2
  <2>3. CASE i > Len(salts)
    <3> DEFINE k == i - Len(salts)
    <3>1. k \in Nat /\ i + 1 - Len(salts) = k + 1 /\ salts[Len(salts)] \in Nat
      BY <1>1, <1>2, <2>3
    <3>2. (k + 1) * step = k * step + step
      BY <1>3, <3>1
    <3>3. k * step \in Nat
      BY <1>3, <3>1
    <3>4. e(i) = salts[Len(salts)] + k * step
      BY <1>1, <2>3
    <3>5. e(i + 1) = salts[Len(salts)] + (k + 1) * step
      BY <1>1, <1>2, <2>3, <3>1
    <3> HIDE DEF k, step, e
    <3> QED BY <1>3, <3>1, <3>2, <3>3, <3>4, <3>5
  <2> QED BY <1>1, <1>2, <2>1, <2>2, <2>3
<1>7. e(1) = salts[1]
  BY <1>1
<1> HIDE DEF m, e
<1>8. salts' \in Seq(Nat) /\ Len(salts') = m
  BY <1>2, <1>4, <1>5
<1>9. \A i \in 1..(m - 1) : salts'[i + 1] = NextSalt(salts'[i])
  BY <1>2, <1>4, <1>5, <1>6 DEF NextSalt, ValidUntil
<1>10. salts'[1] = salts[1] /\ salts' # <<>>
  BY <1>1, <1>2, <1>4, <1>7, <1>8
<1> QED BY <1>1, <1>2, <1>8, <1>9, <1>10 DEF SaltsLinked
-----------------------------------------------------------------------------
\* A rotation makes the current salt the old one.
LEMMA RotationOlder ==
  ASSUME SaltInv, salts # <<>>, UNCHANGED now,
         salts' = RotatedSalts, oldSalt' = RotatedOld,
         served' \subseteq served \cup {RotatedSalts[1]}, served \subseteq served'
  PROVE  OlderServed'
<1> USE SaltAssumption
<1>1. /\ TypeOK /\ SaltsLinked /\ OlderServed /\ now \in Nat /\ oldSalt \in Int
      /\ served \in SUBSET Nat /\ salts \in Seq(Nat)
  BY DEF SaltInv, TypeOK
<1>2. /\ salts[1] \in Nat /\ salts[2] \in Nat
      /\ salts[2] = salts[1] + Rotation - Overlap
  BY <1>1, TwoSalts
<1>3. salts'[1] = IF MustRotate THEN salts[2] ELSE salts[1]
  BY <1>1, RotationLinked
<1>4. CASE ~MustRotate
  <2>1. salts' = salts /\ oldSalt' = oldSalt /\ RotatedSalts[1] = salts[1]
    BY <1>4 DEF RotatedSalts, RotatedOld
  <2>2. oldSalt # salts[1]
    BY <1>1, <1>2 DEF OlderServed, NextSalt, ValidUntil, NoSalt
  <2> QED BY <1>1, <2>1, <2>2 DEF OlderServed
<1>5. CASE MustRotate
  <2>1. oldSalt' = salts[1] /\ salts'[1] = salts[2] /\ RotatedSalts[1] = salts[2]
    BY <1>1, <1>3, <1>5 DEF RotatedOld
  <2>2. salts[2] < now
    BY <1>5 DEF MustRotate
  <2>3. ASSUME NEW s \in served
        PROVE  s = salts[1] \/ (ValidUntil(s) <= salts[2])
    <3>1. s \in Nat
      BY <1>1
    <3> QED BY <1>1, <1>2, <2>3, <3>1 DEF OlderServed, NextSalt, ValidUntil, NoSalt
  <2>4. NextSalt(oldSalt') = salts'[1]
    BY <1>2, <2>1 DEF NextSalt, ValidUntil
  <2> QED BY <1>1, <2>1, <2>2, <2>3, <2>4 DEF OlderServed
<1> QED BY <1>4, <1>5

\* Every step keeps the invariant.
LEMMA SaltStep ==
  ASSUME SaltInv, [Next]_vars
  PROVE  SaltInv'
<1> USE SaltAssumption
<1>1. TypeOK /\ SaltsLinked /\ OlderServed /\ now \in Nat /\ served \in SUBSET Nat
  BY DEF SaltInv, TypeOK
<1>2. ASSUME salts # <<>>, UNCHANGED now, salts' = RotatedSalts, oldSalt' = RotatedOld,
             served' \subseteq served \cup {RotatedSalts[1]}, served \subseteq served'
      PROVE  SaltInv'
  <2>1. /\ salts' \in Seq(Nat) /\ salts' # <<>> /\ SaltsLinked'
        /\ salts'[1] = IF MustRotate THEN salts[2] ELSE salts[1]
    BY <1>1, <1>2, RotationLinked
  <2>2. salts'[1] \in Nat
    BY <1>1, <1>2, <2>1, TwoSalts
  <2>3. oldSalt' \in Int
    BY <1>1, <1>2, TwoSalts DEF RotatedOld, TypeOK
  <2>4. served' \in SUBSET Nat
    BY <1>1, <1>2, <2>2
  <2>5. OlderServed'
    BY <1>2, RotationOlder
  <2> QED BY <1>1, <1>2, <2>1, <2>3, <2>4, <2>5 DEF SaltInv, TypeOK
<1>3. CASE Tick
  <2>1. now' = now + 1 /\ UNCHANGED <<salts, oldSalt, served>>
    BY <1>3 DEF Tick
  <2>2. OlderServed'
    <3> SUFFICES ASSUME salts # <<>> PROVE OlderServed'
      BY <2>1 DEF OlderServed
    <3>1. salts[1] \in Nat
      BY <1>1, TwoSalts
    <3> QED BY <1>1, <2>1, <3>1 DEF OlderServed
  <2>3. TypeOK' /\ SaltsLinked'
    BY <1>1, <2>1 DEF TypeOK, SaltsLinked
  <2> QED BY <2>1, <2>2, <2>3 DEF SaltInv
<1>4. CASE SetInitialServerSalt
  <2>1. salts' = <<now, NextSalt(now)>> /\ UNCHANGED <<now, oldSalt, served>>
        /\ served = {} /\ salts = <<>>
    BY <1>4 DEF SetInitialServerSalt, SaltInv
  <2>2. NextSalt(now) \in Nat
    BY <1>1 DEF NextSalt, ValidUntil
  <2>3. /\ salts' \in Seq(Nat) /\ salts' # <<>> /\ Len(salts') = 2
        /\ salts'[1] = now /\ salts'[2] = NextSalt(now)
    BY <1>1, <2>1, <2>2
  <2>4. SaltsLinked'
    BY <2>3 DEF SaltsLinked
  <2>5. oldSalt = NoSalt
    BY <2>1 DEF SaltInv
  <2>6. OlderServed'
    BY <2>1, <2>5 DEF OlderServed
  <2>7. TypeOK'
    BY <1>1, <2>1, <2>3 DEF TypeOK
  <2> QED BY <2>1, <2>3, <2>4, <2>6, <2>7 DEF SaltInv
<1>5. CASE GetServerSalt
  BY <1>2, <1>5 DEF GetServerSalt
<1>6. CASE CheckSalt
  BY <1>1, <1>2, <1>6 DEF CheckSalt, TypeOK
<1>7. ASSUME NEW k \in 0..MaxSalts, GetSalts(k) PROVE SaltInv'
  <2>1. salts # <<>> /\ salts' = Extended(k) /\ UNCHANGED <<now, oldSalt, served>>
    BY <1>7 DEF GetSalts
  <2>2. salts' \in Seq(Nat) /\ salts' # <<>> /\ SaltsLinked' /\ salts'[1] = salts[1]
    BY <1>1, <2>1, ExtensionLinked
  <2> QED BY <1>1, <2>1, <2>2 DEF SaltInv, TypeOK, OlderServed
<1>8. CASE UNCHANGED vars
  BY <1>8 DEF vars, SaltInv, TypeOK, SaltsLinked, OlderServed
<1> QED BY <1>3, <1>4, <1>5, <1>6, <1>7, <1>8 DEF Next

\* The invariant holds in every state.
LEMMA SaltInvariant == Spec => []SaltInv
<1>1. Init => SaltInv
  BY SaltAssumption DEF Init, SaltInv, TypeOK, SaltsLinked, OlderServed, NoSalt
<1>2. SaltInv /\ [Next]_vars => SaltInv'
  BY SaltStep
<1> QED BY <1>1, <1>2, PTL DEF Spec

\* getServerSalt never reads beyond the list, and the validity of consecutive
\* salts overlaps, whatever the times of the calls.
THEOREM AlwaysLinked == Spec => []SaltsLinked
<1>1. SaltInv => SaltsLinked
  BY DEF SaltInv
<1> QED BY <1>1, SaltInvariant, PTL

\* A salt that was given to a client is accepted until it expires, for every
\* rotation time that is at least twice the overlap.
THEOREM ServedAccepted == Spec => []ServedSaltAccepted
<1>1. SaltInv => ServedSaltAccepted
  <2> SUFFICES ASSUME SaltInv, salts # <<>>, NEW s \in served, now <= ValidUntil(s)
               PROVE  Accepts(s)
    BY DEF ServedSaltAccepted
  <2> USE SaltAssumption
  <2>1. /\ TypeOK /\ SaltsLinked /\ OlderServed /\ now \in Nat /\ s \in Nat
        /\ oldSalt \in Int /\ salts \in Seq(Nat)
    BY DEF SaltInv, TypeOK
  <2>2. /\ salts[1] \in Nat /\ salts[2] \in Nat /\ Len(salts) >= 2
        /\ salts[2] = salts[1] + Rotation - Overlap
    BY <2>1, TwoSalts
  <2>3. s = salts[1] \/ (s = oldSalt /\ NextSalt(oldSalt) = salts[1])
    BY <2>1, <2>2 DEF OlderServed, ValidUntil, NoSalt
  <2>4. CASE ~MustRotate
    BY <2>3, <2>4 DEF Accepts, RotatedSalts, RotatedOld
  <2>5. CASE MustRotate
    <3>1. s = salts[1]
      BY <2>1, <2>2, <2>3, <2>5 DEF MustRotate, NextSalt, ValidUntil
    <3>2. RotatedOld = salts[1]
      BY <2>1, <2>5 DEF RotatedOld
    <3> QED BY <3>1, <3>2 DEF Accepts, ValidUntil
  <2> QED BY <2>4, <2>5
<1> QED BY <1>1, SaltInvariant, PTL
=============================================================================
