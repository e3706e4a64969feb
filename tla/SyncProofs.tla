----------------------------- MODULE SyncProofs -----------------------------
(***************************************************************************)
(* Proofs about MessageSync for every set of peers, every portion and      *)
(* limit, every number of messages and of runs of the application.         *)
(*                                                                         *)
(* SyncInv, the inductive invariant, has two halves.  Base holds always:   *)
(* what a dialog holds is in order and newer than what it has given, what  *)
(* is on its way is newer still, and each dialog that waits has one        *)
(* request.  Whole holds until something disturbs the synchronization:     *)
(* every message of the post box is given, held, on its way or going to be *)
(* asked for.                                                              *)
(***************************************************************************)
EXTENDS MessageSync, FiniteSetTheorems, WellFoundedInduction, TLAPS
-----------------------------------------------------------------------------
(***************************************************************************)
(* The lists of messages.                                                  *)
(***************************************************************************)

\* A list of ids with the greatest first, no id twice.
Descending(s) == \A i, j \in DOMAIN s : i < j => s[i] > s[j]

\* A set of numbers that is not empty has a least element.
LEMMA LeastFacts ==
  ASSUME NEW S \in SUBSET Nat, S # {}
  PROVE  Min(S) \in S /\ \A y \in S : Min(S) <= y
<1>1. IsWellFoundedOn(OpToRel(<, Nat), Nat)
  BY NatLessThanWellFounded
<1>2. PICK m \in S : \A y \in S : ~(<<y, m>> \in OpToRel(<, Nat))
  BY <1>1, WFMin
<1>3. \A y \in S : m <= y
  <2> SUFFICES ASSUME NEW y \in S, y < m PROVE FALSE
    OBVIOUS
  <2> DEFINE R == {w \in Nat \X Nat : w[1] < w[2]}
  <2>1. OpToRel(<, Nat) = R
    BY Zenon DEF OpToRel
  <2>2. <<y, m>> \in R
    OBVIOUS
  <2> QED BY <1>2, <2>1, <2>2, Zenon
<1> QED BY <1>3 DEF Min

\* Fewer ids of a set are greater than a greater one.
LEMMA RankFalls ==
  ASSUME NEW S \in SUBSET Nat, IsFiniteSet(S), NEW x \in S, NEW z \in S, x < z
  PROVE  Cardinality({y \in S : y > z}) < Cardinality({y \in S : y > x})
<1> DEFINE X == {y \in S : y > x}
           Z == {y \in S : y > z}
<1>0. x \in Nat /\ z \in Nat /\ \A y \in S : y \in Nat
  OBVIOUS
<1>1. Z \in SUBSET X /\ z \in X /\ z \notin Z /\ X \in SUBSET S
  <2>1. \A y \in S : y > z => y > x
    BY <1>0
  <2>2. z > x /\ ~(z > z)
    BY <1>0
  <2> QED BY <2>1, <2>2, Zenon
<1>2. IsFiniteSet(X)
  BY <1>1, FS_Subset
<1>3. Cardinality(Z) <= Cardinality(X) /\ Cardinality(X) # Cardinality(Z) /\ IsFiniteSet(Z)
  BY <1>1, <1>2, FS_Subset
<1>4. Cardinality(X) \in Nat /\ Cardinality(Z) \in Nat
  BY <1>2, <1>3, FS_CardinalityType
<1> QED BY <1>3, <1>4

\* For each number below the size of a set exactly one id has that many greater ones.
LEMMA RankFacts ==
  ASSUME NEW S \in SUBSET Nat, IsFiniteSet(S)
  PROVE  /\ Cardinality(S) \in Nat
         /\ \A x \in S : Cardinality({y \in S : y > x}) \in 0..(Cardinality(S) - 1)
         /\ \A n \in 0..(Cardinality(S) - 1) : \E x \in S : Cardinality({y \in S : y > x}) = n
<1> DEFINE size == Cardinality(S)
           T == 0..(size - 1)
           R(x) == Cardinality({y \in S : y > x})
           f == [x \in S |-> R(x)]
<1>1. size \in Nat
  BY FS_CardinalityType
<1>2. ASSUME NEW x \in S PROVE R(x) \in T
  <2> DEFINE X == {y \in S : y > x}
  <2>1. X \in SUBSET S /\ x \notin X
    OBVIOUS
  <2>2. Cardinality(X) <= size /\ size # Cardinality(X) /\ IsFiniteSet(X)
    BY <2>1, FS_Subset
  <2>3. Cardinality(X) \in Nat
    BY <2>2, FS_CardinalityType
  <2> QED BY <1>1, <2>2, <2>3
<1>3. ASSUME NEW x \in S, NEW z \in S, x # z PROVE R(x) # R(z)
  <2>1. R(x) \in Nat /\ R(z) \in Nat /\ x \in Nat /\ z \in Nat
    BY <1>1, <1>2
  <2>2. x < z => R(z) < R(x)
    BY RankFalls
  <2>3. z < x => R(x) < R(z)
    BY RankFalls
  <2> HIDE DEF R
  <2> QED BY <1>3, <2>1, <2>2, <2>3
<1>4. f \in Injection(S, T)
  <2> HIDE DEF T, R
  <2>1. f \in [S -> T]
    BY <1>2
  <2>2. \A x, z \in S : f[x] = f[z] => x = z
    BY <1>3
  <2> QED BY <2>1, <2>2, Zenon DEF Injection, IsInjective
<1>5. IsFiniteSet(T) /\ Cardinality(T) = size
  <2>1. 0 \in Int /\ size - 1 \in Int /\ (0 > size - 1 => size = 0)
    BY <1>1
  <2> HIDE DEF size
  <2>2. IsFiniteSet(T) /\ Cardinality(T) = IF 0 > size - 1 THEN 0 ELSE (size - 1) - 0 + 1
    BY <2>1, FS_Interval
  <2> QED BY <1>1, <2>1, <2>2
<1>6. f \in Surjection(S, T)
  <2> HIDE DEF T, f
  <2> QED BY <1>4, <1>5, FS_Injection
<1>7. \A n \in T : \E x \in S : f[x] = n
  <2> HIDE DEF T, f
  <2> QED BY <1>6, Zenon DEF Surjection
<1> QED BY <1>1, <1>2, <1>7

\* NewestFirst lists the ids of the set, the greatest first.
LEMMA NewestFirstFacts ==
  ASSUME NEW S \in SUBSET Nat, IsFiniteSet(S)
  PROVE  /\ NewestFirst(S) \in Seq(S)
         /\ Cardinality(S) \in Nat
         /\ DOMAIN NewestFirst(S) = 1..Cardinality(S)
         /\ Len(NewestFirst(S)) = Cardinality(S)
         /\ Descending(NewestFirst(S))
         /\ \A x \in S : \E i \in 1..Cardinality(S) : NewestFirst(S)[i] = x
<1> DEFINE R(x) == Cardinality({y \in S : y > x})
           n == Cardinality(S)
           F == NewestFirst(S)
<1>1. /\ n \in Nat
      /\ \A x \in S : R(x) \in 0..(n - 1)
      /\ \A k \in 0..(n - 1) : \E x \in S : R(x) = k
  BY RankFacts
<1>2. \A x, z \in S : x < z => R(z) < R(x)
  BY RankFalls
<1>3. F = [i \in 1..n |-> CHOOSE x \in S : R(x) = i - 1]
  BY DEF NewestFirst
<1> HIDE DEF R, F, n
<1>4. \A i \in 1..n : F[i] \in S /\ R(F[i]) = i - 1
  <2> SUFFICES ASSUME NEW i \in 1..n PROVE F[i] \in S /\ R(F[i]) = i - 1
    OBVIOUS
  <2>1. i - 1 \in 0..(n - 1)
    BY <1>1
  <2>2. F[i] = CHOOSE x \in S : R(x) = i - 1
    BY <1>3
  <2> QED BY <1>1, <2>1, <2>2, Zenon
<1>5. F \in Seq(S) /\ DOMAIN F = 1..n /\ Len(F) = n
  <2>1. F \in [1..n -> S]
    BY <1>3, <1>4
  <2> QED BY <1>1, <2>1
<1>6. ASSUME NEW i \in 1..n, NEW j \in 1..n, i < j PROVE F[i] > F[j]
  <2>1. F[i] \in Nat /\ F[j] \in Nat /\ F[i] \in S /\ F[j] \in S
    BY <1>4
  <2>2. R(F[i]) = i - 1 /\ R(F[j]) = j - 1
    BY <1>4
  <2>3. F[i] # F[j]
    BY <2>2, <1>6, <1>1
  <2>4. ~(F[i] < F[j])
    <3> SUFFICES ASSUME F[i] < F[j] PROVE FALSE
      OBVIOUS
    <3>1. R(F[j]) < R(F[i])
      BY <1>2, <2>1
    <3> QED BY <1>1, <1>6, <2>2, <3>1
  <2> QED BY <2>1, <2>3, <2>4
<1>7. ASSUME NEW x \in S PROVE \E i \in 1..n : F[i] = x
  <2>1. R(x) + 1 \in 1..n /\ R(x) \in Nat
    BY <1>1
  <2> DEFINE z == F[R(x) + 1]
  <2>2. z \in S /\ R(z) = R(x)
    BY <1>4, <2>1
  <2> HIDE DEF z
  <2>3. (x < z => R(z) < R(x)) /\ (z < x => R(x) < R(z))
    BY <1>2, <2>2
  <2>4. x = z
    <3>1. x \in Nat /\ z \in Nat
      BY <2>2
    <3> QED BY <2>1, <2>2, <2>3, <3>1
  <2> QED BY <2>1, <2>4 DEF z
<1> QED BY <1>1, <1>5, <1>6, <1>7 DEF F, n, Descending

\* The first part of a list of ids.
LEMMA PrefixFacts ==
  ASSUME NEW s \in Seq(Nat), NEW c \in 0..Len(s)
  PROVE  /\ SubSeq(s, 1, c) \in Seq(Nat)
         /\ DOMAIN SubSeq(s, 1, c) = 1..c
         /\ Len(SubSeq(s, 1, c)) = c
         /\ \A k \in 1..c : SubSeq(s, 1, c)[k] = s[k]
         /\ Descending(s) => Descending(SubSeq(s, 1, c))
<1> DEFINE t == SubSeq(s, 1, c)
<1>1. t \in Seq(Nat) /\ Len(t) = c /\ DOMAIN t = 1..c
  OBVIOUS
<1>2. \A k \in 1..c : t[k] = s[k]
  OBVIOUS
<1>3. 1..c \subseteq DOMAIN s
  OBVIOUS
<1> HIDE DEF t
<1>4. Descending(s) => Descending(t)
  BY <1>1, <1>2, <1>3 DEF Descending
<1> QED BY <1>1, <1>2, <1>4 DEF t

\* What runGetHistory answers: messages of the dialog before the given one, the newest
\* first, and no message is skipped between the given one and the last one of the answer.
LEMMA HistoryPageFacts ==
  ASSUME history \in Seq(Peers),
         NEW p, NEW o \in Nat, o # 0, NEW n \in Nat, n >= 1, NEW m \in Nat
  PROVE  /\ HistoryPage(p, o, n, m) \in Seq(Nat)
         /\ Descending(HistoryPage(p, o, n, m))
         /\ \A k \in DOMAIN HistoryPage(p, o, n, m) :
              /\ HistoryPage(p, o, n, m)[k] \in Ids(p)
              /\ HistoryPage(p, o, n, m)[k] < o
         /\ \A id \in Ids(p) :
              \/ id <= m
              \/ id >= o
              \/ \E k \in DOMAIN HistoryPage(p, o, n, m) : HistoryPage(p, o, n, m)[k] = id
              \/ HistoryPage(p, o, n, m) # <<>> /\ id < Last(HistoryPage(p, o, n, m))
<1> DEFINE S == {id \in Ids(p) : (o # 0 => id < o) /\ id > m}
           all == NewestFirst(S)
           size == Cardinality(S)
           c == IF n < Len(all) THEN n ELSE Len(all)
           pg == SubSeq(all, 1, c)
<1>0. pg = HistoryPage(p, o, n, m)
  BY DEF HistoryPage
<1>1. S \in SUBSET Nat /\ IsFiniteSet(S)
  <2>1. DOMAIN history = 1..Len(history) /\ Len(history) \in Nat
    OBVIOUS
  <2>2. IsFiniteSet(DOMAIN history)
    BY <2>1, FS_Interval
  <2>3. S \in SUBSET DOMAIN history
    BY DEF Ids
  <2>4. DOMAIN history \subseteq Nat
    BY <2>1
  <2> HIDE DEF S
  <2> QED BY <2>2, <2>3, <2>4, FS_Subset
<1>2. /\ \A x \in S : x \in Ids(p) /\ x \in Nat /\ x < o
      /\ \A x \in Ids(p) : x \in Nat /\ (x \in S \/ x <= m \/ x >= o)
  <2>1. \A x \in Ids(p) : x \in Nat
    BY DEF Ids
  <2> QED BY <2>1
<1> HIDE DEF S
<1>3. /\ all \in Seq(S) /\ size \in Nat
      /\ DOMAIN all = 1..size /\ Len(all) = size
      /\ Descending(all)
      /\ \A x \in S : \E i \in 1..size : all[i] = x
  BY <1>1, NewestFirstFacts
<1>4. \A i \in 1..size : all[i] \in S
  BY <1>3
<1> HIDE DEF all, size
<1>5. c \in 0..Len(all) /\ c \in Nat /\ c <= size /\ (c < size => c >= 1)
  BY <1>3
<1>6. all \in Seq(Nat)
  <2>1. all \in [1..size -> Nat]
    <3>1. all = [i \in 1..size |-> all[i]]
      BY <1>3
    <3>2. \A i \in 1..size : all[i] \in Nat
      BY <1>2, <1>4
    <3> QED BY <3>1, <3>2, Zenon
  <2> QED BY <1>3, <2>1
<1> HIDE DEF c
<1>7. /\ pg \in Seq(Nat) /\ DOMAIN pg = 1..c /\ Len(pg) = c
      /\ \A k \in 1..c : pg[k] = all[k]
      /\ Descending(pg)
  BY <1>3, <1>5, <1>6, PrefixFacts
<1> HIDE DEF pg
<1>8. \A k \in DOMAIN pg : pg[k] \in Ids(p) /\ pg[k] < o
  <2>1. 1..c \subseteq 1..size
    BY <1>3, <1>5
  <2>2. \A k \in 1..c : pg[k] \in S
    BY <1>4, <1>7, <2>1
  <2> QED BY <1>2, <1>7, <2>2
<1>9. ASSUME NEW x \in S
      PROVE  (\E k \in DOMAIN pg : pg[k] = x) \/ (pg # <<>> /\ x < Last(pg))
  <2>1. PICK i \in 1..size : all[i] = x
    BY <1>3
  <2>2. CASE i <= c
    <3>1. i \in 1..c
      BY <1>3, <1>5, <2>2
    <3>2. pg[i] = x /\ i \in DOMAIN pg
      BY <1>7, <2>1, <3>1
    <3> QED BY <3>2, Zenon
  <2>3. CASE i > c
    <3>1. c >= 1 /\ c \in 1..size
      BY <1>3, <1>5, <2>3
    <3>2. all[c] > all[i]
      BY <1>3, <2>3, <3>1 DEF Descending
    <3>3. pg # <<>> /\ Last(pg) = all[c]
      BY <1>7, <3>1, <1>5 DEF Last
    <3>4. all[c] \in Nat /\ x \in Nat
      BY <1>2, <1>4, <3>1
    <3> QED BY <2>1, <3>2, <3>3, <3>4
  <2> QED BY <1>3, <1>5, <2>2, <2>3
<1> QED BY <1>0, <1>2, <1>7, <1>8, <1>9

\* processNewSyncMessages takes the first messages of the answer, all that are newer.
LEMMA NewerFacts ==
  ASSUME NEW ids \in Seq(Nat), Descending(ids), NEW mark \in Nat
  PROVE  /\ Newer(ids, mark) \in Seq(Nat)
         /\ Descending(Newer(ids, mark))
         /\ DOMAIN Newer(ids, mark) \subseteq DOMAIN ids
         /\ \A k \in DOMAIN Newer(ids, mark) :
              Newer(ids, mark)[k] = ids[k] /\ ids[k] > mark
         /\ \A k \in DOMAIN ids : ids[k] > mark => k \in DOMAIN Newer(ids, mark)
         /\ ids # <<>> /\ Last(ids) > mark => Newer(ids, mark) = ids
<1> DEFINE K == {i \in DOMAIN ids : ids[i] <= mark}
           N == Newer(ids, mark)
<1>0. DOMAIN ids = 1..Len(ids) /\ Len(ids) \in Nat /\ \A k \in DOMAIN ids : ids[k] \in Nat
  OBVIOUS
<1>1. CASE K = {}
  <2>1. N = ids
    BY <1>1 DEF Newer
  <2>2. \A k \in DOMAIN ids : ids[k] > mark
    BY <1>0, <1>1
  <2> HIDE DEF N
  <2> QED BY <2>1, <2>2 DEF N
<1>2. CASE K # {}
  <2> DEFINE l == Min(K)
             c == l - 1
  <2>1. N = SubSeq(ids, 1, c)
    BY <1>2 DEF Newer
  <2>2. K \in SUBSET Nat
    BY <1>0
  <2>3. l \in K /\ \A y \in K : l <= y
    BY <1>2, <2>2, LeastFacts
  <2> HIDE DEF l
  <2>4. l \in 1..Len(ids) /\ ids[l] <= mark
    BY <1>0, <2>3
  <2>5. \A i \in 1..c : ids[i] > mark
    <3> SUFFICES ASSUME NEW i \in 1..c PROVE ids[i] > mark
      OBVIOUS
    <3>1. i \in DOMAIN ids /\ i < l
      BY <1>0, <2>4
    <3>2. i \notin K
      BY <2>3, <2>4, <3>1
    <3>3. ~(ids[i] <= mark)
      BY <3>1, <3>2
    <3> QED BY <1>0, <3>1, <3>3
  <2>6. \A i \in DOMAIN ids : ids[i] > mark => i \in 1..c
    <3> SUFFICES ASSUME NEW i \in DOMAIN ids, ids[i] > mark, ~(i \in 1..c) PROVE FALSE
      OBVIOUS
    <3>1. i = l \/ l < i
      BY <1>0, <2>4
    <3>2. l \in DOMAIN ids /\ ids[l] \in Nat /\ ids[i] \in Nat
      BY <1>0, <2>4
    <3>3. l < i => ids[l] > ids[i]
      BY <3>2 DEF Descending
    <3> QED BY <2>4, <3>1, <3>2, <3>3
  <2>7. c \in 0..Len(ids)
    BY <2>4, <1>0
  <2> HIDE DEF c
  <2>8. /\ N \in Seq(Nat) /\ DOMAIN N = 1..c /\ Descending(N)
        /\ \A k \in 1..c : N[k] = ids[k]
    BY <2>1, <2>7, PrefixFacts
  <2>9. ids # <<>> => ~(Last(ids) > mark)
    <3> SUFFICES ASSUME ids # <<>>, Last(ids) > mark PROVE FALSE
      OBVIOUS
    <3>1. Len(ids) \in DOMAIN ids
      BY <1>0
    <3>2. Len(ids) \in 1..c
      BY <2>6, <3>1 DEF Last
    <3> QED BY <1>0, <2>4, <3>2 DEF c
  <2>10. 1..c \subseteq DOMAIN ids
    BY <1>0, <2>7, SMTT(40)
  <2> HIDE DEF N
  <2> QED BY <2>5, <2>6, <2>8, <2>9, <2>10 DEF N
<1> QED BY <1>1, <1>2

\* A list of ids put behind one of greater ids.
LEMMA JoinFacts ==
  ASSUME NEW s \in Seq(Nat), NEW t \in Seq(Nat), Descending(s), Descending(t),
         s # <<>> => \A k \in DOMAIN t : t[k] < Last(s)
  PROVE  /\ s \o t \in Seq(Nat)
         /\ Descending(s \o t)
         /\ \A i \in DOMAIN (s \o t) :
              \/ \E k \in DOMAIN s : (s \o t)[i] = s[k]
              \/ \E k \in DOMAIN t : (s \o t)[i] = t[k]
         /\ \A k \in DOMAIN s : \E i \in DOMAIN (s \o t) : (s \o t)[i] = s[k]
         /\ \A k \in DOMAIN t : \E i \in DOMAIN (s \o t) : (s \o t)[i] = t[k]
         /\ t # <<>> => Last(s \o t) = Last(t)
         /\ t = <<>> => s \o t = s
         /\ s # <<>> => s \o t # <<>> /\ Head(s \o t) = Head(s)
<1> DEFINE u == s \o t
<1>1. /\ u \in Seq(Nat) /\ Len(u) = Len(s) + Len(t)
      /\ DOMAIN u = 1..(Len(s) + Len(t)) /\ DOMAIN s = 1..Len(s) /\ DOMAIN t = 1..Len(t)
      /\ Len(s) \in Nat /\ Len(t) \in Nat
  OBVIOUS
<1>2. /\ \A i \in DOMAIN s : i \in DOMAIN u /\ u[i] = s[i]
      /\ \A i \in DOMAIN t : i + Len(s) \in DOMAIN u /\ u[i + Len(s)] = t[i]
      /\ \A i \in DOMAIN u : i \in DOMAIN s \/ i - Len(s) \in DOMAIN t
  BY SMTT(40)
<1>3. \A k \in DOMAIN s : s[k] \in Nat
  OBVIOUS
<1>4. \A k \in DOMAIN t : t[k] \in Nat
  OBVIOUS
<1>5. t = <<>> => u = s
  OBVIOUS
<1>6. s # <<>> => Len(s) >= 1
  OBVIOUS
<1>7. t # <<>> => Len(t) >= 1
  OBVIOUS
<1>8. s # <<>> => u # <<>> /\ Head(u) = s[1] /\ Head(s) = s[1]
  OBVIOUS
<1> HIDE DEF u
<1>9. \A k \in DOMAIN s : s # <<>> /\ s[k] >= Last(s)
  <2> SUFFICES ASSUME NEW k \in DOMAIN s PROVE s # <<>> /\ s[k] >= Last(s)
    OBVIOUS
  <2>1. s # <<>> /\ Len(s) \in DOMAIN s /\ (k = Len(s) \/ k < Len(s))
    BY <1>1
  <2> QED BY <2>1, <1>3 DEF Descending, Last
<1>10. Descending(u)
  <2> SUFFICES ASSUME NEW i \in DOMAIN u, NEW j \in DOMAIN u, i < j PROVE u[i] > u[j]
    BY DEF Descending
  <2>1. CASE j \in DOMAIN s
    <3>1. i \in DOMAIN s
      BY <1>1, <2>1
    <3> QED BY <1>2, <2>1, <3>1 DEF Descending
  <2>2. CASE i \in DOMAIN s /\ j \notin DOMAIN s
    <3>1. j - Len(s) \in DOMAIN t
      BY <1>2, <2>2
    <3>2. u[j] = t[j - Len(s)]
      <4>1. (j - Len(s)) + Len(s) = j
        BY <1>1
      <4> QED BY <1>2, <3>1, <4>1
    <3>3. s[i] >= Last(s) /\ t[j - Len(s)] < Last(s)
      BY <1>9, <2>2, <3>1
    <3>4. s[i] \in Nat /\ t[j - Len(s)] \in Nat /\ Last(s) \in Nat
      <4>1. s[i] \in Nat /\ t[j - Len(s)] \in Nat
        BY <1>3, <1>4, <2>2, <3>1
      <4>2. s # <<>>
        BY <1>9, <2>2
      <4>3. Len(s) \in DOMAIN s
        BY <1>1, <1>6, <4>2
      <4> QED BY <1>3, <4>1, <4>3 DEF Last
    <3> QED BY <1>2, <2>2, <3>2, <3>3, <3>4
  <2>3. CASE i \notin DOMAIN s
    <3>0. i \in Int /\ j \in Int /\ i <= j /\ i >= 1
      BY <1>1
    <3>1. i - Len(s) \in DOMAIN t /\ j - Len(s) \in DOMAIN t /\ i - Len(s) < j - Len(s)
      <4>1. ~(i <= Len(s))
        BY <1>1, <2>3, <3>0
      <4>2. ~(j <= Len(s))
        BY <1>1, <3>0, <4>1
      <4>3. i \notin DOMAIN s /\ j \notin DOMAIN s
        BY <1>1, <4>1, <4>2
      <4>4. i - Len(s) < j - Len(s)
        BY <1>1, <3>0
      <4> QED BY <1>2, <4>3, <4>4
    <3>2. (i - Len(s)) + Len(s) = i /\ (j - Len(s)) + Len(s) = j
      <4>1. Len(s) \in Int
        BY <1>1
      <4> QED BY <3>0, <4>1
    <3>3. u[i] = t[i - Len(s)] /\ u[j] = t[j - Len(s)]
      BY <1>2, <3>1, <3>2
    <3> QED BY <3>1, <3>3 DEF Descending
  <2> QED BY <2>1, <2>2, <2>3
<1>11. t # <<>> => Last(u) = Last(t)
  <2> SUFFICES ASSUME t # <<>> PROVE Last(u) = Last(t)
    OBVIOUS
  <2>1. Len(t) \in DOMAIN t
    BY <1>1, <1>7
  <2>2. u[Len(t) + Len(s)] = t[Len(t)]
    BY <1>2, <2>1
  <2>3. Len(u) = Len(t) + Len(s)
    BY <1>1
  <2> QED BY <2>2, <2>3 DEF Last
<1>12. \A i \in DOMAIN u : \/ \E k \in DOMAIN s : u[i] = s[k]
                           \/ \E k \in DOMAIN t : u[i] = t[k]
  <2> SUFFICES ASSUME NEW i \in DOMAIN u, i \notin DOMAIN s PROVE \E k \in DOMAIN t : u[i] = t[k]
    BY <1>2
  <2>1. i - Len(s) \in DOMAIN t /\ (i - Len(s)) + Len(s) = i
    BY <1>1, <1>2
  <2> QED BY <1>2, <2>1
<1>13. /\ \A k \in DOMAIN s : \E i \in DOMAIN u : u[i] = s[k]
       /\ \A k \in DOMAIN t : \E i \in DOMAIN u : u[i] = t[k]
  BY <1>2
<1> QED BY <1>1, <1>5, <1>8, <1>10, <1>11, <1>12, <1>13, ZenonT(30) DEF u

\* SetToSeq lists each member of a finite set once.
LEMMA SetToSeqFacts ==
  ASSUME NEW S, IsFiniteSet(S)
  PROVE  /\ SetToSeq(S) \in Seq(S)
         /\ \A i, j \in DOMAIN SetToSeq(S) : SetToSeq(S)[i] = SetToSeq(S)[j] => i = j
         /\ \A x \in S : \E i \in DOMAIN SetToSeq(S) : SetToSeq(S)[i] = x
<1> DEFINE n == Cardinality(S)
           D == 1..n
           q == SetToSeq(S)
<1>1. n \in Nat /\ ExistsBijection(D, S)
  BY FS_CardinalityType
<1>2. PICK f : f \in Bijection(D, S)
  BY <1>1 DEF ExistsBijection
<1>3. f \in [D -> S] /\ IsInjective(f)
  BY <1>2, Zenon DEF Bijection, Injection
<1>4. q \in [D -> S] /\ IsInjective(q)
  BY <1>3, Zenon DEF SetToSeq
<1> HIDE DEF q
<1>5. q \in Injection(D, S)
  BY <1>4, Zenon DEF Injection
<1>6. Cardinality(D) = n
  <2> HIDE DEF n
  <2> QED BY <1>1, FS_Interval
<1>7. q \in Surjection(D, S)
  <2> HIDE DEF D
  <2> QED BY <1>5, <1>6, FS_Injection
<1>8. \A x \in S : \E i \in D : q[i] = x
  BY <1>7, Zenon DEF Surjection
<1>9. q \in Seq(S) /\ DOMAIN q = D
  BY <1>1, <1>4
<1>10. \A i, j \in D : q[i] = q[j] => i = j
  BY <1>4, <1>9, Zenon DEF IsInjective
<1> HIDE DEF D
<1> QED BY <1>8, <1>9, <1>10, Zenon DEF q
-----------------------------------------------------------------------------
(***************************************************************************)
(* The invariant.                                                          *)
(***************************************************************************)
\* What the server sends of its own accord or for a sent message.
IsNews(m) == m.type \in {"new", "sent"}

\* A request for, or a part of, the history of the dialog with p.
AsksFor(m, p) == m.type = "history" /\ m.peer = p

Asked(p) == \E m \in Elems(requests) \cup Elems(wire) : AsksFor(m, p)
AskedPeers == {p \in Peers : Asked(p)}

OnWire(id) == \E m \in Elems(wire) : IsNews(m) /\ m.id = id
Held(p, id) == \E k \in DOMAIN state[p].pendingIds : state[p].pendingIds[k] = id

\* Two messages that are not about the same piece of work.
Apart(m, n) ==
  /\ ~(m.type = "history" /\ n.type = "history" /\ m.peer = n.peer)
  /\ ~(m.type = "dialogs" /\ n.type = "dialogs")

\* The server sends n after m: h is its post box.
Turn(h, m, n) ==
  /\ IsNews(m) /\ IsNews(n) => m.id < n.id
  /\ m.type = "dialogs" /\ IsNews(n) => m.top[h[n.id]] < n.id
  /\ IsNews(m) /\ n.type = "dialogs" => m.id <= n.top[h[m.id]]

AllApart(s) == \A i, j \in DOMAIN s : i < j => Apart(s[i], s[j])
InTurn(h, s) == \A i, j \in DOMAIN s : i < j => Turn(h, s[i], s[j])

Request ==
  [type : {"dialogs"}] \cup [type : {"send"}, peer : Peers]
  \cup [type : {"history"}, peer : Peers, offsetId : Nat, limit : Nat, minId : Nat]
Message ==
  [type : {"new", "sent"}, id : Nat] \cup [type : {"history"}, peer : Peers, ids : Seq(Nat)]
  \cup [type : {"dialogs"}, top : [Peers -> Nat]]
DialogState == [syncedMessageId : Nat, synced : BOOLEAN, pendingIds : Seq(Nat)]

Types ==
  /\ history \in Seq(Peers) /\ requests \in Seq(Request) /\ wire \in Seq(Message)
  /\ online \in BOOLEAN /\ limit \in Nat /\ sync \in {"notStarted", "inProgress", "finished"}
  /\ jobs \in Nat /\ listed \in BOOLEAN
  /\ top \in [Peers -> Nat] /\ state \in [Peers -> DialogState]
  /\ saved \in [Peers -> Nat] /\ saves \in Nat /\ disturbed \in BOOLEAN

\* The messages a dialog holds and its marks are messages of the dialog.
Dialogs ==
  \A p \in Peers :
    /\ Descending(state[p].pendingIds)
    /\ \A i \in DOMAIN state[p].pendingIds :
         state[p].pendingIds[i] \in Ids(p) /\ state[p].pendingIds[i] <= top[p]
    /\ state[p].synced => state[p].pendingIds = <<>>
    /\ state[p].syncedMessageId \in Ids(p) \cup {0}
    /\ saved[p] \in Ids(p) \cup {0}
    /\ top[p] \in Ids(p) \cup {0}

\* What is on its way is newer than what the client knows of the dialog.
News ==
  \A m \in Elems(wire) :
    /\ IsNews(m) =>
         /\ m.id \in DOMAIN history
         /\ m.id > top[history[m.id]]
         /\ m.id > state[history[m.id]].syncedMessageId
    /\ m.type = "dialogs" => \A p \in Peers : m.top[p] \in Ids(p) \cup {0}

\* Requests and answers are about different dialogs, and the answers come in the
\* order in which the server has made them.
Order ==
  /\ AllApart(requests) /\ AllApart(wire)
  /\ \A r \in Elems(requests), m \in Elems(wire) : Apart(r, m)
  /\ InTurn(history, wire)

\* What has been given is older than all the dialog holds, and not newer than its mark.
Given ==
  /\ repeated = {}
  /\ \A id \in delivered :
       /\ id \in DOMAIN history
       /\ id <= state[history[id]].syncedMessageId
       /\ \A i \in DOMAIN state[history[id]].pendingIds :
            id < state[history[id]].pendingIds[i]

Phase ==
  /\ ~online => requests = <<>> /\ wire = <<>>
  /\ ~listed => sync = "notStarted"
  /\ sync = "notStarted" =>
       \A p \in Peers : state[p].pendingIds = <<>> /\ ~state[p].synced
  /\ listed => \A m \in Elems(requests) \cup Elems(wire) : m.type # "dialogs"

Counted ==
  /\ jobs = Cardinality(AskedPeers)
  /\ sync = "inProgress" <=> jobs > 0

\* A request names the oldest message its dialog holds, and the answer goes on from there.
Asks ==
  /\ \A p \in Peers : Asked(p) => ~state[p].synced /\ state[p].pendingIds # <<>>
  /\ \A r \in Elems(requests) : r.type = "history" =>
       /\ r.offsetId = Last(state[r.peer].pendingIds)
       /\ r.limit >= 1
       /\ r.minId <= state[r.peer].syncedMessageId
  /\ \A m \in Elems(wire) : m.type = "history" =>
       /\ Descending(m.ids)
       /\ \A k \in DOMAIN m.ids :
            m.ids[k] \in Ids(m.peer) /\ m.ids[k] < Last(state[m.peer].pendingIds)

Base == Types /\ Dialogs /\ News /\ Order /\ Given /\ Phase /\ Counted /\ Asks

\* Every message of the dialogs that the list names, or that are new, is accounted for:
\* given to the application, held, on its way, or going to be asked for.
DialogsWhole ==
  sync # "notStarted" =>
    \A p \in Peers \ omitted :
      /\ state[p].synced \/ Asked(p) \/ state[p] = NewState
      /\ \A id \in Ids(p) :
           \/ id <= state[p].syncedMessageId
           \/ Held(p, id)
           \/ Asked(p) /\ id < Last(state[p].pendingIds)
           \/ OnWire(id)

\* The same of the list of dialogs on its way, of the list received, and of a part of
\* a history.
ListSent ==
  \A m \in Elems(wire) : m.type = "dialogs" =>
    \A p \in Peers :
      /\ state[p].syncedMessageId # 0 => m.top[p] # 0
      /\ \A id \in Ids(p) : id <= m.top[p] \/ OnWire(id)

ListWhole ==
  listed /\ sync = "notStarted" =>
    \A p \in Peers :
      /\ state[p].syncedMessageId # 0 => top[p] # 0
      /\ \A id \in Ids(p) : id <= top[p] \/ OnWire(id)

AnswerWhole ==
  \A m \in Elems(wire) : m.type = "history" =>
    \A id \in Ids(m.peer) :
      \/ id <= state[m.peer].syncedMessageId
      \/ id >= Last(state[m.peer].pendingIds)
      \/ \E k \in DOMAIN m.ids : m.ids[k] = id
      \/ m.ids # <<>> /\ id < Last(m.ids)

\* A dialog that the list has left out stays as it was: not synchronized, and its mark,
\* when it has one, where the last run has put it.
LeftOut ==
  \A p \in Peers : p \in omitted =>
    /\ ~Asked(p)
    /\ p \in forgone \/ (state[p].synced = FALSE /\ state[p].syncedMessageId # 0)

\* Nothing up to a mark is missed, and the mark is a message that has been given.
MarksGiven ==
  /\ NothingMissed
  /\ \A p \in Peers : /\ state[p].syncedMessageId \in delivered \cup {0}
                      /\ saved[p] \in delivered \cup {0}

Whole ==
  ~disturbed => /\ listed => online
                /\ DialogsWhole /\ ListSent /\ ListWhole /\ AnswerWhole /\ LeftOut /\ MarksGiven

SyncInv == Base /\ Whole

\* What a step may give: only what is newer than all the dialog has given before.
InOrder ==
  \A new \in delivered' \ delivered, old \in delivered :
    (old \in delivered' /\ history[new] = history[old]) => new > old
-----------------------------------------------------------------------------
(***************************************************************************)
(* Requests and messages in their queues.                                  *)
(***************************************************************************)
\* The fields of a request and of a message.
LEMMA Fields ==
  /\ \A r \in Request :
       /\ r.type \in {"dialogs", "send", "history"}
       /\ r.type = "send" => r.peer \in Peers
       /\ r.type = "history" =>
            r.peer \in Peers /\ r.offsetId \in Nat /\ r.limit \in Nat /\ r.minId \in Nat
  /\ \A m \in Message :
       /\ m.type \in {"new", "sent", "history", "dialogs"}
       /\ IsNews(m) => m.id \in Nat
       /\ m.type = "history" => m.peer \in Peers /\ m.ids \in Seq(Nat)
       /\ m.type = "dialogs" => m.top \in [Peers -> Nat]
<1>1. ASSUME NEW r \in Request
      PROVE  /\ r.type \in {"dialogs", "send", "history"}
             /\ r.type = "send" => r.peer \in Peers
             /\ r.type = "history" =>
                  r.peer \in Peers /\ r.offsetId \in Nat /\ r.limit \in Nat /\ r.minId \in Nat
  BY DEF Request
<1>2. ASSUME NEW m \in Message
      PROVE  /\ m.type \in {"new", "sent", "history", "dialogs"}
             /\ IsNews(m) => m.id \in Nat
             /\ m.type = "history" => m.peer \in Peers /\ m.ids \in Seq(Nat)
             /\ m.type = "dialogs" => m.top \in [Peers -> Nat]
  BY DEF Message, IsNews
<1> QED BY <1>1, <1>2

\* The changes of one field of the state of a dialog.
LEMMA StateUpdates ==
  ASSUME NEW st \in DialogState
  PROVE  /\ \A x \in Nat :
              /\ [st EXCEPT !.syncedMessageId = x] \in DialogState
              /\ [st EXCEPT !.syncedMessageId = x].syncedMessageId = x
              /\ [st EXCEPT !.syncedMessageId = x].synced = st.synced
              /\ [st EXCEPT !.syncedMessageId = x].pendingIds = st.pendingIds
         /\ \A ids \in Seq(Nat) :
              /\ [st EXCEPT !.pendingIds = ids] \in DialogState
              /\ [st EXCEPT !.pendingIds = ids].syncedMessageId = st.syncedMessageId
              /\ [st EXCEPT !.pendingIds = ids].synced = st.synced
              /\ [st EXCEPT !.pendingIds = ids].pendingIds = ids
         /\ \A x \in Nat :
              /\ [st EXCEPT !.synced = TRUE, !.syncedMessageId = x] \in DialogState
              /\ [st EXCEPT !.synced = TRUE, !.syncedMessageId = x].syncedMessageId = x
              /\ [st EXCEPT !.synced = TRUE, !.syncedMessageId = x].synced = TRUE
              /\ [st EXCEPT !.synced = TRUE, !.syncedMessageId = x].pendingIds = st.pendingIds
BY DEF DialogState

\* The empty queue.
LEMMA EmptyQueue ==
  /\ Elems(<<>>) = {} /\ AllApart(<<>>) /\ \A h : InTurn(h, <<>>)
BY DEF Elems, AllApart, InTurn

\* A message put at the end of a queue.
LEMMA QueueAppend ==
  ASSUME NEW S, NEW s \in Seq(S), NEW m \in S
  PROVE  /\ Append(s, m) \in Seq(S)
         /\ Elems(Append(s, m)) = Elems(s) \cup {m}
         /\ AllApart(s) /\ (\A e \in Elems(s) : Apart(e, m)) => AllApart(Append(s, m))
         /\ \A h : InTurn(h, s) /\ (\A e \in Elems(s) : Turn(h, e, m)) => InTurn(h, Append(s, m))
<1> DEFINE t == Append(s, m)
           n == Len(s) + 1
<1>1. t \in Seq(S) /\ DOMAIN t = DOMAIN s \cup {n} /\ t[n] = m
  OBVIOUS
<1>2. \A i \in DOMAIN s : t[i] = s[i] /\ i < n /\ i \in Nat /\ ~(n < i)
  OBVIOUS
<1>3. n \in Nat
  OBVIOUS
<1> HIDE DEF t, n
<1>4. Elems(t) = Elems(s) \cup {m}
  BY <1>1, <1>2, ZenonT(60) DEF Elems
<1>5. \A i \in DOMAIN s : s[i] \in Elems(s)
  BY Zenon DEF Elems
<1>6. ASSUME NEW i \in DOMAIN t, NEW j \in DOMAIN t, i < j
      PROVE  /\ i \in DOMAIN s /\ t[i] = s[i]
             /\ (j \in DOMAIN s /\ t[j] = s[j]) \/ t[j] = m
  <2>1. i # n
    BY <1>1, <1>2, <1>3, <1>6
  <2> QED BY <1>1, <1>2, <2>1
<1>7. ASSUME AllApart(s), \A e \in Elems(s) : Apart(e, m) PROVE AllApart(t)
  BY <1>5, <1>6, <1>7, Zenon DEF AllApart
<1>8. ASSUME NEW h, InTurn(h, s), \A e \in Elems(s) : Turn(h, e, m) PROVE InTurn(h, t)
  BY <1>5, <1>6, <1>8, Zenon DEF InTurn
<1> QED BY <1>1, <1>4, <1>7, <1>8 DEF t

\* The head of a queue taken off.
LEMMA QueueTail ==
  ASSUME NEW S, NEW s \in Seq(S), s # <<>>
  PROVE  /\ Tail(s) \in Seq(S) /\ Head(s) \in S
         /\ Elems(s) = {Head(s)} \cup Elems(Tail(s))
         /\ AllApart(s) => AllApart(Tail(s)) /\ \A e \in Elems(Tail(s)) : Apart(Head(s), e)
         /\ \A h : InTurn(h, s) => InTurn(h, Tail(s)) /\ \A e \in Elems(Tail(s)) : Turn(h, Head(s), e)
<1> DEFINE t == Tail(s)
<1>1. t \in Seq(S) /\ Head(s) \in S /\ 1 \in DOMAIN s /\ Head(s) = s[1]
  OBVIOUS
<1>2. \A i \in DOMAIN t : t[i] = s[i + 1] /\ i + 1 \in DOMAIN s /\ 1 < i + 1 /\ i \in Nat
  OBVIOUS
<1>9. Len(t) = Len(s) - 1
  <2>1. Len(s) >= 1 /\ Len(s) \in Nat
    OBVIOUS
  <2> QED BY <2>1
<1>3. \A i \in DOMAIN s : i = 1 \/ (i - 1 \in DOMAIN t /\ s[i] = t[i - 1])
  <2> SUFFICES ASSUME NEW i \in DOMAIN s, i # 1 PROVE i - 1 \in DOMAIN t /\ s[i] = t[i - 1]
    OBVIOUS
  <2>1. i \in 1..Len(s) /\ DOMAIN t = 1..(Len(s) - 1) /\ Len(s) \in Nat
    <3>1. DOMAIN t = 1..Len(t)
      <4> HIDE DEF t
      <4> QED BY <1>1
    <3> QED BY <1>9, <3>1
  <2>2. i - 1 \in DOMAIN t /\ (i - 1) + 1 = i
    BY <2>1
  <2>3. t[i - 1] = s[(i - 1) + 1]
    BY <1>2, <2>2
  <2> QED BY <2>2, <2>3
<1> HIDE DEF t
<1>4. Elems(s) = {Head(s)} \cup Elems(t)
  <2>1. ASSUME NEW x \in Elems(s) PROVE x \in {Head(s)} \cup Elems(t)
    <3>1. PICK i \in DOMAIN s : x = s[i]
      BY Zenon DEF Elems
    <3> QED BY <1>1, <1>3, <3>1 DEF Elems
  <2>2. ASSUME NEW x \in Elems(t) PROVE x \in Elems(s)
    <3>1. PICK i \in DOMAIN t : x = t[i]
      BY Zenon DEF Elems
    <3> QED BY <1>2, <3>1, Zenon DEF Elems
  <2>3. Head(s) \in Elems(s)
    BY <1>1, Zenon DEF Elems
  <2> QED BY <2>1, <2>2, <2>3
<1>5. \A i, j \in DOMAIN t : i < j => i + 1 < j + 1
  BY <1>2
<1>6. ASSUME AllApart(s) PROVE AllApart(t) /\ \A e \in Elems(t) : Apart(Head(s), e)
  <2>1. AllApart(t)
    BY <1>2, <1>5, <1>6 DEF AllApart
  <2>2. ASSUME NEW i \in DOMAIN t PROVE Apart(Head(s), t[i])
    BY <1>1, <1>2, <1>6 DEF AllApart
  <2> QED BY <2>1, <2>2 DEF Elems
<1>7. ASSUME NEW h, InTurn(h, s) PROVE InTurn(h, t) /\ \A e \in Elems(t) : Turn(h, Head(s), e)
  <2>1. InTurn(h, t)
    BY <1>2, <1>5, <1>7 DEF InTurn
  <2>2. ASSUME NEW i \in DOMAIN t PROVE Turn(h, Head(s), t[i])
    BY <1>1, <1>2, <1>7 DEF InTurn
  <2> QED BY <2>1, <2>2 DEF Elems
<1> QED BY <1>1, <1>4, <1>6, <1>7 DEF t

\* A queue put behind another one.
LEMMA QueueJoin ==
  ASSUME NEW S, NEW s \in Seq(S), NEW t \in Seq(S)
  PROVE  /\ s \o t \in Seq(S)
         /\ Elems(s \o t) = Elems(s) \cup Elems(t)
         /\ AllApart(s) /\ AllApart(t) /\ (\A e \in Elems(s), f \in Elems(t) : Apart(e, f))
              => AllApart(s \o t)
<1> DEFINE u == s \o t
<1>1. /\ u \in Seq(S) /\ DOMAIN u = 1..(Len(s) + Len(t))
      /\ DOMAIN s = 1..Len(s) /\ DOMAIN t = 1..Len(t) /\ Len(s) \in Nat /\ Len(t) \in Nat
  OBVIOUS
<1>2. /\ \A i \in DOMAIN s : i \in DOMAIN u /\ u[i] = s[i]
      /\ \A i \in DOMAIN t : i + Len(s) \in DOMAIN u /\ u[i + Len(s)] = t[i]
  OBVIOUS
<1>3. \A i \in DOMAIN u :
        \/ i \in DOMAIN s /\ i <= Len(s) /\ u[i] = s[i]
        \/ i - Len(s) \in DOMAIN t /\ Len(s) < i /\ u[i] = t[i - Len(s)]
  OBVIOUS
<1> HIDE DEF u
<1>4. Elems(u) = Elems(s) \cup Elems(t)
  <2>1. ASSUME NEW x \in Elems(u) PROVE x \in Elems(s) \cup Elems(t)
    <3>1. PICK i \in DOMAIN u : x = u[i]
      BY Zenon DEF Elems
    <3> QED BY <1>3, <3>1, Zenon DEF Elems
  <2>2. ASSUME NEW x \in Elems(s) PROVE x \in Elems(u)
    BY <1>2, Zenon DEF Elems
  <2>3. ASSUME NEW x \in Elems(t) PROVE x \in Elems(u)
    BY <1>2, Zenon DEF Elems
  <2> QED BY <2>1, <2>2, <2>3
<1>5. ASSUME AllApart(s), AllApart(t), \A e \in Elems(s), f \in Elems(t) : Apart(e, f)
      PROVE  AllApart(u)
  <2> SUFFICES ASSUME NEW i \in DOMAIN u, NEW j \in DOMAIN u, i < j PROVE Apart(u[i], u[j])
    BY DEF AllApart
  <2>0. i \in Int /\ j \in Int /\ Len(s) \in Int
    BY <1>1
  <2>1. CASE i <= Len(s) /\ j <= Len(s)
    <3>1. i \in DOMAIN s /\ j \in DOMAIN s /\ u[i] = s[i] /\ u[j] = s[j]
      BY <1>3, <2>0, <2>1
    <3> QED BY <1>5, <3>1 DEF AllApart
  <2>2. CASE i <= Len(s) /\ Len(s) < j
    <3>1. i \in DOMAIN s /\ j - Len(s) \in DOMAIN t /\ u[i] = s[i] /\ u[j] = t[j - Len(s)]
      BY <1>3, <2>0, <2>2
    <3>2. u[i] \in Elems(s) /\ u[j] \in Elems(t)
      BY <3>1, Zenon DEF Elems
    <3> QED BY <1>5, <3>2
  <2>3. CASE Len(s) < i
    <3>1. /\ i - Len(s) \in DOMAIN t /\ j - Len(s) \in DOMAIN t
          /\ u[i] = t[i - Len(s)] /\ u[j] = t[j - Len(s)]
      BY <1>3, <2>0, <2>3
    <3>2. i - Len(s) < j - Len(s)
      BY <2>0
    <3> QED BY <1>5, <3>1, <3>2 DEF AllApart
  <2> QED BY <2>0, <2>1, <2>2, <2>3
<1> QED BY <1>1, <1>4, <1>5 DEF u

\* The members of a queue.
LEMMA QueueMembers ==
  ASSUME NEW S, NEW s \in Seq(S)
  PROVE  Elems(s) \subseteq S
BY DEF Elems
-----------------------------------------------------------------------------
(***************************************************************************)
(* What a step leaves alone keeps its part of the invariant.               *)
(***************************************************************************)
\* The facts that follow from the types.
LEMMA TypeFacts ==
  ASSUME Types
  PROVE  /\ Len(history) \in Nat /\ DOMAIN history = 1..Len(history)
         /\ \A id \in DOMAIN history :
              /\ id \in Nat /\ id # 0 /\ id <= Len(history)
              /\ history[id] \in Peers /\ id \in Ids(history[id])
         /\ \A p : \A id \in Ids(p) : id \in DOMAIN history /\ history[id] = p
         /\ \A p \in Peers :
              /\ state[p] \in DialogState
              /\ state[p].syncedMessageId \in Nat /\ state[p].synced \in BOOLEAN
              /\ state[p].pendingIds \in Seq(Nat)
              /\ top[p] \in Nat /\ saved[p] \in Nat
         /\ \A r \in Elems(requests) : r \in Request
         /\ \A m \in Elems(wire) : m \in Message
<1>1. Len(history) \in Nat /\ DOMAIN history = 1..Len(history)
  BY DEF Types
<1>2. \A id \in DOMAIN history : /\ id \in Nat /\ id # 0 /\ id <= Len(history)
                                 /\ history[id] \in Peers /\ id \in Ids(history[id])
  <2>1. \A id \in DOMAIN history : history[id] \in Peers
    BY DEF Types
  <2>2. \A id \in DOMAIN history : id \in Nat /\ id # 0 /\ id <= Len(history)
    BY <1>1
  <2> QED BY <2>1, <2>2 DEF Ids
<1>3. \A p \in Peers :
        /\ state[p] \in DialogState
        /\ state[p].syncedMessageId \in Nat /\ state[p].synced \in BOOLEAN
        /\ state[p].pendingIds \in Seq(Nat)
        /\ top[p] \in Nat /\ saved[p] \in Nat
  BY DEF Types, DialogState
<1>4. /\ \A r \in Elems(requests) : r \in Request
      /\ \A m \in Elems(wire) : m \in Message
  BY QueueMembers DEF Types
<1> QED BY <1>1, <1>2, <1>3, <1>4 DEF Ids

\* Asked and OnWire depend on the queues alone, and so on.
LEMMA FrameFlow ==
  /\ UNCHANGED <<requests, wire>> =>
       (\A p : Asked(p)' <=> Asked(p)) /\ AskedPeers' = AskedPeers
  /\ UNCHANGED wire => \A id : OnWire(id)' <=> OnWire(id)
  /\ UNCHANGED history => \A p : Ids(p)' = Ids(p)
  /\ UNCHANGED state => \A p, id : Held(p, id)' <=> Held(p, id)
BY DEF Asked, AskedPeers, OnWire, Ids, Held

\* The parts of Base.
LEMMA FrameBase ==
  /\ Dialogs /\ UNCHANGED <<history, state, top, saved>> => Dialogs'
  /\ News /\ UNCHANGED <<wire, history, top, state>> => News'
  /\ Order /\ UNCHANGED <<requests, wire, history>> => Order'
  /\ Given /\ UNCHANGED <<repeated, delivered, history, state>> => Given'
  /\ Phase /\ UNCHANGED <<online, requests, wire, listed, sync, state>> => Phase'
  /\ Counted /\ UNCHANGED <<jobs, sync, requests, wire>> => Counted'
  /\ Asks /\ UNCHANGED <<requests, wire, state, history>> => Asks'
<1>1. Dialogs /\ UNCHANGED <<history, state, top, saved>> => Dialogs'
  BY DEF Dialogs, Ids
<1>2. News /\ UNCHANGED <<wire, history, top, state>> => News'
  BY DEF News, Ids
<1>3. Order /\ UNCHANGED <<requests, wire, history>> => Order'
  BY DEF Order
<1>4. Given /\ UNCHANGED <<repeated, delivered, history, state>> => Given'
  BY DEF Given
<1>5. Phase /\ UNCHANGED <<online, requests, wire, listed, sync, state>> => Phase'
  BY DEF Phase
<1>6. Counted /\ UNCHANGED <<jobs, sync, requests, wire>> => Counted'
  BY DEF Counted, AskedPeers, Asked
<1>7. Asks /\ UNCHANGED <<requests, wire, state, history>> => Asks'
  BY DEF Asks, Asked, Ids
<1> QED BY <1>1, <1>2, <1>3, <1>4, <1>5, <1>6, <1>7

\* The parts of Whole.
LEMMA FrameWhole ==
  /\ DialogsWhole /\ UNCHANGED <<sync, state, requests, wire, history, omitted>> => DialogsWhole'
  /\ ListSent /\ UNCHANGED <<wire, state, history>> => ListSent'
  /\ ListWhole /\ UNCHANGED <<listed, sync, state, top, history, wire>> => ListWhole'
  /\ AnswerWhole /\ UNCHANGED <<wire, state, history>> => AnswerWhole'
  /\ LeftOut /\ UNCHANGED <<state, omitted, forgone>> /\ (\A p : Asked(p)' => Asked(p)) => LeftOut'
  /\ LeftOut /\ UNCHANGED <<requests, wire, state, omitted, forgone>> => LeftOut'
  /\ MarksGiven /\ UNCHANGED <<disturbed, history, state, saved, delivered, forgone>> => MarksGiven'
<1>1. DialogsWhole /\ UNCHANGED <<sync, state, requests, wire, history, omitted>> => DialogsWhole'
  BY DEF DialogsWhole, Asked, OnWire, Held, Ids
<1>2. ListSent /\ UNCHANGED <<wire, state, history>> => ListSent'
  BY DEF ListSent, OnWire, Ids
<1>3. ListWhole /\ UNCHANGED <<listed, sync, state, top, history, wire>> => ListWhole'
  BY DEF ListWhole, OnWire, Ids
<1>4. AnswerWhole /\ UNCHANGED <<wire, state, history>> => AnswerWhole'
  BY DEF AnswerWhole, Ids
<1>5. LeftOut /\ UNCHANGED <<state, omitted, forgone>> /\ (\A p : Asked(p)' => Asked(p)) => LeftOut'
  BY DEF LeftOut
<1>6. LeftOut /\ UNCHANGED <<requests, wire, state, omitted, forgone>> => LeftOut'
  BY DEF LeftOut, Asked
<1>7. MarksGiven /\ UNCHANGED <<disturbed, history, state, saved, delivered, forgone>> => MarksGiven'
  BY DEF MarksGiven, NothingMissed
<1> QED BY <1>1, <1>2, <1>3, <1>4, <1>5, <1>6, <1>7
-----------------------------------------------------------------------------
(***************************************************************************)
(* Every step keeps the invariant.                                         *)
(***************************************************************************)
\* The initial states.
LEMMA InitSyncInv == Init => SyncInv
<1> SUFFICES ASSUME Init PROVE SyncInv
  OBVIOUS
<1> USE EmptyQueue DEF Init
<1>1. NewState \in DialogState
  BY DEF NewState, DialogState
<1>2. Types
  <2>1. <<>> \in Seq(Peers) /\ <<>> \in Seq(Request) /\ <<>> \in Seq(Message)
    OBVIOUS
  <2> QED BY <1>1, <2>1 DEF Types
<1>3. Dialogs
  BY DEF Dialogs, NewState, Descending
<1>4. News /\ Order /\ Given
  BY DEF News, Order, Given
<1>5. Phase
  BY DEF Phase, NewState
<1>6. AskedPeers = {}
  BY DEF AskedPeers, Asked
<1>7. Counted
  BY <1>6, FS_EmptySet DEF Counted
<1>8. Asks
  BY DEF Asks, Asked
<1>9. Whole
  BY DEF Whole, DialogsWhole, ListSent, ListWhole, AnswerWhole, LeftOut, MarksGiven,
         NothingMissed, NewState
<1> QED BY <1>2, <1>3, <1>4, <1>5, <1>7, <1>8, <1>9 DEF SyncInv, Base

\* A step that changes nothing.
LEMMA StutterSyncInv == SyncInv /\ UNCHANGED vars => SyncInv'
<1> SUFFICES ASSUME SyncInv, UNCHANGED vars PROVE SyncInv'
  OBVIOUS
<1>1. Types'
  BY DEF SyncInv, Base, Types, vars
<1> QED BY <1>1, FrameBase, FrameWhole DEF SyncInv, Base, Whole, vars, listVars

\* saveState writes marks that stand for messages given to the application.
LEMMA SaveSyncInv == SyncInv /\ Save => SyncInv'
<1> SUFFICES ASSUME SyncInv, Save PROVE SyncInv'
  OBVIOUS
<1> USE DEF netVars, clientVars, givenVars, listVars
<1>0. Types /\ Dialogs
  BY DEF SyncInv, Base
<1>1. Types'
  BY <1>0, TypeFacts DEF Types, Save
<1>2. Dialogs'
  <2> SUFFICES ASSUME NEW p \in Peers
               PROVE  /\ Descending(state[p].pendingIds)
                      /\ \A i \in DOMAIN state[p].pendingIds :
                           state[p].pendingIds[i] \in Ids(p) /\ state[p].pendingIds[i] <= top[p]
                      /\ state[p].synced => state[p].pendingIds = <<>>
                      /\ state[p].syncedMessageId \in Ids(p) \cup {0}
                      /\ saved'[p] \in Ids(p) \cup {0}
                      /\ top[p] \in Ids(p) \cup {0}
    BY DEF Dialogs, Ids, Save
  <2> QED BY <1>0 DEF Dialogs, Save
<1>3. Base'
  BY <1>1, <1>2, FrameBase DEF SyncInv, Base, Save
<1>4. MarksGiven => MarksGiven'
  <2>1. \A id \in DOMAIN history : saved'[history[id]] = state[history[id]].syncedMessageId
    BY <1>0, TypeFacts DEF Save
  <2>2. \A p \in Peers : saved'[p] = state[p].syncedMessageId
    BY DEF Save
  <2> QED BY <2>1, <2>2 DEF MarksGiven, NothingMissed, Save
<1>5. Whole'
  BY <1>4, FrameWhole DEF SyncInv, Whole, Save
<1> QED BY <1>3, <1>5 DEF SyncInv

\* The connection is there again.
LEMMA ReconnectedSyncInv == SyncInv /\ Reconnected => SyncInv'
<1> SUFFICES ASSUME SyncInv, Reconnected PROVE SyncInv'
  OBVIOUS
<1> USE DEF clientVars, givenVars, savedVars, listVars
<1>1. Types'
  BY DEF SyncInv, Base, Types, Reconnected
<1>2. Phase'
  BY DEF SyncInv, Base, Phase, Reconnected
<1>3. Base'
  BY <1>1, <1>2, FrameBase DEF SyncInv, Base, Reconnected
<1>4. Whole'
  BY FrameWhole DEF SyncInv, Whole, Reconnected
<1> QED BY <1>3, <1>4 DEF SyncInv

\* The application asks for the list of dialogs.
LEMMA StartSyncInv == ASSUME NEW value \in SyncLimits PROVE SyncInv /\ Start(value) => SyncInv'
<1> SUFFICES ASSUME SyncInv, Start(value) PROVE SyncInv'
  OBVIOUS
<1> USE DEF givenVars, savedVars, listVars
<1>0. requests = <<>> /\ wire = <<>> /\ Elems(wire) = {} /\ Elems(requests) = {}
  BY EmptyQueue DEF SyncInv, Base, Phase, Start
<1> DEFINE r == [type |-> "dialogs"]
<1>1. requests' = <<r>> /\ r.type = "dialogs" /\ r \in Request /\ wire' = <<>>
  BY <1>0 DEF Start, Request
<1> HIDE DEF r
<1>2. Elems(requests') = {r} /\ requests' \in Seq(Request) /\ AllApart(requests')
  <2> DEFINE none == <<>>
  <2>1. requests' = Append(none, r) /\ none \in Seq(Request)
    BY <1>1
  <2>2. Elems(none) = {} /\ AllApart(none)
    BY EmptyQueue
  <2> HIDE DEF none
  <2>3. r \in Request
    BY <1>1
  <2>4. /\ Append(none, r) \in Seq(Request)
        /\ Elems(Append(none, r)) = Elems(none) \cup {r}
        /\ AllApart(Append(none, r))
    BY <2>1, <2>2, <2>3, QueueAppend
  <2> QED BY <2>1, <2>2, <2>4
<1>3. Types'
  BY <1>2, SyncAssumption DEF SyncInv, Base, Types, Start
<1>4. Order'
  BY <1>0, <1>1, <1>2, EmptyQueue DEF Order
<1>5. Phase'
  BY <1>1 DEF SyncInv, Base, Phase, Start
<1>6. \A p : ~Asked(p) /\ ~Asked(p)'
  <2>1. \A p : ~Asked(p)
    BY <1>0 DEF Asked
  <2>2. \A p : ~Asked(p)'
    BY <1>0, <1>1, <1>2 DEF Asked, AsksFor
  <2> QED BY <2>1, <2>2
<1>7. Counted'
  <2>1. AskedPeers' = AskedPeers
    BY <1>6, Zenon DEF AskedPeers
  <2> QED BY <2>1 DEF SyncInv, Base, Counted, Start
<1>8. Asks'
  BY <1>0, <1>1, <1>2, <1>6, EmptyQueue DEF Asks
<1>9. Base'
  BY <1>3, <1>4, <1>5, <1>7, <1>8, FrameBase DEF SyncInv, Base, Start
<1>10. Whole'
  <2>1. DialogsWhole'
    BY DEF DialogsWhole, Start
  <2>2. LeftOut => LeftOut'
    BY <1>6, FrameWhole DEF Start
  <2> QED BY <2>1, <2>2, FrameWhole DEF SyncInv, Whole, Start
<1> QED BY <1>9, <1>10 DEF SyncInv

\* The user sends a message.
LEMMA SendSyncInv == ASSUME NEW p \in Peers PROVE SyncInv /\ Send(p) => SyncInv'
<1> SUFFICES ASSUME SyncInv, Send(p) PROVE SyncInv'
  OBVIOUS
<1> USE DEF clientVars, givenVars, savedVars, listVars
<1> DEFINE r == [type |-> "send", peer |-> p]
<1>1. requests' = Append(requests, r) /\ r.type = "send" /\ r \in Request
  BY DEF Send, Request
<1> HIDE DEF r
<1>2. \A m : Apart(m, r) /\ Apart(r, m)
  BY <1>1 DEF Apart
<1>3. /\ requests' \in Seq(Request) /\ Elems(requests') = Elems(requests) \cup {r}
      /\ AllApart(requests')
  BY <1>1, <1>2, QueueAppend DEF SyncInv, Base, Types, Order
<1>4. Types'
  BY <1>3 DEF SyncInv, Base, Types, Send
<1>5. Order'
  BY <1>2, <1>3 DEF SyncInv, Base, Order, Send
<1>6. Phase'
  BY <1>1, <1>3 DEF SyncInv, Base, Phase, Send
<1>7. /\ \A q : Asked(q)' <=> Asked(q)
      /\ AskedPeers' = AskedPeers
  <2>1. \A q : Asked(q)' <=> Asked(q)
    BY <1>1, <1>3 DEF Asked, AsksFor, Send
  <2> QED BY <2>1, Zenon DEF AskedPeers
<1>8. Counted'
  BY <1>7 DEF SyncInv, Base, Counted, Send
<1>9. Asks'
  <2>1. \A q : Ids(q)' = Ids(q)
    BY DEF Ids, Send
  <2> QED BY <1>1, <1>3, <1>7, <2>1 DEF SyncInv, Base, Asks, Send
<1>10. Base'
  BY <1>4, <1>5, <1>6, <1>8, <1>9, FrameBase DEF SyncInv, Base, Send
<1>11. DialogsWhole => DialogsWhole'
  BY <1>7 DEF DialogsWhole, OnWire, Held, Ids, Send
<1>12. LeftOut => LeftOut'
  BY <1>7, FrameWhole DEF Send
<1>13. Whole'
  BY <1>11, <1>12, FrameWhole DEF SyncInv, Whole, Send
<1> QED BY <1>10, <1>13 DEF SyncInv

\* The application ends; the next one starts from the saved marks.
LEMMA RestartSyncInv == SyncInv /\ Restart => SyncInv' /\ InOrder
<1> SUFFICES ASSUME SyncInv, Restart PROVE SyncInv' /\ InOrder
  OBVIOUS
<1> USE DEF savedVars, listVars
<1>0. Types /\ Dialogs /\ Given
  BY DEF SyncInv, Base
<1>1. /\ state' \in [Peers -> DialogState]
      /\ \A p \in Peers : /\ state'[p].syncedMessageId = saved[p]
                          /\ state'[p].synced = FALSE /\ state'[p].pendingIds = <<>>
  <2> DEFINE st(x) == [NewState EXCEPT !.syncedMessageId = x]
  <2>1. \A x \in Nat : /\ st(x) \in DialogState /\ st(x).syncedMessageId = x
                       /\ st(x).synced = FALSE /\ st(x).pendingIds = <<>>
    <3>1. NewState \in DialogState /\ NewState.synced = FALSE /\ NewState.pendingIds = <<>>
      BY DEF NewState, DialogState
    <3> QED BY <3>1, StateUpdates, ZenonT(60)
  <2>2. \A p \in Peers : saved[p] \in Nat
    BY <1>0, TypeFacts
  <2>3. state' = [p \in Peers |-> st(saved[p])]
    BY DEF Restart
  <2> HIDE DEF st
  <2> QED BY <2>1, <2>2, <2>3
<1>2. Types'
  <2>1. <<>> \in Seq(Request) /\ <<>> \in Seq(Message)
    OBVIOUS
  <2> QED BY <1>0, <1>1, <2>1 DEF Types, Restart
<1>3. \A p : Ids(p)' = Ids(p)
  BY DEF Ids, Restart
<1>4. Dialogs'
  BY <1>0, <1>1, <1>3 DEF Dialogs, Descending, Restart
<1>5. Elems(requests)' = {} /\ Elems(wire)' = {}
  BY EmptyQueue DEF Restart
<1>6. News' /\ Order'
  BY <1>5, EmptyQueue DEF News, Order, Restart
<1>7. Given'
  <2>1. \A id \in delivered' :
          id \in DOMAIN history /\ history[id] \in Peers /\ id <= saved[history[id]]
    BY <1>0, TypeFacts DEF Given, Restart
  <2>2. history' = history /\ repeated' = {}
    BY <1>0 DEF Given, Restart
  <2>3. ASSUME NEW id \in delivered'
        PROVE  /\ id \in DOMAIN history
               /\ id <= state'[history[id]].syncedMessageId
               /\ state'[history[id]].pendingIds = <<>>
    BY <1>1, <2>1
  <2> QED BY <2>2, <2>3 DEF Given
<1>8. Phase'
  BY <1>1 DEF Phase, Restart
<1>9. \A p : ~Asked(p)'
  BY <1>5 DEF Asked
<1>10. Counted'
  <2>1. AskedPeers' = {}
    BY <1>9, Zenon DEF AskedPeers
  <2> QED BY <2>1, FS_EmptySet DEF Counted, Restart
<1>11. Asks'
  BY <1>5, <1>9 DEF Asks
<1>12. MarksGiven => MarksGiven'
  <2> SUFFICES ASSUME MarksGiven PROVE MarksGiven'
    OBVIOUS
  <2>1. ASSUME ~disturbed, NEW id \in DOMAIN history, history[id] \notin forgone,
               id <= state'[history[id]].syncedMessageId \/ id <= saved[history[id]]
        PROVE  id \in delivered'
    <3>1. id <= saved[history[id]]
      BY <1>0, <1>1, <2>1, TypeFacts
    <3>2. id \in delivered
      BY <2>1, <3>1 DEF MarksGiven, NothingMissed
    <3> QED BY <3>1, <3>2 DEF Restart
  <2>2. NothingMissed'
    BY <2>1 DEF NothingMissed, Restart
  <2>3. ASSUME NEW p \in Peers PROVE saved[p] \in delivered' \cup {0}
    <3>1. saved[p] \in delivered \cup {0} /\ saved[p] \in Ids(p) \cup {0} /\ saved[p] \in Nat
      BY <1>0, TypeFacts DEF MarksGiven, Dialogs
    <3>2. saved[p] # 0 => history[saved[p]] = p
      BY <1>0, <3>1, TypeFacts
    <3> QED BY <3>1, <3>2 DEF Restart
  <2>4. \A p \in Peers : state'[p].syncedMessageId = saved[p] /\ saved'[p] = saved[p]
    BY <1>1 DEF Restart
  <2> QED BY <2>2, <2>3, <2>4 DEF MarksGiven
<1>13. Whole'
  <2>1. DialogsWhole' /\ ListWhole' /\ ListSent' /\ AnswerWhole' /\ LeftOut'
    BY <1>5 DEF DialogsWhole, ListWhole, ListSent, AnswerWhole, LeftOut, Restart
  <2> QED BY <1>12, <2>1 DEF SyncInv, Whole, Restart
<1>14. InOrder
  BY DEF InOrder, Restart
<1> QED BY <1>2, <1>4, <1>6, <1>7, <1>8, <1>10, <1>11, <1>13, <1>14 DEF SyncInv, Base

\* A message is added to the post box.
LEMMA GrowFacts ==
  ASSUME Types, NEW p \in Peers, history' = Append(history, p)
  PROVE  /\ history' \in Seq(Peers)
         /\ DOMAIN history' = DOMAIN history \cup {Len(history) + 1}
         /\ history'[Len(history) + 1] = p
         /\ \A id \in DOMAIN history : history'[id] = history[id] /\ id < Len(history) + 1
         /\ \A q : \A id \in Ids(q) : id \in Ids(q)'
         /\ \A q : \A id \in Ids(q)' : id \in Ids(q) \/ (id = Len(history) + 1 /\ q = p)
<1> DEFINE n == Len(history) + 1
<1>1. history \in Seq(Peers)
  BY DEF Types
<1>2. history' \in Seq(Peers) /\ DOMAIN history' = DOMAIN history \cup {n} /\ history'[n] = p
  BY <1>1
<1>3. \A id \in DOMAIN history : history'[id] = history[id] /\ id < n
  BY <1>1
<1> HIDE DEF n
<1>4. \A q : \A id \in Ids(q) : id \in Ids(q)'
  BY <1>2, <1>3 DEF Ids
<1>5. \A q : \A id \in Ids(q)' : id \in Ids(q) \/ (id = n /\ q = p)
  BY <1>2, <1>3 DEF Ids
<1> QED BY <1>2, <1>3, <1>4, <1>5 DEF n

\* The client's dialogs and what it has given are about the messages there were.
LEMMA GrowKeeps ==
  ASSUME Types, NEW p \in Peers, history' = Append(history, p),
         UNCHANGED <<top, state, saved, delivered, repeated, omitted, forgone, disturbed>>
  PROVE  /\ Dialogs => Dialogs'
         /\ Given => Given'
         /\ Dialogs /\ MarksGiven => MarksGiven'
<1> DEFINE n == Len(history) + 1
<1>1. /\ DOMAIN history' = DOMAIN history \cup {n} /\ history'[n] = p
      /\ \A id \in DOMAIN history : history'[id] = history[id] /\ id < n
      /\ \A q : \A id \in Ids(q) : id \in Ids(q)'
  BY GrowFacts
<1>2. /\ \A id \in DOMAIN history : id \in Nat /\ history[id] \in Peers
      /\ \A q : \A id \in Ids(q) : id \in DOMAIN history
      /\ n \in Nat /\ n # 0
  BY TypeFacts
<1> HIDE DEF n
<1>3. Dialogs => Dialogs'
  BY <1>1 DEF Dialogs
<1>4. Given => Given'
  BY <1>1 DEF Given
<1>5. ASSUME Dialogs, MarksGiven PROVE MarksGiven'
  <2> SUFFICES ASSUME ~disturbed, NEW id \in DOMAIN history', history'[id] \notin forgone,
                      id <= state[history'[id]].syncedMessageId \/ id <= saved[history'[id]]
               PROVE  id \in delivered
    BY <1>5 DEF MarksGiven, NothingMissed
  <2>1. CASE id \in DOMAIN history
    <3>1. history'[id] = history[id]
      BY <1>1, <2>1
    <3> QED BY <1>5, <2>1, <3>1 DEF MarksGiven, NothingMissed
  <2>2. CASE id = n
    <3>1. history'[id] = p
      BY <1>1, <2>2
    <3>2. state[p].syncedMessageId \in Ids(p) \cup {0} /\ saved[p] \in Ids(p) \cup {0}
      BY <1>5 DEF Dialogs
    <3>3. \A x \in Ids(p) \cup {0} : x \in Nat /\ x < n
      BY <1>1, <1>2
    <3>4. /\ state[p].syncedMessageId \in Nat /\ state[p].syncedMessageId < n
          /\ saved[p] \in Nat /\ saved[p] < n
      BY <3>2, <3>3
    <3> QED BY <1>2, <2>2, <3>1, <3>4
  <2> QED BY <1>1, <2>1, <2>2
<1> QED BY <1>3, <1>4, <1>5

\* The message is sent to the client behind everything else.
LEMMA NewsAdded ==
  ASSUME Types, Dialogs, News, Order, Asks, NEW p \in Peers, history' = Append(history, p),
         NEW n \in Message, IsNews(n), n.id = Len(history) + 1, wire' = Append(wire, n),
         UNCHANGED <<top, state>>
  PROVE  /\ wire' \in Seq(Message) /\ Elems(wire') = Elems(wire) \cup {n}
         /\ News' /\ AllApart(wire') /\ InTurn(history', wire')
         /\ \A r : Apart(r, n)
         /\ \A id : OnWire(id)' <=> OnWire(id) \/ id = Len(history) + 1
         /\ ListSent => ListSent'
         /\ ListWhole /\ UNCHANGED <<listed, sync>> => ListWhole'
         /\ AnswerWhole => AnswerWhole'
<1> DEFINE k == Len(history) + 1
<1>1. /\ DOMAIN history' = DOMAIN history \cup {k} /\ history'[k] = p
      /\ \A id \in DOMAIN history : history'[id] = history[id] /\ id < k
      /\ \A q : \A id \in Ids(q) : id \in Ids(q)'
      /\ \A q : \A id \in Ids(q)' : id \in Ids(q) \/ (id = k /\ q = p)
  BY GrowFacts
<1>2. /\ \A id \in DOMAIN history : id \in Nat /\ history[id] \in Peers
      /\ \A q : \A id \in Ids(q) : id \in DOMAIN history
      /\ k \in Nat /\ k # 0 /\ n.id = k
  BY TypeFacts
<1>3. \A m \in Elems(wire) : m \in Message
  BY TypeFacts
<1> HIDE DEF k
<1>4. n.type # "history" /\ n.type # "dialogs"
  BY DEF IsNews
<1>5. \A r : Apart(r, n)
  BY <1>4 DEF Apart
<1>6. \A q : \A x \in Ids(q) \cup {0} : x \in Nat /\ x < k
  BY <1>1, <1>2
<1>7. ASSUME NEW e \in Elems(wire)
      PROVE  /\ Turn(history', e, n)
             /\ IsNews(e) => e.id \in DOMAIN history
             /\ e.type = "dialogs" => \A q \in Peers : e.top[q] \in Ids(q) \cup {0}
  <2>1. /\ IsNews(e) => e.id \in DOMAIN history
        /\ e.type = "dialogs" => \A q \in Peers : e.top[q] \in Ids(q) \cup {0}
    BY DEF News
  <2>2. IsNews(e) => e.id < n.id
    BY <1>1, <1>2, <2>1
  <2>3. e.type = "dialogs" => e.top[p] < n.id
    BY <1>2, <1>6, <2>1
  <2> QED BY <1>1, <1>2, <1>4, <2>1, <2>2, <2>3 DEF Turn
<1>8. \A e, f \in Elems(wire) : Turn(history, e, f) => Turn(history', e, f)
  BY <1>1, <1>7 DEF Turn
<1>9. InTurn(history', wire)
  <2>1. \A i \in DOMAIN wire : wire[i] \in Elems(wire)
    BY Zenon DEF Elems
  <2>2. InTurn(history, wire)
    BY DEF Order
  <2> QED BY <1>8, <2>1, <2>2 DEF InTurn
<1>10. /\ wire' \in Seq(Message) /\ Elems(wire') = Elems(wire) \cup {n}
       /\ AllApart(wire') /\ InTurn(history', wire')
  <2>1. wire \in Seq(Message) /\ AllApart(wire)
    BY DEF Types, Order
  <2> QED BY <1>5, <1>7, <1>9, <2>1, QueueAppend
<1>11. News'
  <2> SUFFICES ASSUME NEW m \in Elems(wire) \cup {n}
               PROVE  /\ IsNews(m) =>
                           /\ m.id \in DOMAIN history'
                           /\ m.id > top[history'[m.id]]
                           /\ m.id > state[history'[m.id]].syncedMessageId
                      /\ m.type = "dialogs" => \A q \in Peers : m.top[q] \in Ids(q)' \cup {0}
    BY <1>10 DEF News
  <2>1. CASE m \in Elems(wire)
    BY <1>1, <1>7, <2>1 DEF News
  <2>2. CASE m = n
    <3>1. top[p] \in Ids(p) \cup {0} /\ state[p].syncedMessageId \in Ids(p) \cup {0}
      BY DEF Dialogs
    <3>2. k > top[p] /\ k > state[p].syncedMessageId
      BY <1>2, <1>6, <3>1
    <3> QED BY <1>1, <1>2, <1>4, <2>2, <3>2
  <2> QED BY <2>1, <2>2
<1>12. \A id : OnWire(id)' <=> OnWire(id) \/ id = k
  BY <1>2, <1>10 DEF OnWire
<1>13. ListSent => ListSent'
  <2> SUFFICES ASSUME ListSent, NEW m \in Elems(wire'), m.type = "dialogs", NEW q \in Peers
               PROVE  /\ state[q].syncedMessageId # 0 => m.top[q] # 0
                      /\ \A id \in Ids(q)' : id <= m.top[q] \/ OnWire(id)'
    BY DEF ListSent
  <2>1. m \in Elems(wire)
    BY <1>4, <1>10
  <2> QED BY <1>1, <1>12, <2>1 DEF ListSent
<1>14. ListWhole /\ UNCHANGED <<listed, sync>> => ListWhole'
  BY <1>1, <1>12 DEF ListWhole
<1>15. AnswerWhole => AnswerWhole'
  <2> SUFFICES ASSUME AnswerWhole, NEW m \in Elems(wire'), m.type = "history", NEW id \in Ids(m.peer)'
               PROVE  \/ id <= state[m.peer].syncedMessageId
                      \/ id >= Last(state[m.peer].pendingIds)
                      \/ \E j \in DOMAIN m.ids : m.ids[j] = id
                      \/ m.ids # <<>> /\ id < Last(m.ids)
    BY DEF AnswerWhole
  <2>1. m \in Elems(wire)
    BY <1>4, <1>10
  <2>2. CASE id \in Ids(m.peer)
    BY <2>1, <2>2 DEF AnswerWhole
  <2>3. CASE id = k
    <3> DEFINE ids == state[m.peer].pendingIds
    <3>1. m.peer \in Peers
      BY <1>3, <2>1, Fields
    <3>2. Asked(m.peer)
      BY <2>1 DEF Asked, AsksFor
    <3>3. ids # <<>> /\ ids \in Seq(Nat)
      BY <3>1, <3>2, TypeFacts DEF Asks
    <3>4. Last(ids) \in Ids(m.peer)
      <4>1. Len(ids) \in DOMAIN ids
        BY <3>3
      <4> QED BY <3>1, <4>1 DEF Dialogs, Last
    <3> QED BY <1>2, <1>6, <2>3, <3>4
  <2> QED BY <1>1, <2>2, <2>3
<1> QED BY <1>5, <1>10, <1>11, <1>12, <1>13, <1>14, <1>15 DEF k

\* Someone else sends a message.
LEMMA NewMessageSyncInv == ASSUME NEW p \in Peers PROVE SyncInv /\ NewMessage(p) => SyncInv'
<1> SUFFICES ASSUME SyncInv, NewMessage(p) PROVE SyncInv'
  OBVIOUS
<1> USE DEF clientVars, givenVars, savedVars, listVars
<1>0. /\ Types /\ Dialogs /\ News /\ Order /\ Given /\ Phase /\ Counted /\ Asks
      /\ history' = Append(history, p)
      /\ UNCHANGED <<requests, online, limit, sync, jobs, listed, top, state, saved, saves,
                     delivered, repeated, omitted, forgone, disturbed>>
  BY DEF SyncInv, Base, NewMessage
<1> DEFINE n == [type |-> "new", id |-> Len(history) + 1]
           k == Len(history) + 1
<1>1. n \in Message /\ IsNews(n) /\ n.id = k /\ n.type = "new"
  <2>1. Len(history) + 1 \in Nat
    BY <1>0, TypeFacts
  <2> QED BY <2>1 DEF Message, IsNews
<1>2. Dialogs' /\ Given' /\ (MarksGiven => MarksGiven')
  BY <1>0, GrowKeeps
<1>3. /\ history' \in Seq(Peers)
      /\ \A q : \A id \in Ids(q) : id \in Ids(q)'
      /\ \A q : \A id \in Ids(q)' : id \in Ids(q) \/ (id = k /\ q = p)
  BY <1>0, GrowFacts
<1>4. CASE ~online
  <2>1. wire = <<>> /\ wire' = <<>> /\ requests = <<>> /\ requests' = <<>>
    BY <1>0, <1>4 DEF Phase, NewMessage
  <2>2. Elems(wire) = {} /\ Elems(wire') = {}
    BY <2>1, EmptyQueue
  <2>3. Types' /\ News' /\ Order' /\ Phase' /\ Counted'
    <3>1. Types'
      BY <1>0, <1>3, <2>1 DEF Types
    <3>2. News' /\ Order'
      BY <1>0, <2>1, <2>2, EmptyQueue DEF News, Order
    <3>3. Phase' /\ Counted'
      BY <1>0, <2>1, FrameBase
    <3> QED BY <3>1, <3>2, <3>3
  <2>4. Asks'
    <3>1. \A q : Asked(q)' <=> Asked(q)
      BY <1>0, <2>1 DEF Asked
    <3> QED BY <1>0, <2>2, <3>1 DEF Asks
  <2>5. Whole'
    <3> SUFFICES ASSUME ~disturbed PROVE /\ listed' => online'
                                         /\ DialogsWhole' /\ ListSent' /\ ListWhole' /\ AnswerWhole'
                                         /\ LeftOut' /\ MarksGiven'
      BY <1>0 DEF Whole
    <3>1. ~listed /\ sync = "notStarted" /\ LeftOut /\ MarksGiven
      BY <1>0, <1>4 DEF SyncInv, Whole, Phase
    <3>2. LeftOut'
      BY <1>0, <2>1, <3>1, FrameWhole
    <3> QED BY <1>0, <1>2, <2>2, <3>1, <3>2 DEF DialogsWhole, ListSent, ListWhole, AnswerWhole
  <2> QED BY <1>2, <2>3, <2>4, <2>5 DEF SyncInv, Base
<1>5. CASE online
  <2>0. wire' = Append(wire, n)
    BY <1>5 DEF NewMessage
  <2> HIDE DEF n
  <2>1. /\ wire' \in Seq(Message) /\ Elems(wire') = Elems(wire) \cup {n}
        /\ News' /\ AllApart(wire') /\ InTurn(history', wire')
        /\ \A r : Apart(r, n)
        /\ \A id : OnWire(id)' <=> OnWire(id) \/ id = k
        /\ ListSent => ListSent'
        /\ ListWhole => ListWhole'
        /\ AnswerWhole => AnswerWhole'
    BY <1>0, <1>1, <2>0, NewsAdded
  <2> HIDE DEF k
  <2>2. Types'
    BY <1>0, <1>3, <2>1 DEF Types
  <2>3. Order'
    BY <1>0, <2>1 DEF Order
  <2>4. Phase'
    BY <1>0, <1>1, <1>5, <2>1 DEF Phase
  <2>5. \A q : Asked(q)' <=> Asked(q)
    BY <1>0, <1>1, <2>1 DEF Asked, AsksFor
  <2>6. Counted'
    <3>1. AskedPeers' = AskedPeers
      BY <2>5, Zenon DEF AskedPeers
    <3> QED BY <1>0, <3>1 DEF Counted
  <2>7. Asks'
    BY <1>0, <1>1, <1>3, <2>1, <2>5 DEF Asks
  <2>8. DialogsWhole => DialogsWhole'
    BY <1>0, <1>3, <2>1, <2>5 DEF DialogsWhole, Held
  <2>9. Whole'
    <3>1. LeftOut => LeftOut'
      BY <1>0, <2>5, FrameWhole
    <3> QED BY <1>0, <1>2, <2>1, <2>8, <3>1 DEF SyncInv, Whole
  <2> QED BY <1>2, <2>1, <2>2, <2>3, <2>4, <2>6, <2>7, <2>9 DEF SyncInv, Base
<1> QED BY <1>4, <1>5

\* The greatest id of a dialog, which getDialogs answers.
LEMMA TopFacts ==
  ASSUME Types, NEW p
  PROVE  LET t == IF Ids(p) = {} THEN 0 ELSE Head(NewestFirst(Ids(p))) IN
         /\ t \in Nat /\ t \in Ids(p) \cup {0}
         /\ \A id \in Ids(p) : id <= t
         /\ Ids(p) # {} => t # 0
<1> DEFINE S == Ids(p)
           F == NewestFirst(S)
           size == Cardinality(S)
<1>1. \A id \in S : id \in DOMAIN history /\ id \in Nat /\ id # 0
  BY TypeFacts
<1>2. IsFiniteSet(S)
  <2>1. DOMAIN history = 1..Len(history) /\ Len(history) \in Nat
    BY TypeFacts
  <2>2. IsFiniteSet(DOMAIN history)
    BY <2>1, FS_Interval
  <2> HIDE DEF S
  <2>3. S \in SUBSET DOMAIN history
    BY <1>1
  <2> QED BY <2>2, <2>3, FS_Subset
<1> HIDE DEF S
<1>3. CASE S = {}
  BY <1>3 DEF S
<1>4. CASE S # {}
  <2>1. /\ F \in Seq(S) /\ size \in Nat
        /\ DOMAIN F = 1..size /\ Len(F) = size
        /\ Descending(F)
        /\ \A x \in S : \E i \in 1..size : F[i] = x
    BY <1>1, <1>2, NewestFirstFacts
  <2> HIDE DEF F, size
  <2>2. 1 \in 1..size /\ F # <<>>
    BY <1>4, <2>1
  <2>3. Head(F) = F[1] /\ F[1] \in S
    BY <2>1, <2>2
  <2>4. \A id \in S : id <= F[1]
    <3> SUFFICES ASSUME NEW id \in S PROVE id <= F[1]
      OBVIOUS
    <3>1. PICK i \in 1..size : F[i] = id
      BY <2>1
    <3>2. i = 1 \/ 1 < i
      BY <2>1
    <3>3. F[1] \in Nat /\ id \in Nat
      BY <1>1, <2>3
    <3> QED BY <2>1, <2>2, <3>1, <3>2, <3>3 DEF Descending
  <2> QED BY <1>1, <1>4, <2>3, <2>4 DEF S, F
<1> QED BY <1>3, <1>4

\* The server takes a request.
LEMMA RequestTaken ==
  ASSUME Types, Order, requests # <<>>, requests' = Tail(requests)
  PROVE  /\ Head(requests) \in Request /\ requests' \in Seq(Request)
         /\ Elems(requests) = {Head(requests)} \cup Elems(requests')
         /\ AllApart(requests')
         /\ \A e \in Elems(requests') \cup Elems(wire) : Apart(Head(requests), e)
         /\ \A e \in Elems(requests'), m \in Elems(wire) : Apart(e, m)
<1>1. requests \in Seq(Request) /\ AllApart(requests)
  BY DEF Types, Order
<1>2. /\ Head(requests) \in Request /\ requests' \in Seq(Request)
      /\ Elems(requests) = {Head(requests)} \cup Elems(requests')
      /\ AllApart(requests')
      /\ \A e \in Elems(requests') : Apart(Head(requests), e)
  BY <1>1, QueueTail
<1>3. \A e \in Elems(requests), m \in Elems(wire) : Apart(e, m)
  BY DEF Order
<1> QED BY <1>2, <1>3

\* getDialogs
LEMMA HandleDialogsSyncInv ==
  SyncInv /\ HandleRequest /\ Head(requests).type = "dialogs" => SyncInv'
<1> SUFFICES ASSUME SyncInv, HandleRequest, Head(requests).type = "dialogs" PROVE SyncInv'
  OBVIOUS
<1> USE DEF clientVars, givenVars, savedVars, listVars
<1> DEFINE r == Head(requests)
           tops == [p \in Peers |-> IF Ids(p) = {} THEN 0 ELSE Head(NewestFirst(Ids(p)))]
           n == [type |-> "dialogs", top |-> tops]
<1>0. /\ Types /\ Dialogs /\ News /\ Order /\ Given /\ Phase /\ Counted /\ Asks
      /\ requests # <<>> /\ requests' = Tail(requests) /\ r.type = "dialogs"
      /\ UNCHANGED <<history, online, limit, sync, jobs, listed, top, state, saved, saves,
                     delivered, repeated, omitted, forgone, disturbed>>
  BY DEF SyncInv, Base, HandleRequest
<1>1. wire' = Append(wire, n)
  BY DEF HandleRequest
<1>2. \A p \in Peers : /\ tops[p] \in Nat /\ tops[p] \in Ids(p) \cup {0}
                       /\ \A id \in Ids(p) : id <= tops[p]
                       /\ Ids(p) # {} => tops[p] # 0
  BY <1>0, TopFacts
<1>3. tops \in [Peers -> Nat]
  BY <1>2
<1> HIDE DEF tops
<1>4. n \in Message /\ n.type = "dialogs" /\ n.top = tops /\ ~IsNews(n)
  BY <1>3 DEF Message, IsNews
<1>5. /\ r \in Request /\ requests' \in Seq(Request)
      /\ Elems(requests) = {r} \cup Elems(requests')
      /\ AllApart(requests')
      /\ \A e \in Elems(requests') \cup Elems(wire) : Apart(r, e)
      /\ \A e \in Elems(requests'), m \in Elems(wire) : Apart(e, m)
  BY <1>0, RequestTaken
<1> HIDE DEF n, r
<1>6. \A e \in Elems(requests') \cup Elems(wire) : Apart(e, n)
  BY <1>0, <1>4, <1>5 DEF Apart
<1>7. \A e \in Elems(wire) : Turn(history, e, n)
  <2> SUFFICES ASSUME NEW e \in Elems(wire), IsNews(e) PROVE e.id <= n.top[history[e.id]]
    BY <1>4 DEF Turn
  <2>1. e.id \in DOMAIN history
    BY <1>0 DEF News
  <2> QED BY <1>0, <1>2, <1>4, <2>1, TypeFacts
<1>8. /\ wire' \in Seq(Message) /\ Elems(wire') = Elems(wire) \cup {n}
      /\ AllApart(wire') /\ InTurn(history, wire')
  <2>1. wire \in Seq(Message) /\ AllApart(wire) /\ InTurn(history, wire)
    BY <1>0 DEF Types, Order
  <2> QED BY <1>1, <1>4, <1>6, <1>7, <2>1, QueueAppend
<1>9. Types'
  BY <1>0, <1>5, <1>8 DEF Types
<1>10. \A q : Ids(q)' = Ids(q)
  BY <1>0 DEF Ids
<1>11. News'
  BY <1>0, <1>2, <1>4, <1>8, <1>10 DEF News
<1>12. Order'
  BY <1>0, <1>5, <1>6, <1>8 DEF Order
<1>13. ~listed /\ sync = "notStarted" /\ online
  <2>1. r \in Elems(requests)
    BY <1>5
  <2>2. requests # <<>>
    BY <1>0
  <2> QED BY <1>0, <2>1, <2>2 DEF Phase
<1>14. Phase'
  BY <1>0, <1>13 DEF Phase
<1>15. \A q : Asked(q)' <=> Asked(q)
  BY <1>0, <1>4, <1>5, <1>8 DEF Asked, AsksFor
<1>16. Counted'
  <2>1. AskedPeers' = AskedPeers
    BY <1>15, Zenon DEF AskedPeers
  <2> QED BY <1>0, <2>1 DEF Counted
<1>17. Asks'
  BY <1>0, <1>4, <1>5, <1>8, <1>10, <1>15 DEF Asks
<1>18. Base'
  BY <1>0, <1>9, <1>11, <1>12, <1>14, <1>16, <1>17, FrameBase DEF Base
<1>19. \A id : OnWire(id)' <=> OnWire(id)
  BY <1>4, <1>8 DEF OnWire
<1>20. ListSent => ListSent'
  <2> SUFFICES ASSUME ListSent, NEW m \in Elems(wire) \cup {n}, m.type = "dialogs", NEW q \in Peers
               PROVE  /\ state[q].syncedMessageId # 0 => m.top[q] # 0
                      /\ \A id \in Ids(q) : id <= m.top[q] \/ OnWire(id)
    BY <1>0, <1>8, <1>10, <1>19 DEF ListSent
  <2>1. CASE m \in Elems(wire)
    BY <2>1 DEF ListSent
  <2>2. CASE m = n
    <3>1. state[q].syncedMessageId \in Ids(q) \cup {0}
      BY <1>0 DEF Dialogs
    <3> QED BY <1>2, <1>4, <2>2, <3>1
  <2> QED BY <2>1, <2>2
<1>21. AnswerWhole => AnswerWhole'
  BY <1>0, <1>4, <1>8, <1>10 DEF AnswerWhole
<1>22. Whole'
  <2>1. DialogsWhole' /\ ListWhole'
    BY <1>0, <1>13 DEF DialogsWhole, ListWhole
  <2>2. MarksGiven => MarksGiven'
    BY <1>0, FrameWhole
  <2>3. LeftOut => LeftOut'
    BY <1>0, <1>15, FrameWhole
  <2> QED BY <1>0, <1>20, <1>21, <2>1, <2>2, <2>3 DEF SyncInv, Whole
<1> QED BY <1>18, <1>22 DEF SyncInv

\* getHistory
LEMMA HandleHistorySyncInv ==
  SyncInv /\ HandleRequest /\ Head(requests).type = "history" => SyncInv'
<1> SUFFICES ASSUME SyncInv, HandleRequest, Head(requests).type = "history" PROVE SyncInv'
  OBVIOUS
<1> USE DEF clientVars, givenVars, savedVars, listVars
<1> DEFINE r == Head(requests)
           page == HistoryPage(r.peer, r.offsetId, r.limit, r.minId)
           n == [type |-> "history", peer |-> r.peer, ids |-> page]
           ids == state[r.peer].pendingIds
<1>0. /\ Types /\ Dialogs /\ News /\ Order /\ Given /\ Phase /\ Counted /\ Asks
      /\ requests # <<>> /\ requests' = Tail(requests) /\ r.type = "history"
      /\ UNCHANGED <<history, online, limit, sync, jobs, listed, top, state, saved, saves,
                     delivered, repeated, omitted, forgone, disturbed>>
  BY DEF SyncInv, Base, HandleRequest
<1>1. wire' = Append(wire, n)
  BY DEF HandleRequest
<1>2. /\ r \in Request /\ requests' \in Seq(Request)
      /\ Elems(requests) = {r} \cup Elems(requests')
      /\ AllApart(requests')
      /\ \A e \in Elems(requests') \cup Elems(wire) : Apart(r, e)
      /\ \A e \in Elems(requests'), m \in Elems(wire) : Apart(e, m)
  BY <1>0, RequestTaken
<1>3. r.peer \in Peers /\ r.offsetId \in Nat /\ r.limit \in Nat /\ r.minId \in Nat
  BY <1>0, <1>2, Fields
<1>4. /\ ids \in Seq(Nat) /\ ids # <<>>
      /\ r.offsetId = Last(ids) /\ r.limit >= 1 /\ r.minId <= state[r.peer].syncedMessageId
      /\ state[r.peer].syncedMessageId \in Nat
  <2>1. Asked(r.peer)
    BY <1>0, <1>2 DEF Asked, AsksFor
  <2> QED BY <1>0, <1>2, <1>3, <2>1, TypeFacts DEF Asks
<1>5. r.offsetId # 0 /\ Last(ids) \in Nat
  <2>1. Len(ids) \in DOMAIN ids
    BY <1>4
  <2>2. Last(ids) \in Ids(r.peer)
    BY <1>0, <1>3, <2>1 DEF Dialogs, Last
  <2> QED BY <1>0, <1>4, <2>2, TypeFacts
<1>6. /\ page \in Seq(Nat) /\ Descending(page)
      /\ \A k \in DOMAIN page : page[k] \in Ids(r.peer) /\ page[k] < r.offsetId
      /\ \A id \in Ids(r.peer) : \/ id <= r.minId
                                 \/ id >= r.offsetId
                                 \/ \E k \in DOMAIN page : page[k] = id
                                 \/ page # <<>> /\ id < Last(page)
  <2>1. history \in Seq(Peers)
    BY <1>0 DEF Types
  <2> QED BY <1>3, <1>4, <1>5, <2>1, HistoryPageFacts
<1> HIDE DEF page
<1>7. n \in Message /\ n.type = "history" /\ n.peer = r.peer /\ n.ids = page /\ ~IsNews(n)
  BY <1>3, <1>6 DEF Message, IsNews
<1> HIDE DEF n, r, ids
<1>8. \A e \in Elems(requests') \cup Elems(wire) : Apart(e, n)
  BY <1>0, <1>2, <1>7 DEF Apart
<1>9. \A e \in Elems(wire) : Turn(history, e, n)
  BY <1>7 DEF Turn
<1>10. /\ wire' \in Seq(Message) /\ Elems(wire') = Elems(wire) \cup {n}
       /\ AllApart(wire') /\ InTurn(history, wire')
  <2>1. wire \in Seq(Message) /\ AllApart(wire) /\ InTurn(history, wire)
    BY <1>0 DEF Types, Order
  <2> QED BY <1>1, <1>7, <1>8, <1>9, <2>1, QueueAppend
<1>11. Types'
  BY <1>0, <1>2, <1>10 DEF Types
<1>12. \A q : Ids(q)' = Ids(q)
  BY <1>0 DEF Ids
<1>13. News'
  BY <1>0, <1>7, <1>10, <1>12 DEF News
<1>14. Order'
  BY <1>0, <1>2, <1>8, <1>10 DEF Order
<1>15. Phase'
  BY <1>0, <1>2, <1>7, <1>10 DEF Phase
<1>16. \A q : Asked(q)' <=> Asked(q)
  BY <1>0, <1>2, <1>7, <1>10 DEF Asked, AsksFor
<1>17. Counted'
  <2>1. AskedPeers' = AskedPeers
    BY <1>16, Zenon DEF AskedPeers
  <2> QED BY <1>0, <2>1 DEF Counted
<1>18. Asks'
  <2>1. /\ Descending(n.ids)
        /\ \A k \in DOMAIN n.ids : n.ids[k] \in Ids(n.peer) /\ n.ids[k] < Last(state[n.peer].pendingIds)
    BY <1>4, <1>6, <1>7 DEF ids
  <2> QED BY <1>0, <1>2, <1>10, <1>12, <1>16, <2>1 DEF Asks
<1>19. Base'
  BY <1>0, <1>11, <1>13, <1>14, <1>15, <1>17, <1>18, FrameBase DEF Base
<1>20. \A id : OnWire(id)' <=> OnWire(id)
  BY <1>7, <1>10 DEF OnWire
<1>21. DialogsWhole => DialogsWhole'
  BY <1>0, <1>12, <1>16, <1>20 DEF DialogsWhole, Held
<1>22. ListSent => ListSent'
  BY <1>0, <1>7, <1>10, <1>12, <1>20 DEF ListSent
<1>23. ListWhole => ListWhole'
  BY <1>0, <1>12, <1>20 DEF ListWhole
<1>24. AnswerWhole => AnswerWhole'
  <2>1. \A id \in Ids(n.peer) :
          \/ id <= state[n.peer].syncedMessageId
          \/ id >= Last(state[n.peer].pendingIds)
          \/ \E k \in DOMAIN n.ids : n.ids[k] = id
          \/ n.ids # <<>> /\ id < Last(n.ids)
    <3>1. \A id \in Ids(r.peer) : id \in Nat /\ (id <= r.minId => id <= state[r.peer].syncedMessageId)
      BY <1>0, <1>3, <1>4, TypeFacts
    <3> QED BY <1>4, <1>6, <1>7, <3>1 DEF ids
  <2> QED BY <1>0, <1>10, <1>12, <2>1 DEF AnswerWhole
<1>25. (MarksGiven => MarksGiven') /\ (LeftOut => LeftOut')
  BY <1>0, <1>16, FrameWhole
<1>26. Whole'
  BY <1>0, <1>21, <1>22, <1>23, <1>24, <1>25 DEF SyncInv, Whole
<1> QED BY <1>19, <1>26 DEF SyncInv

\* sendMessage
LEMMA HandleSendSyncInv ==
  SyncInv /\ HandleRequest /\ Head(requests).type = "send" => SyncInv'
<1> SUFFICES ASSUME SyncInv, HandleRequest, Head(requests).type = "send" PROVE SyncInv'
  OBVIOUS
<1> USE DEF clientVars, givenVars, savedVars, listVars
<1> DEFINE r == Head(requests)
           k == Len(history) + 1
           n == [type |-> "sent", id |-> k]
           p == r.peer
<1>0. /\ Types /\ Dialogs /\ News /\ Order /\ Given /\ Phase /\ Counted /\ Asks
      /\ requests # <<>> /\ requests' = Tail(requests) /\ r.type = "send"
      /\ history' = Append(history, p)
      /\ UNCHANGED <<online, limit, sync, jobs, listed, top, state, saved, saves,
                     delivered, repeated, omitted, forgone, disturbed>>
  BY DEF SyncInv, Base, HandleRequest
<1>1. wire' = Append(wire, n)
  BY DEF HandleRequest
<1>2. /\ r \in Request /\ requests' \in Seq(Request)
      /\ Elems(requests) = {r} \cup Elems(requests')
      /\ AllApart(requests')
      /\ \A e \in Elems(requests'), m \in Elems(wire) : Apart(e, m)
  BY <1>0, RequestTaken
<1>3. p \in Peers
  BY <1>0, <1>2, Fields
<1>4. n \in Message /\ IsNews(n) /\ n.id = k /\ n.type = "sent"
  <2>1. k \in Nat
    BY <1>0, TypeFacts
  <2> QED BY <2>1 DEF Message, IsNews
<1> HIDE DEF r, n, p
<1>5. Dialogs' /\ Given' /\ (MarksGiven => MarksGiven')
  BY <1>0, <1>3, GrowKeeps
<1>6. /\ history' \in Seq(Peers)
      /\ \A q : \A id \in Ids(q) : id \in Ids(q)'
      /\ \A q : \A id \in Ids(q)' : id \in Ids(q) \/ (id = k /\ q = p)
  BY <1>0, <1>3, GrowFacts
<1>7. /\ wire' \in Seq(Message) /\ Elems(wire') = Elems(wire) \cup {n}
      /\ News' /\ AllApart(wire') /\ InTurn(history', wire')
      /\ \A e : Apart(e, n)
      /\ \A id : OnWire(id)' <=> OnWire(id) \/ id = k
      /\ ListSent => ListSent'
      /\ ListWhole => ListWhole'
      /\ AnswerWhole => AnswerWhole'
  BY <1>0, <1>1, <1>3, <1>4, NewsAdded
<1> HIDE DEF k
<1>8. Types'
  BY <1>0, <1>2, <1>6, <1>7 DEF Types
<1>9. Order'
  BY <1>0, <1>2, <1>7 DEF Order
<1>10. Phase'
  BY <1>0, <1>2, <1>4, <1>7 DEF Phase
<1>11. \A q : Asked(q)' <=> Asked(q)
  BY <1>0, <1>2, <1>4, <1>7 DEF Asked, AsksFor
<1>12. Counted'
  <2>1. AskedPeers' = AskedPeers
    BY <1>11, Zenon DEF AskedPeers
  <2> QED BY <1>0, <2>1 DEF Counted
<1>13. Asks'
  BY <1>0, <1>2, <1>4, <1>6, <1>7, <1>11 DEF Asks
<1>14. DialogsWhole => DialogsWhole'
  BY <1>0, <1>6, <1>7, <1>11 DEF DialogsWhole, Held
<1>15. Whole'
  <2>1. LeftOut => LeftOut'
    BY <1>0, <1>11, FrameWhole
  <2> QED BY <1>0, <1>5, <1>7, <1>14, <2>1 DEF SyncInv, Whole
<1> QED BY <1>5, <1>7, <1>8, <1>9, <1>10, <1>12, <1>13, <1>15 DEF SyncInv, Base

\* The server answers a request.
LEMMA HandleRequestSyncInv == SyncInv /\ HandleRequest => SyncInv'
<1> SUFFICES ASSUME SyncInv, HandleRequest PROVE SyncInv'
  OBVIOUS
<1>1. Head(requests).type \in {"dialogs", "history", "send"}
  <2>1. Types /\ Order /\ requests # <<>> /\ requests' = Tail(requests)
    BY DEF SyncInv, Base, HandleRequest
  <2> QED BY <2>1, RequestTaken, Fields
<1> QED BY <1>1, HandleDialogsSyncInv, HandleHistorySyncInv, HandleSendSyncInv

\* Messages given that are in order and have not been given before.
LEMMA GiveFacts ==
  ASSUME NEW list, NEW peers, Give(list, peers), repeated = {},
         \A p \in peers : /\ list[p] \in Seq(Nat) /\ Descending(list[p])
                          /\ \A i \in DOMAIN list[p] : list[p][i] \notin delivered
  PROVE  /\ repeated' = {}
         /\ \A x : x \in delivered' <=> x \in delivered \/ \E p \in peers : x \in Elems(list[p])
<1>1. \A x : x \in delivered' <=> x \in delivered \/ \E p \in peers : x \in Elems(list[p])
  BY DEF Give
<1>2. ASSUME NEW p \in peers
      PROVE  {j \in DOMAIN list[p] :
               list[p][j] \in delivered \/ \E k \in 1..(j - 1) : list[p][k] = list[p][j]} = {}
  <2> DEFINE s == list[p]
  <2> SUFFICES ASSUME NEW j \in DOMAIN s,
                      s[j] \in delivered \/ \E k \in 1..(j - 1) : s[k] = s[j]
               PROVE  FALSE
    OBVIOUS
  <2>1. s \in Seq(Nat) /\ Descending(s) /\ s[j] \notin delivered
    OBVIOUS
  <2> HIDE DEF s
  <2>2. PICK k \in 1..(j - 1) : s[k] = s[j]
    BY <2>1
  <2>3. DOMAIN s = 1..Len(s) /\ Len(s) \in Nat
    BY <2>1
  <2>4. k \in DOMAIN s /\ k < j
    BY <2>3
  <2>5. s[k] > s[j] /\ s[j] \in Nat
    BY <2>1, <2>4 DEF Descending
  <2> QED BY <2>2, <2>5
<1>3. UNION {
        {list[p][i] : i \in {j \in DOMAIN list[p] :
           list[p][j] \in delivered \/ \E k \in 1..(j - 1) : list[p][k] = list[p][j]}} : p \in peers} = {}
  BY <1>2, Zenon
<1>4. repeated' = {}
  BY <1>3 DEF Give
<1> QED BY <1>1, <1>4

\* Nothing given.
LEMMA GiveNothing ==
  ASSUME NEW list, NEW p, Give(list, {p}), repeated = {}, list[p] = <<>>
  PROVE  repeated' = {} /\ delivered' = delivered
<1>1. <<>> \in Seq(Nat) /\ Descending(<<>>) /\ DOMAIN <<>> = {} /\ Elems(<<>>) = {}
  BY EmptyQueue DEF Descending
<1>2. /\ list[p] \in Seq(Nat) /\ Descending(list[p])
      /\ \A i \in DOMAIN list[p] : list[p][i] \notin delivered
      /\ Elems(list[p]) = {}
  BY <1>1, Zenon
<1>3. \A q \in {p} : /\ list[q] \in Seq(Nat) /\ Descending(list[q])
                     /\ \A i \in DOMAIN list[q] : list[q][i] \notin delivered
  BY <1>2, Zenon
<1>4. /\ repeated' = {}
      /\ \A x : x \in delivered' <=> x \in delivered \/ \E q \in {p} : x \in Elems(list[q])
  BY <1>3, GiveFacts
<1>5. \A x : x \in delivered' <=> x \in delivered
  BY <1>2, <1>4
<1> QED BY <1>4, <1>5

\* One message that has not been given before.
LEMMA GiveOne ==
  ASSUME NEW list, NEW p, NEW id \in Nat, Give(list, {p}), repeated = {}, list[p] = <<id>>,
         id \notin delivered
  PROVE  repeated' = {} /\ delivered' = delivered \cup {id}
<1> DEFINE o == <<id>>
<1>1. /\ o \in Seq(Nat) /\ Descending(o) /\ Elems(o) = {id}
      /\ \A i \in DOMAIN o : o[i] = id
  BY DEF Descending, Elems
<1> HIDE DEF o
<1>2. list[p] = o
  BY DEF o
<1>3. \A q \in {p} : /\ list[q] \in Seq(Nat) /\ Descending(list[q])
                     /\ \A i \in DOMAIN list[q] : list[q][i] \notin delivered
  <2>1. \A i \in DOMAIN o : o[i] \notin delivered
    BY <1>1
  <2> QED BY <1>1, <1>2, <2>1, Zenon
<1>4. /\ repeated' = {}
      /\ \A x : x \in delivered' <=> x \in delivered \/ \E q \in {p} : x \in Elems(list[q])
  BY <1>3, GiveFacts
<1>5. \A x : x \in delivered' <=> x \in delivered \/ x = id
  BY <1>1, <1>2, <1>4
<1> QED BY <1>4, <1>5

\* The client takes what the server has sent.
LEMMA MessageTaken ==
  ASSUME Types, Order, wire # <<>>, wire' = Tail(wire)
  PROVE  /\ Head(wire) \in Message /\ wire' \in Seq(Message)
         /\ Elems(wire) = {Head(wire)} \cup Elems(wire')
         /\ AllApart(wire') /\ InTurn(history, wire')
         /\ \A e \in Elems(wire') : Apart(Head(wire), e) /\ Turn(history, Head(wire), e)
         /\ \A r \in Elems(requests) : Apart(r, Head(wire))
         /\ \A r \in Elems(requests), e \in Elems(wire') : Apart(r, e)
<1>1. wire \in Seq(Message) /\ AllApart(wire) /\ InTurn(history, wire)
  BY DEF Types, Order
<1>2. /\ Head(wire) \in Message /\ wire' \in Seq(Message)
      /\ Elems(wire) = {Head(wire)} \cup Elems(wire')
      /\ AllApart(wire') /\ InTurn(history, wire')
      /\ \A e \in Elems(wire') : Apart(Head(wire), e) /\ Turn(history, Head(wire), e)
  BY <1>1, QueueTail
<1>3. \A r \in Elems(requests), m \in Elems(wire) : Apart(r, m)
  BY DEF Order
<1> QED BY <1>2, <1>3

\* onGetDialogsFinished
LEMMA ReceiveDialogsSyncInv == SyncInv /\ ReceiveDialogs => SyncInv'
<1> SUFFICES ASSUME SyncInv, ReceiveDialogs PROVE SyncInv'
  OBVIOUS
<1> USE DEF givenVars, savedVars, listVars
<1> DEFINE m == Head(wire)
<1>0. /\ Types /\ Dialogs /\ News /\ Order /\ Given /\ Phase /\ Counted /\ Asks
      /\ wire # <<>> /\ wire' = Tail(wire) /\ m.type = "dialogs" /\ listed' = TRUE
      /\ top' = [p \in Peers |-> IF m.top[p] # 0 THEN m.top[p] ELSE top[p]]
      /\ UNCHANGED <<history, requests, online, limit, sync, jobs, state, saved, saves,
                     delivered, repeated, omitted, forgone, disturbed>>
  BY DEF SyncInv, Base, ReceiveDialogs
<1>1. /\ m \in Message /\ wire' \in Seq(Message)
      /\ Elems(wire) = {m} \cup Elems(wire')
      /\ AllApart(wire') /\ InTurn(history, wire')
      /\ \A e \in Elems(wire') : Apart(m, e) /\ Turn(history, m, e)
      /\ \A r \in Elems(requests) : Apart(r, m)
      /\ \A r \in Elems(requests), e \in Elems(wire') : Apart(r, e)
  BY <1>0, MessageTaken
<1> HIDE DEF m
<1>2. /\ m.top \in [Peers -> Nat] /\ ~IsNews(m)
      /\ \A p \in Peers : m.top[p] \in Ids(p) \cup {0}
  BY <1>0, <1>1, Fields DEF News, IsNews
<1>3. Types'
  BY <1>0, <1>1, <1>2 DEF Types
<1>4. online /\ sync = "notStarted" /\ \A p \in Peers : state[p].pendingIds = <<>>
  BY <1>0, <1>1 DEF Phase
<1>5. \A p : Ids(p)' = Ids(p)
  BY <1>0 DEF Ids
<1>6. Dialogs'
  BY <1>0, <1>2, <1>4, <1>5 DEF Dialogs
<1>7. \A p \in Peers : top'[p] = m.top[p] \/ top'[p] = top[p]
  BY <1>0
<1>8. News'
  <2>1. ASSUME NEW e \in Elems(wire'), IsNews(e) PROVE e.id > top'[history[e.id]]
    <3>1. e.id \in DOMAIN history /\ e.id > top[history[e.id]] /\ m.top[history[e.id]] < e.id
      BY <1>0, <1>1, <2>1 DEF News, Turn
    <3>2. history[e.id] \in Peers /\ e.id \in Nat
      BY <1>0, <3>1, TypeFacts
    <3>3. m.top[history[e.id]] \in Nat
      BY <1>2, <3>2
    <3> QED BY <1>7, <3>1, <3>2, <3>3
  <2> QED BY <1>0, <1>1, <1>5, <2>1 DEF News
<1>9. Order'
  BY <1>0, <1>1 DEF Order
<1>10. \A e \in Elems(requests') \cup Elems(wire') : e.type # "dialogs"
  BY <1>0, <1>1 DEF Apart
<1>11. Phase'
  BY <1>0, <1>4, <1>10 DEF Phase
<1>12. \A q : Asked(q)' <=> Asked(q)
  BY <1>0, <1>1 DEF Asked, AsksFor
<1>13. Counted'
  <2>1. AskedPeers' = AskedPeers
    BY <1>12, Zenon DEF AskedPeers
  <2> QED BY <1>0, <2>1 DEF Counted
<1>14. Asks'
  BY <1>0, <1>1, <1>5, <1>12 DEF Asks
<1>15. Base'
  BY <1>0, <1>3, <1>6, <1>8, <1>9, <1>11, <1>13, <1>14, FrameBase DEF Base
<1>16. \A id : OnWire(id)' <=> OnWire(id)
  BY <1>1, <1>2 DEF OnWire
<1>17. ListSent => ListWhole'
  <2> SUFFICES ASSUME ListSent, NEW p \in Peers
               PROVE  /\ state[p].syncedMessageId # 0 => top'[p] # 0
                      /\ \A id \in Ids(p) : id <= top'[p] \/ OnWire(id)
    BY <1>0, <1>5, <1>16 DEF ListWhole
  <2>1. /\ state[p].syncedMessageId # 0 => m.top[p] # 0
        /\ \A id \in Ids(p) : id <= m.top[p] \/ OnWire(id)
    BY <1>0, <1>1 DEF ListSent
  <2>2. \A id \in Ids(p) : id \in Nat /\ id # 0
    BY <1>0, TypeFacts
  <2>3. m.top[p] # 0 => top'[p] = m.top[p]
    BY <1>0
  <2>4. m.top[p] = 0 => \A id \in Ids(p) : OnWire(id)
    BY <2>1, <2>2
  <2> QED BY <2>1, <2>3, <2>4
<1>18. AnswerWhole => AnswerWhole'
  BY <1>0, <1>1, <1>5 DEF AnswerWhole
<1>19. (MarksGiven => MarksGiven') /\ (LeftOut => LeftOut')
  BY <1>0, <1>12, FrameWhole
<1>20. DialogsWhole' /\ ListSent'
  BY <1>0, <1>4, <1>10 DEF DialogsWhole, ListSent
<1>21. Whole'
  BY <1>0, <1>4, <1>17, <1>18, <1>19, <1>20 DEF SyncInv, Whole
<1> QED BY <1>15, <1>21 DEF SyncInv

\* A newer message put before the ones a dialog holds.
LEMMA PrependFacts ==
  ASSUME NEW s \in Seq(Nat), Descending(s), NEW id \in Nat, \A k \in DOMAIN s : s[k] < id
  PROVE  /\ <<id>> \o s \in Seq(Nat) /\ Descending(<<id>> \o s) /\ <<id>> \o s # <<>>
         /\ \A i \in DOMAIN (<<id>> \o s) :
              (<<id>> \o s)[i] = id \/ \E k \in DOMAIN s : (<<id>> \o s)[i] = s[k]
         /\ \A k \in DOMAIN s : \E i \in DOMAIN (<<id>> \o s) : (<<id>> \o s)[i] = s[k]
         /\ \E i \in DOMAIN (<<id>> \o s) : (<<id>> \o s)[i] = id
         /\ s # <<>> => Last(<<id>> \o s) = Last(s)
<1> DEFINE o == <<id>>
<1>1. o \in Seq(Nat) /\ o # <<>> /\ DOMAIN o = {1} /\ o[1] = id /\ Len(o) = 1
  OBVIOUS
<1> HIDE DEF o
<1>2. Descending(o) /\ Last(o) = id
  BY <1>1 DEF Descending, Last
<1>3. /\ o \o s \in Seq(Nat) /\ Descending(o \o s)
      /\ \A i \in DOMAIN (o \o s) :
           \/ \E k \in DOMAIN o : (o \o s)[i] = o[k]
           \/ \E k \in DOMAIN s : (o \o s)[i] = s[k]
      /\ \A k \in DOMAIN o : \E i \in DOMAIN (o \o s) : (o \o s)[i] = o[k]
      /\ \A k \in DOMAIN s : \E i \in DOMAIN (o \o s) : (o \o s)[i] = s[k]
      /\ s # <<>> => Last(o \o s) = Last(s)
      /\ o \o s # <<>>
  BY <1>1, <1>2, JoinFacts, ZenonT(60)
<1> DEFINE u == o \o s
<1> HIDE DEF u
<1>4. /\ \A i \in DOMAIN u : u[i] = id \/ \E k \in DOMAIN s : u[i] = s[k]
      /\ \E i \in DOMAIN u : u[i] = id
  BY <1>1, <1>3 DEF u
<1> QED BY <1>3, <1>4 DEF o, u

\* What becomes of the message id of the dialog with p, whose state is st: the state
\* is left as it is, the message is given to the application, or it is held.
Outcome(id, p, st) ==
  /\ top' = [top EXCEPT ![p] = id]
  /\ state' \in [Peers -> DialogState]
  /\ \A q \in Peers : q # p => state'[q] = state[q]
  /\ repeated' = {}
  /\ \/ /\ sync = "notStarted"
        /\ state'[p] = st /\ delivered' = delivered
     \/ /\ sync # "notStarted" /\ (st.synced \/ ~IsValid(st))
        /\ state'[p].synced /\ state'[p].syncedMessageId = id /\ state'[p].pendingIds = <<>>
        /\ delivered' = delivered \cup {id}
     \/ /\ sync # "notStarted" /\ ~st.synced /\ IsValid(st)
        /\ ~state'[p].synced /\ state'[p].syncedMessageId = st.syncedMessageId
        /\ state'[p].pendingIds = <<id>> \o st.pendingIds
        /\ delivered' = delivered

\* processNewMessage leaves the state of the dialog as it is, gives the message to the
\* application or holds it.
LEMMA ProcessFacts ==
  ASSUME Types, Dialogs, Given, NEW id \in DOMAIN history, NEW p \in Peers, history[id] = p,
         id > top[p], id > state[p].syncedMessageId,
         NEW st \in DialogState, st.synced = state[p].synced, st.pendingIds = state[p].pendingIds,
         ProcessNewMessage(id, st)
  PROVE  Outcome(id, p, st)
<1> DEFINE f == SyncAndFilterMessage(p, st, id)
           new == IF sync # "notStarted" THEN f.state ELSE st
           gift == IF sync # "notStarted" THEN f.given ELSE <<>>
           list == [q \in {p} |-> gift]
<1>0. /\ id \in Nat /\ top[p] \in Nat /\ state[p].syncedMessageId \in Nat
      /\ state \in [Peers -> DialogState] /\ st.pendingIds \in Seq(Nat)
  BY TypeFacts DEF Types, DialogState
<1>1. /\ top' = [top EXCEPT ![p] = id]
      /\ state' = [state EXCEPT ![p] = new]
      /\ Give(list, {p})
  <2>1. ~(top[p] >= id)
    BY <1>0
  <2> QED BY <2>1 DEF ProcessNewMessage
<1>2. <<id>> \o st.pendingIds \in Seq(Nat)
  BY <1>0
<1>3. CASE sync = "notStarted"
  <2>1. new = st /\ gift = <<>>
    BY <1>3
  <2> HIDE DEF new, gift
  <2>2. list[p] = <<>>
    BY <2>1
  <2> HIDE DEF list
  <2>3. repeated' = {} /\ delivered' = delivered
    BY <1>1, <2>2, GiveNothing DEF Given
  <2> QED BY <1>0, <1>1, <1>3, <2>1, <2>3 DEF Outcome
<1>4. CASE sync # "notStarted" /\ (st.synced \/ ~IsValid(st))
  <2> DEFINE s2 == [st EXCEPT !.synced = TRUE, !.syncedMessageId = id]
  <2>1. new = s2 /\ gift = <<id>>
    BY <1>4 DEF SyncAndFilterMessage
  <2>2. s2 \in DialogState /\ s2.synced = TRUE /\ s2.syncedMessageId = id /\ s2.pendingIds = st.pendingIds
    BY <1>0, StateUpdates, ZenonT(60)
  <2>3. st.pendingIds = <<>>
    BY <1>4 DEF Dialogs, IsValid
  <2> HIDE DEF new, gift, s2
  <2>4. list[p] = <<id>>
    BY <2>1
  <2> HIDE DEF list
  <2>6. id \notin delivered
    BY <1>0 DEF Given
  <2>7. repeated' = {} /\ delivered' = delivered \cup {id}
    BY <1>0, <1>1, <2>4, <2>6, GiveOne DEF Given
  <2>9. /\ state' \in [Peers -> DialogState] /\ state'[p] = s2
        /\ \A q \in Peers : q # p => state'[q] = state[q]
    BY <1>0, <1>1, <2>1, <2>2
  <2> QED BY <1>1, <1>4, <2>2, <2>3, <2>7, <2>9 DEF Outcome
<1>5. CASE sync # "notStarted" /\ ~st.synced /\ IsValid(st)
  <2> DEFINE ids == <<id>> \o st.pendingIds
             s2 == [st EXCEPT !.pendingIds = ids]
  <2>1. new = s2 /\ gift = <<>>
    BY <1>5 DEF SyncAndFilterMessage
  <2> HIDE DEF ids
  <2>2. /\ s2 \in DialogState /\ s2.synced = st.synced
        /\ s2.syncedMessageId = st.syncedMessageId /\ s2.pendingIds = ids
    BY <1>2, StateUpdates, ZenonT(60) DEF ids
  <2> HIDE DEF new, gift, s2
  <2>3. list[p] = <<>>
    BY <2>1
  <2> HIDE DEF list
  <2>4. repeated' = {} /\ delivered' = delivered
    BY <1>1, <2>3, GiveNothing DEF Given
  <2>6. /\ state' \in [Peers -> DialogState] /\ state'[p] = s2
        /\ \A q \in Peers : q # p => state'[q] = state[q]
    BY <1>0, <1>1, <2>1, <2>2
  <2> QED BY <1>1, <1>5, <2>2, <2>4, <2>6 DEF ids, Outcome
<1> QED BY <1>3, <1>4, <1>5

\* The message at the head of the queue is examined.
LEMMA NewsFacts ==
  ASSUME Base, wire # <<>>, wire' = Tail(wire), IsNews(Head(wire)),
         NEW id, id = Head(wire).id, NEW p, p = history[id],
         NEW st \in DialogState, st.synced = state[p].synced, st.pendingIds = state[p].pendingIds,
         ProcessNewMessage(id, st)
  PROVE  /\ wire' \in Seq(Message)
         /\ Elems(wire) = {Head(wire)} \cup Elems(wire')
         /\ AllApart(wire') /\ InTurn(history, wire')
         /\ \A e \in Elems(wire') : Turn(history, Head(wire), e)
         /\ \A r \in Elems(requests), e \in Elems(wire') : Apart(r, e)
         /\ id \in DOMAIN history /\ p \in Peers /\ id \in Nat /\ id # 0 /\ id \in Ids(p)
         /\ id > top[p] /\ id > state[p].syncedMessageId
         /\ Outcome(id, p, st)
<1>1. Types /\ Dialogs /\ News /\ Order /\ Given /\ history[id] = p
  BY DEF Base
<1>2. /\ wire' \in Seq(Message)
      /\ Elems(wire) = {Head(wire)} \cup Elems(wire')
      /\ AllApart(wire') /\ InTurn(history, wire')
      /\ \A e \in Elems(wire') : Turn(history, Head(wire), e)
      /\ \A r \in Elems(requests), e \in Elems(wire') : Apart(r, e)
  BY <1>1, MessageTaken
<1>3. /\ id \in DOMAIN history /\ p \in Peers /\ id \in Nat /\ id # 0 /\ id \in Ids(p)
      /\ id > top[p] /\ id > state[p].syncedMessageId
  <2>1. Head(wire) \in Elems(wire)
    BY <1>2
  <2>2. id \in DOMAIN history /\ id > top[p] /\ id > state[p].syncedMessageId
    BY <1>1, <2>1 DEF News
  <2> QED BY <1>1, <2>2, TypeFacts
<1>4. Outcome(id, p, st)
  BY <1>1, <1>3, ProcessFacts, Zenon
<1> QED BY <1>2, <1>3, <1>4

\* A message of the server is examined: what is left of Base.
LEMMA NewsTaken ==
  ASSUME Base, wire # <<>>, wire' = Tail(wire), IsNews(Head(wire)),
         NEW id, id = Head(wire).id, NEW p, p = history[id],
         NEW st \in DialogState, st.synced = state[p].synced, st.pendingIds = state[p].pendingIds,
         st.syncedMessageId \in {state[p].syncedMessageId, id},
         ProcessNewMessage(id, st), disturbed' \in BOOLEAN,
         UNCHANGED <<history, requests, online, limit, sync, jobs, listed, saved, saves>>
  PROVE  Base' /\ InOrder
<1> DEFINE m == Head(wire)
           old == state[p].pendingIds
           ids == <<id>> \o old
<1>0. /\ Types /\ Dialogs /\ News /\ Order /\ Given /\ Phase /\ Counted /\ Asks
  BY DEF Base
<1>1. /\ wire' \in Seq(Message)
      /\ Elems(wire) = {m} \cup Elems(wire')
      /\ AllApart(wire') /\ InTurn(history, wire')
      /\ \A e \in Elems(wire') : Turn(history, m, e)
      /\ \A r \in Elems(requests), e \in Elems(wire') : Apart(r, e)
  BY NewsFacts, Zenon
<1>2. /\ id \in DOMAIN history /\ p \in Peers /\ id \in Nat /\ id # 0 /\ id \in Ids(p)
      /\ id > top[p] /\ id > state[p].syncedMessageId
  BY NewsFacts, ZenonT(60)
<1>3. /\ top' = [top EXCEPT ![p] = id]
      /\ state' \in [Peers -> DialogState]
      /\ \A q \in Peers : q # p => state'[q] = state[q]
      /\ repeated' = {}
      /\ \/ /\ sync = "notStarted"
            /\ state'[p] = st /\ delivered' = delivered
         \/ /\ sync # "notStarted" /\ (st.synced \/ ~IsValid(st))
            /\ state'[p].synced /\ state'[p].syncedMessageId = id /\ state'[p].pendingIds = <<>>
            /\ delivered' = delivered \cup {id}
         \/ /\ sync # "notStarted" /\ ~st.synced /\ IsValid(st)
            /\ ~state'[p].synced /\ state'[p].syncedMessageId = st.syncedMessageId
            /\ state'[p].pendingIds = ids
            /\ delivered' = delivered
  <2>1. ids = <<id>> \o st.pendingIds
    OBVIOUS
  <2> HIDE DEF ids
  <2>2. Outcome(id, p, st)
    BY NewsFacts, Zenon
  <2> QED BY <2>1, <2>2, ZenonT(30) DEF Outcome
<1>4. /\ old \in Seq(Nat) /\ Descending(old) /\ top[p] \in Nat /\ state[p].syncedMessageId \in Nat
      /\ \A k \in DOMAIN old : old[k] \in Nat /\ old[k] \in Ids(p) /\ old[k] <= top[p]
  BY <1>0, <1>2, TypeFacts, SMTT(40) DEF Dialogs
<1>5. /\ ids \in Seq(Nat) /\ Descending(ids) /\ ids # <<>>
      /\ \A i \in DOMAIN ids : ids[i] = id \/ \E k \in DOMAIN old : ids[i] = old[k]
      /\ old # <<>> => Last(ids) = Last(old)
  <2> HIDE DEF old
  <2>1. \A k \in DOMAIN old : old[k] < id
    BY <1>2, <1>4, SMTT(40)
  <2> QED BY <1>2, <1>4, <2>1, PrependFacts, ZenonT(60)
<1> HIDE DEF ids
<1>6. /\ state'[p].syncedMessageId \in {state[p].syncedMessageId, id}
      /\ state'[p].pendingIds \in {old, ids, <<>>}
      /\ state'[p].synced => state'[p].pendingIds = <<>>
      /\ old # <<>> => /\ state'[p].pendingIds \in {old, ids}
                       /\ state[p].synced = state'[p].synced
      /\ sync = "notStarted" => /\ state'[p].pendingIds = old
                                /\ state'[p].synced = state[p].synced
  <2>1. state[p].synced => old = <<>>
    BY <1>0, <1>2 DEF Dialogs
  <2>2. old # <<>> => IsValid(st) /\ ~st.synced
    BY <2>1 DEF IsValid
  <2>3. CASE sync = "notStarted"
    BY <1>3, <2>1, <2>3, SMTT(40)
  <2>4. CASE sync # "notStarted" /\ (st.synced \/ ~IsValid(st))
    BY <1>3, <2>2, <2>4
  <2>5. CASE sync # "notStarted" /\ ~st.synced /\ IsValid(st)
    <3>1. state[p].synced \in BOOLEAN /\ state'[p].synced \in BOOLEAN
      BY <1>0, <1>2, <1>3, TypeFacts DEF DialogState
    <3>2. /\ ~state'[p].synced /\ state'[p].syncedMessageId = st.syncedMessageId
          /\ state'[p].pendingIds = ids
      BY <1>3, <2>5
    <3>3. state[p].synced = FALSE /\ state'[p].synced = FALSE
      BY <2>5, <3>1, <3>2
    <3> QED BY <2>5, <3>2, <3>3
  <2> QED BY <2>3, <2>4, <2>5, ZenonT(30)
<1>7. \A q \in Peers : top'[q] = IF q = p THEN id ELSE top[q]
  BY <1>0, <1>3 DEF Types
<1>8. \A q : Ids(q)' = Ids(q)
  BY DEF Ids
<1>9. Types'
  <2>1. top' \in [Peers -> Nat]
    BY <1>0, <1>2, <1>3 DEF Types
  <2> QED BY <1>0, <1>1, <1>3, <2>1 DEF Types
<1>10. Dialogs'
  <2> SUFFICES ASSUME NEW q \in Peers
               PROVE  /\ Descending(state'[q].pendingIds)
                      /\ \A i \in DOMAIN state'[q].pendingIds :
                           state'[q].pendingIds[i] \in Ids(q) /\ state'[q].pendingIds[i] <= top'[q]
                      /\ state'[q].synced => state'[q].pendingIds = <<>>
                      /\ state'[q].syncedMessageId \in Ids(q) \cup {0}
                      /\ saved[q] \in Ids(q) \cup {0}
                      /\ top'[q] \in Ids(q) \cup {0}
    BY <1>8, SMTT(40) DEF Dialogs
  <2>1. CASE q # p
    BY <1>0, <1>3, <1>7, <2>1, SMTT(40) DEF Dialogs
  <2>2. CASE q = p
    <3>1. \A k \in DOMAIN old : old[k] \in Ids(p) /\ old[k] <= id
      <4> HIDE DEF old
      <4> QED BY <1>2, <1>4
    <3>2. \A k \in DOMAIN ids : ids[k] \in Ids(p) /\ ids[k] <= id
      BY <1>2, <1>5, <3>1
    <3>3. Descending(<<>>)
      BY DEF Descending
    <3>4. state[p].syncedMessageId \in Ids(p) \cup {0} /\ saved[p] \in Ids(p) \cup {0}
      BY <1>0, <1>2 DEF Dialogs
    <3>5. top'[p] = id
      BY <1>2, <1>7
    <3> HIDE DEF old
    <3>6. \A k \in DOMAIN state'[p].pendingIds :
            state'[p].pendingIds[k] \in Ids(p) /\ state'[p].pendingIds[k] <= id
      BY <1>6, <3>1, <3>2
    <3>7. Descending(state'[p].pendingIds)
      BY <1>4, <1>5, <1>6, <3>3
    <3> QED BY <1>2, <1>6, <2>2, <3>4, <3>5, <3>6, <3>7
  <2> QED BY <2>1, <2>2
<1>11. News'
  <2>1. ASSUME NEW e \in Elems(wire'), IsNews(e)
        PROVE  e.id > top'[history[e.id]] /\ e.id > state'[history[e.id]].syncedMessageId
    <3> DEFINE q == history[e.id]
    <3>1. /\ e \in Elems(wire) /\ e.id \in DOMAIN history
          /\ e.id > top[q] /\ e.id > state[q].syncedMessageId
      BY <1>0, <1>1, <2>1 DEF News
    <3>2. id < e.id
      BY <1>1, <2>1 DEF Turn
    <3>3. q \in Peers /\ e.id \in Nat
      BY <1>0, <3>1, TypeFacts, SMTT(40)
    <3>4. CASE q # p
      BY <1>3, <1>7, <3>1, <3>3, <3>4
    <3>5. CASE q = p
      <4>1. top'[p] = id
        BY <1>2, <1>7
      <4>2. e.id > state'[p].syncedMessageId
        BY <1>2, <1>6, <3>1, <3>2, <3>3, <3>5
      <4> QED BY <1>2, <3>2, <3>3, <3>5, <4>1, <4>2
    <3> QED BY <3>4, <3>5
  <2> QED BY <1>0, <1>1, <1>8, <2>1 DEF News
<1>12. Order'
  BY <1>0, <1>1 DEF Order
<1>13. Given'
  <2> SUFFICES ASSUME NEW x \in delivered'
               PROVE  /\ x \in DOMAIN history
                      /\ x <= state'[history[x]].syncedMessageId
                      /\ \A i \in DOMAIN state'[history[x]].pendingIds :
                           x < state'[history[x]].pendingIds[i]
    BY <1>3 DEF Given
  <2>1. CASE x \in delivered
    <3>1. /\ x \in DOMAIN history
          /\ x <= state[history[x]].syncedMessageId
          /\ \A i \in DOMAIN state[history[x]].pendingIds :
               x < state[history[x]].pendingIds[i]
      BY <1>0, <2>1 DEF Given
    <3>2. history[x] \in Peers /\ x \in Nat
      BY <1>0, <3>1, TypeFacts
    <3>3. CASE history[x] # p
      BY <1>3, <3>1, <3>2, <3>3, SMTT(40)
    <3>4. CASE history[x] = p
      <4>1. x < id /\ x <= state'[p].syncedMessageId
        BY <1>2, <1>4, <1>6, <3>1, <3>2, <3>4, SMTT(40)
      <4>2. \A i \in DOMAIN ids : x < ids[i]
        BY <1>5, <3>1, <3>4, <4>1
      <4>3. \A i \in DOMAIN <<>> : x < <<>>[i]
        OBVIOUS
      <4>4. \A i \in DOMAIN old : x < old[i]
        BY <3>1, <3>4
      <4> HIDE DEF old
      <4>5. \A i \in DOMAIN state'[p].pendingIds : x < state'[p].pendingIds[i]
        BY <1>6, <4>2, <4>3, <4>4
      <4> QED BY <3>1, <3>4, <4>1, <4>5, Zenon
    <3> QED BY <3>3, <3>4
  <2>2. CASE x \notin delivered
    <3>1. x = id /\ state'[p].syncedMessageId = id /\ state'[p].pendingIds = <<>>
      BY <1>3, <2>2
    <3> QED BY <1>2, <3>1
  <2> QED BY <2>1, <2>2, SMTT(40)
<1>14. Phase'
  <2>1. sync = "notStarted" => \A q \in Peers : state'[q].pendingIds = <<>> /\ ~state'[q].synced
    BY <1>0, <1>3, <1>6 DEF Phase
  <2>2. wire # <<>> => online
    BY <1>0 DEF Phase
  <2> QED BY <1>0, <1>1, <2>1, <2>2 DEF Phase
<1>15. \A q : Asked(q)' <=> Asked(q)
  <2>1. m.type # "history"
    BY DEF IsNews
  <2> HIDE DEF m
  <2> QED BY <1>1, <2>1 DEF Asked, AsksFor
<1>16. Counted'
  <2>1. AskedPeers' = AskedPeers
    BY <1>15, Zenon DEF AskedPeers
  <2> QED BY <1>0, <2>1 DEF Counted
<1>17. \A q \in Peers : Asked(q) =>
         /\ ~state'[q].synced /\ state'[q].pendingIds # <<>>
         /\ Last(state'[q].pendingIds) = Last(state[q].pendingIds)
         /\ state[q].syncedMessageId <= state'[q].syncedMessageId
  <2> SUFFICES ASSUME NEW q \in Peers, Asked(q)
               PROVE  /\ ~state'[q].synced /\ state'[q].pendingIds # <<>>
                      /\ Last(state'[q].pendingIds) = Last(state[q].pendingIds)
                      /\ state[q].syncedMessageId <= state'[q].syncedMessageId
    OBVIOUS
  <2>1. ~state[q].synced /\ state[q].pendingIds # <<>>
    BY <1>0 DEF Asks
  <2>2. CASE q # p
    <3>1. state'[q] = state[q] /\ state[q].syncedMessageId \in Nat
      BY <1>0, <1>3, <2>2, TypeFacts, SMTT(40)
    <3> QED BY <2>1, <3>1, SMTT(40)
  <2>3. CASE q = p
    <3>1. state[p].syncedMessageId <= state'[p].syncedMessageId
      BY <1>2, <1>4, <1>6
    <3> QED BY <1>5, <1>6, <2>1, <2>3, <3>1, ZenonT(30)
  <2> QED BY <2>2, <2>3
<1>18. Asks'
  <2>1. \A r \in Elems(requests) : r.type = "history" => Asked(r.peer) /\ r.peer \in Peers /\ r.minId \in Nat
    BY <1>0, TypeFacts, Fields DEF Asked, AsksFor
  <2>2. \A e \in Elems(wire') : e.type = "history" => Asked(e.peer) /\ e.peer \in Peers
    BY <1>0, <1>1, TypeFacts, Fields DEF Asked, AsksFor
  <2>3. \A r \in Elems(requests) : r.type = "history" => r.minId <= state'[r.peer].syncedMessageId
    <3> SUFFICES ASSUME NEW r \in Elems(requests), r.type = "history"
                 PROVE  r.minId <= state'[r.peer].syncedMessageId
      OBVIOUS
    <3>1. /\ r.minId <= state[r.peer].syncedMessageId /\ r.minId \in Nat /\ r.peer \in Peers
          /\ state[r.peer].syncedMessageId <= state'[r.peer].syncedMessageId
      BY <1>0, <1>17, <2>1, SMTT(40) DEF Asks
    <3>2. state[r.peer].syncedMessageId \in Nat /\ state'[r.peer].syncedMessageId \in Nat
      BY <1>0, <1>3, <3>1, TypeFacts DEF DialogState
    <3> QED BY <3>1, <3>2
  <2> QED BY <1>0, <1>1, <1>8, <1>15, <1>17, <2>1, <2>2, <2>3 DEF Asks
<1>19. InOrder
  <2> SUFFICES ASSUME NEW new \in delivered' \ delivered, NEW given \in delivered,
                      history[new] = history[given]
               PROVE  new > given
    BY DEF InOrder
  <2>1. new = id
    BY <1>3
  <2>2. given <= state[p].syncedMessageId /\ given \in Nat
    BY <1>0, <2>1, TypeFacts DEF Given
  <2> QED BY <1>2, <1>4, <2>1, <2>2
<1> QED BY <1>9, <1>10, <1>11, <1>12, <1>13, <1>14, <1>16, <1>18, <1>19 DEF Base

\* The same of Whole, when nothing disturbs the synchronization.
LEMMA NewsWhole ==
  ASSUME Base, wire # <<>>, wire' = Tail(wire), IsNews(Head(wire)),
         NEW id, id = Head(wire).id, NEW p, p = history[id],
         NEW st \in DialogState, st.synced = state[p].synced, st.pendingIds = state[p].pendingIds,
         ProcessNewMessage(id, st), ~disturbed, Whole,
         st = state[p] \/ state[p].synced,
         UNCHANGED <<history, requests, online, limit, sync, jobs, listed, saved, saves,
                     omitted, forgone>>
  PROVE  Whole'
<1> DEFINE m == Head(wire)
           old == state[p].pendingIds
           ids == <<id>> \o old
<1>0. /\ Types /\ Dialogs /\ News /\ Order /\ Given /\ Phase /\ Counted /\ Asks
      /\ listed => online
      /\ DialogsWhole /\ ListSent /\ ListWhole /\ AnswerWhole /\ LeftOut /\ MarksGiven
  BY DEF Base, Whole
<1>1. /\ Elems(wire) = {m} \cup Elems(wire')
      /\ \A e \in Elems(wire') : Turn(history, m, e)
  BY NewsFacts, Zenon
<1>2. /\ id \in DOMAIN history /\ p \in Peers /\ id \in Nat /\ id # 0 /\ id \in Ids(p)
      /\ id > top[p] /\ id > state[p].syncedMessageId
  BY NewsFacts, ZenonT(60)
<1>3. /\ top' = [top EXCEPT ![p] = id]
      /\ \A q \in Peers : q # p => state'[q] = state[q]
      /\ \/ /\ sync = "notStarted"
            /\ state'[p] = st /\ delivered' = delivered
         \/ /\ sync # "notStarted" /\ (st.synced \/ ~IsValid(st))
            /\ state'[p].synced /\ state'[p].syncedMessageId = id /\ state'[p].pendingIds = <<>>
            /\ delivered' = delivered \cup {id}
         \/ /\ sync # "notStarted" /\ ~st.synced /\ IsValid(st)
            /\ ~state'[p].synced /\ state'[p].syncedMessageId = st.syncedMessageId
            /\ state'[p].pendingIds = ids
            /\ delivered' = delivered
  <2>1. ids = <<id>> \o st.pendingIds
    OBVIOUS
  <2> HIDE DEF ids
  <2>2. Outcome(id, p, st)
    BY NewsFacts, Zenon
  <2> QED BY <2>1, <2>2, ZenonT(30) DEF Outcome
<1>4. /\ old \in Seq(Nat) /\ Descending(old) /\ top[p] \in Nat /\ state[p].syncedMessageId \in Nat
      /\ \A k \in DOMAIN old : old[k] \in Nat /\ old[k] \in Ids(p) /\ old[k] <= top[p]
  BY <1>0, <1>2, TypeFacts, SMTT(40) DEF Dialogs
<1>5. /\ ids # <<>>
      /\ \A k \in DOMAIN old : \E i \in DOMAIN ids : ids[i] = old[k]
      /\ \E i \in DOMAIN ids : ids[i] = id
      /\ old # <<>> => Last(ids) = Last(old)
  <2> HIDE DEF old
  <2>1. \A k \in DOMAIN old : old[k] < id
    BY <1>2, <1>4
  <2>2. id \in Nat /\ old \in Seq(Nat) /\ Descending(old)
    BY <1>2, <1>4
  <2> QED BY <2>1, <2>2, PrependFacts, ZenonT(60)
<1> HIDE DEF ids
<1>6. /\ \A x : OnWire(x) => OnWire(x)' \/ x = id
      /\ \A x : OnWire(x)' => OnWire(x) /\ x > id
  <2>1. ASSUME NEW x, OnWire(x) PROVE OnWire(x)' \/ x = id
    BY <1>1, <2>1 DEF OnWire
  <2>2. ASSUME NEW x, OnWire(x)' PROVE OnWire(x) /\ x > id
    <3>1. PICK e \in Elems(wire') : IsNews(e) /\ e.id = x
      BY <2>2 DEF OnWire
    <3>2. id < x
      BY <1>1, <3>1 DEF Turn
    <3>3. x \in DOMAIN history
      BY <1>0, <1>1, <3>1 DEF News
    <3>4. x \in Nat
      BY <1>0, <3>3, TypeFacts
    <3> QED BY <1>1, <1>2, <3>1, <3>2, <3>4 DEF OnWire
  <2> QED BY <2>1, <2>2
<1>7. \A q : Ids(q)' = Ids(q)
  BY DEF Ids
<1>8. \A q : Asked(q)' <=> Asked(q)
  <2>1. m.type # "history"
    BY DEF IsNews
  <2> HIDE DEF m
  <2> QED BY <1>1, <2>1 DEF Asked, AsksFor
<1>9. /\ \A q \in Peers : top'[q] = IF q = p THEN id ELSE top[q]
      /\ \A q : \A x \in Ids(q) : x \in Nat /\ (x = id => q = p)
  <2>1. \A q \in Peers : top'[q] = IF q = p THEN id ELSE top[q]
    BY <1>0, <1>3 DEF Types
  <2> QED BY <1>0, <2>1, TypeFacts
<1>10. CASE sync = "notStarted"
  <2>1. state[p].synced = FALSE /\ st = state[p]
    <3>1. ~state[p].synced /\ state[p].synced \in BOOLEAN
      BY <1>0, <1>2, <1>10, TypeFacts DEF Phase
    <3> QED BY <3>1
  <2>2. delivered' = delivered /\ \A q \in Peers : state'[q] = state[q]
    BY <1>3, <1>10, <2>1
  <2>3. DialogsWhole'
    BY <1>10 DEF DialogsWhole
  <2>4. ListSent'
    <3> SUFFICES ASSUME NEW e \in Elems(wire'), e.type = "dialogs", NEW q \in Peers
                 PROVE  /\ state[q].syncedMessageId # 0 => e.top[q] # 0
                        /\ \A x \in Ids(q) : x <= e.top[q] \/ OnWire(x)'
      BY <1>7, <2>2 DEF ListSent
    <3>1. /\ state[q].syncedMessageId # 0 => e.top[q] # 0
          /\ \A x \in Ids(q) : x <= e.top[q] \/ OnWire(x)
      BY <1>0, <1>1 DEF ListSent
    <3>2. id <= e.top[p]
      BY <1>1 DEF Turn
    <3> QED BY <1>6, <1>9, <3>1, <3>2
  <2>5. ListWhole'
    <3> SUFFICES ASSUME listed, NEW q \in Peers
                 PROVE  /\ state[q].syncedMessageId # 0 => top'[q] # 0
                        /\ \A x \in Ids(q) : x <= top'[q] \/ OnWire(x)'
      BY <1>7, <2>2 DEF ListWhole
    <3>1. /\ state[q].syncedMessageId # 0 => top[q] # 0
          /\ \A x \in Ids(q) : x <= top[q] \/ OnWire(x)
      BY <1>0, <1>10 DEF ListWhole
    <3>2. CASE q = p
      <4>1. top'[q] = id
        BY <1>9, <3>2
      <4>2. \A x \in Ids(q) : x <= id \/ OnWire(x)'
        <5> SUFFICES ASSUME NEW x \in Ids(q), ~OnWire(x)' PROVE x <= id
          OBVIOUS
        <5>1. x <= top[p] \/ x = id
          BY <1>6, <3>1, <3>2
        <5> QED BY <1>2, <1>4, <1>9, <5>1
      <4> QED BY <1>2, <4>1, <4>2
    <3>3. CASE q # p
      BY <1>6, <1>9, <3>1, <3>3
    <3> QED BY <3>2, <3>3
  <2>6. AnswerWhole'
    <3>1. \A e \in Elems(wire') : e.type = "history" => e.peer \in Peers
      BY <1>0, <1>1, TypeFacts, Fields
    <3> QED BY <1>0, <1>1, <1>7, <2>2, <3>1 DEF AnswerWhole
  <2>7. MarksGiven'
    <3>1. \A x \in DOMAIN history : history[x] \in Peers
      BY <1>0, TypeFacts
    <3> QED BY <1>0, <2>2, <3>1 DEF MarksGiven, NothingMissed
  <2>8. LeftOut'
    BY <1>0, <1>8, <2>2 DEF LeftOut
  <2> QED BY <1>0, <2>3, <2>4, <2>5, <2>6, <2>7, <2>8 DEF Whole
<1>11. CASE sync # "notStarted"
  <2>0. listed /\ \A e \in Elems(wire') : e.type # "dialogs"
    BY <1>0, <1>1, <1>11 DEF Phase
  <2>1. ListSent' /\ ListWhole'
    BY <1>11, <2>0 DEF ListSent, ListWhole
  <2>2. ASSUME NEW q \in Peers \ omitted, q # p
        PROVE  /\ state'[q].synced \/ Asked(q)' \/ state'[q] = NewState
               /\ \A x \in Ids(q)' :
                    \/ x <= state'[q].syncedMessageId
                    \/ Held(q, x)'
                    \/ Asked(q)' /\ x < Last(state'[q].pendingIds)
                    \/ OnWire(x)'
    <3>1. state'[q] = state[q]
      BY <1>3, <2>2
    <3>2. \A x : Held(q, x)' <=> Held(q, x)
      BY <3>1 DEF Held
    <3>3. /\ state[q].synced \/ Asked(q) \/ state[q] = NewState
          /\ \A x \in Ids(q) :
               \/ x <= state[q].syncedMessageId
               \/ Held(q, x)
               \/ Asked(q) /\ x < Last(state[q].pendingIds)
               \/ OnWire(x)
      BY <1>0, <1>11 DEF DialogsWhole
    <3> QED BY <1>6, <1>7, <1>8, <1>9, <2>2, <3>1, <3>2, <3>3
  <2>3. p \notin omitted =>
          /\ state[p].synced \/ Asked(p) \/ state[p] = NewState
          /\ \A x \in Ids(p) :
               \/ x <= state[p].syncedMessageId
               \/ Held(p, x)
               \/ Asked(p) /\ x < Last(old)
               \/ OnWire(x)
    BY <1>0, <1>2, <1>11 DEF DialogsWhole
  <2>4. CASE st.synced \/ ~IsValid(st)
    <3>1. /\ state'[p].synced /\ state'[p].syncedMessageId = id /\ state'[p].pendingIds = <<>>
          /\ delivered' = delivered \cup {id}
      BY <1>3, <1>11, <2>4
    <3>2. old = <<>> /\ ~Asked(p)
      <4>1. old = <<>>
        BY <1>0, <1>2, <2>4 DEF Dialogs, IsValid
      <4> QED BY <1>0, <1>2, <4>1 DEF Asks
    <3>3. \A x : ~Held(p, x)
      BY <3>2 DEF Held
    <3>4. p \notin omitted => \A x \in Ids(p) : x <= state[p].syncedMessageId \/ OnWire(x)
      BY <2>3, <3>2, <3>3
    <3>5. p \notin omitted => \A x \in Ids(p) : x <= id \/ OnWire(x)'
      <4> SUFFICES ASSUME p \notin omitted, NEW x \in Ids(p), ~OnWire(x)' PROVE x <= id
        OBVIOUS
      <4>1. x <= state[p].syncedMessageId \/ x = id
        BY <1>6, <3>4
      <4> QED BY <1>2, <1>4, <1>9, <4>1
    <3>6. DialogsWhole'
      <4>1. p \notin omitted => \A x \in Ids(p)' : x <= state'[p].syncedMessageId \/ OnWire(x)'
        BY <1>7, <3>1, <3>5
      <4> QED BY <2>2, <3>1, <4>1 DEF DialogsWhole
    <3>7. AnswerWhole'
      <4>1. \A e \in Elems(wire') : e.type = "history" => e.peer \in Peers /\ e.peer # p
        BY <1>0, <1>1, <3>2, TypeFacts, Fields DEF Asked, AsksFor
      <4> QED BY <1>0, <1>1, <1>3, <1>7, <4>1 DEF AnswerWhole
    <3>8. p \in omitted => p \in forgone
      <4>1. p \in omitted /\ p \notin forgone =>
              state[p].synced = FALSE /\ state[p].syncedMessageId # 0
        BY <1>0, <1>2 DEF LeftOut
      <4>2. state[p].synced = FALSE => ~st.synced /\ st = state[p]
        OBVIOUS
      <4> QED BY <2>4, <4>1, <4>2 DEF IsValid
    <3>9. MarksGiven'
      <4>1. ASSUME NEW x \in DOMAIN history, history[x] \notin forgone,
                   x <= state'[history[x]].syncedMessageId \/ x <= saved[history[x]]
            PROVE  x \in delivered \cup {id}
        <5>1. history[x] \in Peers /\ x \in Nat /\ x \in Ids(history[x])
          BY <1>0, TypeFacts
        <5>2. CASE x <= saved[history[x]] \/ history[x] # p
          BY <1>0, <1>3, <4>1, <5>1, <5>2 DEF MarksGiven, NothingMissed
        <5>3. CASE history[x] = p /\ x <= state'[history[x]].syncedMessageId
          <6>1. x <= id /\ x \in Ids(p) /\ p \notin omitted
            BY <3>1, <3>8, <4>1, <5>1, <5>3
          <6>2. ~OnWire(x)'
            BY <1>2, <1>6, <5>1, <6>1
          <6>3. x <= state[p].syncedMessageId \/ x = id
            BY <1>6, <3>4, <6>1, <6>2
          <6> QED BY <1>0, <4>1, <5>3, <6>3 DEF MarksGiven, NothingMissed
        <5> QED BY <4>1, <5>2, <5>3
      <4>2. NothingMissed'
        BY <3>1, <4>1 DEF NothingMissed
      <4>3. \A q \in Peers : /\ state'[q].syncedMessageId \in (delivered \cup {id}) \cup {0}
                             /\ saved[q] \in (delivered \cup {id}) \cup {0}
        BY <1>0, <1>3, <3>1 DEF MarksGiven
      <4> QED BY <3>1, <4>2, <4>3 DEF MarksGiven
    <3>10. LeftOut'
      <4>1. \A q \in Peers : q \in omitted /\ q # p =>
              /\ ~Asked(q)
              /\ q \in forgone \/ (state'[q].synced = FALSE /\ state'[q].syncedMessageId # 0)
        BY <1>0, <1>3 DEF LeftOut
      <4> QED BY <1>8, <3>2, <3>8, <4>1 DEF LeftOut
    <3> QED BY <1>0, <2>1, <3>6, <3>7, <3>9, <3>10 DEF Whole
  <2>5. CASE ~st.synced /\ IsValid(st)
    <3>1. /\ ~state'[p].synced /\ state'[p].syncedMessageId = st.syncedMessageId
          /\ state'[p].pendingIds = ids /\ delivered' = delivered
      BY <1>3, <1>11, <2>5
    <3>2. st = state[p] /\ ~state[p].synced
      BY <2>5
    <3>3. p \notin omitted => Asked(p)
      <4>1. state[p] # NewState
        BY <2>5, <3>2 DEF NewState, IsValid
      <4> QED BY <2>3, <3>2, <4>1
    <3>4. Asked(p) => old # <<>>
      BY <1>0, <1>2 DEF Asks
    <3>5. /\ Asked(p) => Last(state'[p].pendingIds) = Last(old)
          /\ state'[p].syncedMessageId = state[p].syncedMessageId
      BY <1>5, <3>1, <3>2, <3>4
    <3>6. Held(p, id)' /\ \A x : Held(p, x) => Held(p, x)'
      <4>1. \A x : Held(p, x)' <=> \E k \in DOMAIN ids : ids[k] = x
        BY <3>1 DEF Held
      <4>2. \A x : Held(p, x) => \E k \in DOMAIN old : old[k] = x
        BY DEF Held
      <4> HIDE DEF old
      <4> QED BY <1>5, <4>1, <4>2
    <3>7. DialogsWhole'
      <4>1. p \notin omitted =>
              \A x \in Ids(p)' :
                \/ x <= state'[p].syncedMessageId
                \/ Held(p, x)'
                \/ Asked(p)' /\ x < Last(state'[p].pendingIds)
                \/ OnWire(x)'
        BY <1>6, <1>7, <1>8, <2>3, <3>3, <3>5, <3>6
      <4> QED BY <1>8, <2>2, <3>3, <4>1, SMTT(40) DEF DialogsWhole
    <3>8. \A q \in Peers : /\ Asked(q) => Last(state'[q].pendingIds) = Last(state[q].pendingIds)
                           /\ state'[q].syncedMessageId = state[q].syncedMessageId
      BY <1>3, <3>5
    <3>9. AnswerWhole'
      <4>1. \A e \in Elems(wire') : e.type = "history" => e.peer \in Peers /\ Asked(e.peer)
        BY <1>0, <1>1, TypeFacts, Fields DEF Asked, AsksFor
      <4> QED BY <1>0, <1>1, <1>7, <3>8, <4>1 DEF AnswerWhole
    <3>10. MarksGiven'
      <4>1. \A x \in DOMAIN history : history[x] \in Peers
        BY <1>0, TypeFacts
      <4> QED BY <1>0, <3>1, <3>8, <4>1 DEF MarksGiven, NothingMissed
    <3>11. LeftOut'
      <4>1. \A q \in Peers : q # p => state'[q] = state[q]
        BY <1>3
      <4>2. state'[p].synced = FALSE
        <5>1. state'[p] \in DialogState
          BY <1>2, NewsFacts, ZenonT(60) DEF Outcome
        <5> QED BY <3>1, <5>1 DEF DialogState
      <4> QED BY <1>0, <1>8, <3>5, <4>1, <4>2 DEF LeftOut
    <3> QED BY <1>0, <2>1, <3>7, <3>9, <3>10, <3>11 DEF Whole
  <2> QED BY <2>4, <2>5
<1> QED BY <1>10, <1>11

\* onMessageReceived
LEMMA ReceiveNewMessageSyncInv == SyncInv /\ ReceiveNewMessage => SyncInv' /\ InOrder
<1> SUFFICES ASSUME SyncInv, ReceiveNewMessage PROVE SyncInv' /\ InOrder
  OBVIOUS
<1> USE DEF savedVars, listVars
<1> DEFINE id == Head(wire).id
           p == history[id]
           st == state[p]
<1>1. /\ Base /\ wire # <<>> /\ wire' = Tail(wire) /\ IsNews(Head(wire))
      /\ ProcessNewMessage(id, st)
      /\ UNCHANGED <<history, requests, online, limit, sync, jobs, listed, saved, saves,
                     omitted, forgone, disturbed>>
  BY DEF SyncInv, ReceiveNewMessage, IsNews
<1>2. Types /\ News /\ Order
  BY <1>1 DEF Base
<1>3. st \in DialogState /\ disturbed \in BOOLEAN
  <2>1. Head(wire) \in Elems(wire)
    BY <1>1, <1>2, MessageTaken
  <2>2. id \in DOMAIN history
    BY <1>1, <1>2, <2>1 DEF News
  <2> QED BY <1>2, <2>2, TypeFacts DEF Types
<1> HIDE DEF id, p, st
<1>4. st = state[p] /\ id = Head(wire).id /\ p = history[id]
  BY DEF id, p, st
<1>5. Base' /\ InOrder
  <2>1. /\ st.synced = state[p].synced /\ st.pendingIds = state[p].pendingIds
        /\ st.syncedMessageId \in {state[p].syncedMessageId, id}
    BY <1>4
  <2> QED BY <1>1, <1>3, <1>4, <2>1, NewsTaken
<1>6. ASSUME ~disturbed PROVE Whole'
  <2>1. st.synced = state[p].synced /\ st.pendingIds = state[p].pendingIds /\ Whole
    BY <1>4 DEF SyncInv
  <2> QED BY <1>1, <1>3, <1>4, <1>6, <2>1, NewsWhole
<1>7. CASE disturbed
  BY <1>1, <1>5, <1>7 DEF SyncInv, Whole
<1> QED BY <1>5, <1>6, <1>7 DEF SyncInv

\* onSendMessageResult
LEMMA ReceiveSentSyncInv == SyncInv /\ ReceiveSent => SyncInv' /\ InOrder
<1> SUFFICES ASSUME SyncInv, ReceiveSent PROVE SyncInv' /\ InOrder
  OBVIOUS
<1> USE DEF savedVars, listVars
<1> DEFINE id == Head(wire).id
           p == history[id]
           st == [state[p] EXCEPT !.syncedMessageId = id]
<1>1. /\ Base /\ wire # <<>> /\ wire' = Tail(wire) /\ IsNews(Head(wire))
      /\ ProcessNewMessage(id, st)
      /\ disturbed' = (disturbed \/ ~state[p].synced)
      /\ UNCHANGED <<history, requests, online, limit, sync, jobs, listed, saved, saves,
                     omitted, forgone>>
  BY DEF SyncInv, ReceiveSent, IsNews
<1>2. Types /\ News /\ Order
  BY <1>1 DEF Base
<1>3. /\ st \in DialogState /\ disturbed' \in BOOLEAN
      /\ st.synced = state[p].synced /\ st.pendingIds = state[p].pendingIds
      /\ st.syncedMessageId = id
  <2>1. Head(wire) \in Elems(wire)
    BY <1>1, <1>2, MessageTaken
  <2>2. id \in DOMAIN history
    BY <1>1, <1>2, <2>1 DEF News
  <2>3. id \in Nat /\ state[p] \in DialogState
    BY <1>2, <2>2, TypeFacts
  <2> HIDE DEF p, id
  <2> QED BY <1>1, <2>3, StateUpdates, ZenonT(60)
<1> HIDE DEF id, p, st
<1>4. id = Head(wire).id /\ p = history[id]
  BY DEF id, p
<1>5. Base' /\ InOrder
  <2>1. st.syncedMessageId \in {state[p].syncedMessageId, id}
    BY <1>3
  <2> QED BY <1>1, <1>3, <1>4, <2>1, NewsTaken
<1>6. ASSUME ~disturbed' PROVE Whole'
  <2>1. ~disturbed /\ state[p].synced /\ Whole
    BY <1>1, <1>6 DEF SyncInv
  <2> QED BY <1>1, <1>3, <1>4, <2>1, NewsWhole
<1>7. CASE disturbed'
  BY <1>5, <1>7 DEF SyncInv, Whole
<1> QED BY <1>5, <1>6, <1>7 DEF SyncInv

\* A list of messages that continues what the dialog with p holds.
Feeds(p, ids) ==
  /\ ids \in Seq(Nat) /\ Descending(ids)
  /\ \A k \in DOMAIN ids :
       /\ ids[k] \in Ids(p) /\ ids[k] <= top[p]
       /\ state[p].pendingIds # <<>> => ids[k] < Last(state[p].pendingIds)

\* z: what the dialog becomes when it takes the messages of such a list.
Takes(p, ids, z) ==
  /\ z \in DialogState /\ z.pendingIds \in Seq(Nat) /\ Descending(z.pendingIds)
  /\ z.syncedMessageId = state[p].syncedMessageId /\ z.synced = state[p].synced
  /\ \A i \in DOMAIN z.pendingIds : z.pendingIds[i] \in Ids(p) /\ z.pendingIds[i] <= top[p]
  /\ \A x \in delivered : history[x] = p =>
       \A i \in DOMAIN z.pendingIds : x < z.pendingIds[i]
  /\ \A k \in DOMAIN state[p].pendingIds :
       \E i \in DOMAIN z.pendingIds : z.pendingIds[i] = state[p].pendingIds[k]
  /\ \A k \in DOMAIN ids : ids[k] > state[p].syncedMessageId =>
       \E i \in DOMAIN z.pendingIds : z.pendingIds[i] = ids[k]
  /\ ~AllMessagesFetched(state[p], ids) =>
       ids # <<>> /\ z.pendingIds # <<>> /\ Last(z.pendingIds) = Last(ids)

\* It does so with WithFetched.
LEMMA FetchedFacts ==
  ASSUME Types, Dialogs, Given, NEW p \in Peers, NEW ids, Feeds(p, ids),
         NEW z, z = WithFetched(state[p], ids)
  PROVE  Takes(p, ids, z)
<1> DEFINE old == state[p].pendingIds
           mark == state[p].syncedMessageId
           new == Newer(ids, mark)
           w == old \o new
<1>1. /\ ids \in Seq(Nat) /\ Descending(ids) /\ old \in Seq(Nat) /\ Descending(old) /\ mark \in Nat
      /\ state[p] \in DialogState
      /\ \A k \in DOMAIN old : old[k] \in Ids(p) /\ old[k] <= top[p]
  BY TypeFacts DEF Dialogs, Feeds
<1>2. \A k \in DOMAIN ids : /\ ids[k] \in Ids(p) /\ ids[k] <= top[p] /\ ids[k] \in Nat
                            /\ old # <<>> => ids[k] < Last(old)
  BY TypeFacts DEF Feeds
<1>3. /\ new \in Seq(Nat) /\ Descending(new) /\ DOMAIN new \subseteq DOMAIN ids
      /\ \A k \in DOMAIN new : new[k] = ids[k] /\ ids[k] > mark
      /\ \A k \in DOMAIN ids : ids[k] > mark => k \in DOMAIN new
      /\ ids # <<>> /\ Last(ids) > mark => new = ids
  <2> HIDE DEF mark
  <2> QED BY <1>1, NewerFacts
<1>4. z = [state[p] EXCEPT !.pendingIds = w]
  BY DEF WithFetched
<1> HIDE DEF new, old, mark
<1>5. /\ w \in Seq(Nat) /\ Descending(w)
      /\ \A i \in DOMAIN w : \/ \E k \in DOMAIN old : w[i] = old[k]
                             \/ \E k \in DOMAIN new : w[i] = new[k]
      /\ \A k \in DOMAIN old : \E i \in DOMAIN w : w[i] = old[k]
      /\ \A k \in DOMAIN new : \E i \in DOMAIN w : w[i] = new[k]
      /\ new # <<>> => Last(w) = Last(new)
  <2>1. old # <<>> => \A k \in DOMAIN new : new[k] < Last(old)
    BY <1>2, <1>3
  <2> QED BY <1>1, <1>3, <2>1, JoinFacts, Zenon
<1> HIDE DEF w
<1>6. /\ z \in DialogState /\ z.pendingIds = w
      /\ z.syncedMessageId = state[p].syncedMessageId /\ z.synced = state[p].synced
  <2> DEFINE st == state[p]
  <2>1. st \in DialogState /\ w \in Seq(Nat)
    BY <1>1, <1>5
  <2>2. z = [st EXCEPT !.pendingIds = w]
    BY <1>4
  <2> HIDE DEF st
  <2>3. /\ z \in DialogState /\ z.pendingIds = w
        /\ z.syncedMessageId = st.syncedMessageId /\ z.synced = st.synced
    BY <2>1, <2>2 DEF DialogState
  <2> QED BY <2>3 DEF st
<1>7. \A i \in DOMAIN w : w[i] \in Ids(p) /\ w[i] <= top[p]
  <2>1. \A k \in DOMAIN old : old[k] \in Ids(p) /\ old[k] <= top[p]
    BY <1>1
  <2>2. \A k \in DOMAIN new : new[k] \in Ids(p) /\ new[k] <= top[p]
    BY <1>2, <1>3
  <2> QED BY <1>5, <2>1, <2>2, Zenon
<1>8. ASSUME NEW x \in delivered, history[x] = p PROVE \A i \in DOMAIN w : x < w[i]
  <2>1. x \in Nat /\ x <= mark /\ \A k \in DOMAIN old : x < old[k]
    BY <1>8, TypeFacts DEF Given, old, mark
  <2>2. \A k \in DOMAIN new : x < new[k]
    BY <1>1, <1>2, <1>3, <2>1
  <2> QED BY <1>5, <2>1, <2>2
<1>9. \A k \in DOMAIN ids : ids[k] > mark => \E i \in DOMAIN w : w[i] = ids[k]
  BY <1>3, <1>5
<1>10. ASSUME ~AllMessagesFetched(state[p], ids)
       PROVE  ids # <<>> /\ w # <<>> /\ Last(w) = Last(ids)
  <2>1. ids # <<>> /\ ~(Last(ids) <= mark)
    BY <1>10 DEF AllMessagesFetched, mark
  <2>2. Len(ids) \in DOMAIN ids
    BY <1>1, <2>1
  <2>3. Last(ids) \in Nat
    BY <1>2, <2>2 DEF Last
  <2>4. new = ids
    BY <1>1, <1>3, <2>1, <2>3
  <2>5. w # <<>>
    <3>1. PICK i \in DOMAIN w : w[i] = new[Len(ids)]
      BY <1>5, <2>2, <2>4
    <3> QED BY <3>1
  <2> QED BY <1>5, <2>1, <2>4, <2>5
<1> QED BY <1>5, <1>6, <1>7, <1>8, <1>9, <1>10 DEF old, mark, Takes

\* onPeerSyncFinished
LEMMA FinishedFacts ==
  ASSUME NEW z \in DialogState, Descending(z.pendingIds)
  PROVE  /\ SyncFinished(z) \in DialogState
         /\ SyncFinished(z).synced = TRUE /\ SyncFinished(z).pendingIds = <<>>
         /\ z.pendingIds = <<>> => SyncFinished(z).syncedMessageId = z.syncedMessageId
         /\ z.pendingIds # <<>> =>
              \E i \in DOMAIN z.pendingIds :
                /\ SyncFinished(z).syncedMessageId = z.pendingIds[i]
                /\ \A k \in DOMAIN z.pendingIds : z.pendingIds[k] <= z.pendingIds[i]
<1> DEFINE w == z.pendingIds
           mark == IF w = <<>> THEN z.syncedMessageId ELSE Head(w)
           f == [syncedMessageId |-> mark, synced |-> TRUE, pendingIds |-> <<>>]
<1>1. f = SyncFinished(z)
  BY DEF SyncFinished
<1>2. w \in Seq(Nat) /\ z.syncedMessageId \in Nat
  BY DEF DialogState
<1> HIDE DEF w
<1>3. /\ mark \in Nat /\ (w = <<>> => mark = z.syncedMessageId)
      /\ w # <<>> => mark = w[1] /\ 1 \in DOMAIN w
  BY <1>2
<1> HIDE DEF mark
<1>4. f \in DialogState /\ f.synced = TRUE /\ f.pendingIds = <<>> /\ f.syncedMessageId = mark
  BY <1>3 DEF DialogState
<1> HIDE DEF f
<1>5. ASSUME w # <<>> PROVE \A k \in DOMAIN w : w[k] <= w[1]
  <2> SUFFICES ASSUME NEW k \in DOMAIN w PROVE w[k] <= w[1]
    OBVIOUS
  <2>1. k = 1 \/ 1 < k
    BY <1>2
  <2>2. w[k] \in Nat /\ w[1] \in Nat
    BY <1>2, <1>3, <1>5
  <2>3. 1 < k => w[1] > w[k]
    BY <1>3, <1>5 DEF Descending, w
  <2> QED BY <2>1, <2>2, <2>3
<1> QED BY <1>1, <1>3, <1>4, <1>5 DEF w

\* syncMorePeerMessages
LEMMA MoreFacts ==
  ASSUME limit \in Nat, NEW p \in Peers, NEW z \in DialogState, z.pendingIds # <<>>,
         ~LimitIsReached(z), NEW r, r = SyncMorePeerMessages(p, z)
  PROVE  /\ r \in Request /\ r.type = "history" /\ r.peer = p
         /\ r.offsetId = Last(z.pendingIds) /\ r.limit >= 1 /\ r.minId <= z.syncedMessageId
<1> DEFINE w == z.pendingIds
           mark == z.syncedMessageId
           o == Last(w)
           n == IF limit # 0 /\ limit - Len(w) < Portion THEN limit - Len(w) ELSE Portion
           m == IF mark > 0 THEN mark - 1 ELSE 0
<1>1. w \in Seq(Nat) /\ mark \in Nat
  BY DEF DialogState
<1>2. r = [type |-> "history", peer |-> p, offsetId |-> o, limit |-> n, minId |-> m]
  BY DEF SyncMorePeerMessages
<1>3. o \in Nat
  BY <1>1 DEF Last
<1>4. n \in Nat /\ n >= 1
  <2>1. Len(w) \in Nat /\ Portion \in Nat /\ Portion >= 1
    BY <1>1, SyncAssumption
  <2>2. limit # 0 => Len(w) < limit
    BY <2>1 DEF LimitIsReached
  <2> HIDE DEF w
  <2> QED BY <2>1, <2>2
<1>5. m \in Nat /\ m <= mark
  BY <1>1
<1> HIDE DEF o, n, m, w, mark
<1>6. /\ r \in Request /\ r.type = "history" /\ r.peer = p
      /\ r.offsetId = o /\ r.limit = n /\ r.minId = m
  BY <1>2, <1>3, <1>4, <1>5 DEF Request
<1> QED BY <1>4, <1>5, <1>6 DEF o, w, mark
-----------------------------------------------------------------------------
(***************************************************************************)
(* Dialogs whose synchronization ends or goes on.                          *)
(***************************************************************************)
\* The synchronization of the dialog with p ends and the application gets the list w.
Finishes(p, w) ==
  /\ w \in Seq(Nat) /\ Descending(w)
  /\ \A i \in DOMAIN w : w[i] \in Ids(p) /\ w[i] <= top[p]
  /\ \A x \in delivered : history[x] = p => \A i \in DOMAIN w : x < w[i]
  /\ state'[p].synced = TRUE /\ state'[p].pendingIds = <<>>
  /\ w = <<>> => state'[p].syncedMessageId = state[p].syncedMessageId
  /\ w # <<>> => \E i \in DOMAIN w : /\ state'[p].syncedMessageId = w[i]
                                     /\ \A k \in DOMAIN w : w[k] <= w[i]

\* The dialog with p holds more and waits for the next part of its history.
Continues(p) ==
  /\ state'[p].synced = FALSE /\ state'[p].syncedMessageId = state[p].syncedMessageId
  /\ state'[p].pendingIds # <<>> /\ Descending(state'[p].pendingIds)
  /\ \A i \in DOMAIN state'[p].pendingIds :
       state'[p].pendingIds[i] \in Ids(p) /\ state'[p].pendingIds[i] <= top[p]
  /\ \A x \in delivered : history[x] = p =>
       \A i \in DOMAIN state'[p].pendingIds : x < state'[p].pendingIds[i]

\* Those of done end, those of more go on.
Settles(done, more, list) ==
  /\ \A p \in done : Finishes(p, list[p])
  /\ \A p \in more : Continues(p)
  /\ \A p \in Peers : p \in done \/ p \in more \/ state'[p] = state[p]
  /\ Give(list, done)

\* What is given then has not been given before, and what is given later is newer.
LEMMA SettlesGiven ==
  ASSUME Types, Given, NEW done \in SUBSET Peers, NEW more, NEW list, Settles(done, more, list)
  PROVE  /\ repeated' = {}
         /\ \A x : x \in delivered' <=> x \in delivered \/ \E p \in done : x \in Elems(list[p])
         /\ \A p \in done : \A x \in Elems(list[p]) :
              /\ x \in Ids(p) /\ x <= top[p] /\ x \notin delivered
              /\ x <= state'[p].syncedMessageId
              /\ \A y \in delivered : history[y] = p => y < x
<1>1. ASSUME NEW p \in done, NEW i \in DOMAIN list[p]
      PROVE  /\ list[p][i] \in Ids(p) /\ list[p][i] <= top[p] /\ list[p][i] \notin delivered
             /\ list[p][i] <= state'[p].syncedMessageId
             /\ \A y \in delivered : history[y] = p => y < list[p][i]
  <2> DEFINE w == list[p]
  <2>1. Finishes(p, w)
    BY DEF Settles
  <2> HIDE DEF w
  <2>2. i \in DOMAIN w
    BY DEF w
  <2>3. /\ w[i] \in Ids(p) /\ w[i] <= top[p]
        /\ \A y \in delivered : history[y] = p => y < w[i]
    BY <2>1, <2>2 DEF Finishes
  <2>4. w[i] \notin delivered
    <3>1. history[w[i]] = p /\ w[i] \in Nat
      BY <2>3, TypeFacts
    <3>2. ~(w[i] < w[i])
      BY <3>1
    <3> QED BY <2>3, <3>1, <3>2
  <2>5. w[i] <= state'[p].syncedMessageId
    <3>1. w # <<>>
      BY <2>2
    <3> QED BY <2>1, <2>2, <3>1 DEF Finishes
  <2> QED BY <2>3, <2>4, <2>5 DEF w
<1>2. \A p \in done : /\ list[p] \in Seq(Nat) /\ Descending(list[p])
                      /\ \A i \in DOMAIN list[p] : list[p][i] \notin delivered
  BY <1>1 DEF Settles, Finishes
<1>3. Give(list, done) /\ repeated = {}
  BY DEF Settles, Given
<1>4. /\ repeated' = {}
      /\ \A x : x \in delivered' <=> x \in delivered \/ \E p \in done : x \in Elems(list[p])
  BY <1>2, <1>3, GiveFacts
<1>5. ASSUME NEW p \in done, NEW x \in Elems(list[p])
      PROVE  /\ x \in Ids(p) /\ x <= top[p] /\ x \notin delivered
             /\ x <= state'[p].syncedMessageId
             /\ \A y \in delivered : history[y] = p => y < x
  <2>1. PICK i \in DOMAIN list[p] : x = list[p][i]
    BY Zenon DEF Elems
  <2> QED BY <1>1, <2>1
<1> QED BY <1>4, <1>5

\* The mark of a dialog that ends: its old one or one of the messages given.
LEMMA SettlesMark ==
  ASSUME Types, Dialogs, NEW done \in SUBSET Peers, NEW more, NEW list,
         Settles(done, more, list), state' \in [Peers -> DialogState], NEW p \in Peers
  PROVE  /\ state'[p].syncedMessageId \in Nat
         /\ \/ state'[p].syncedMessageId = state[p].syncedMessageId
            \/ /\ p \in done /\ state'[p].syncedMessageId \in Ids(p)
               /\ state'[p].syncedMessageId <= top[p]
               /\ state'[p].syncedMessageId \in Elems(list[p])
<1>1. state'[p].syncedMessageId \in Nat
  BY DEF DialogState
<1>2. CASE p \in done
  <2> DEFINE w == list[p]
  <2>1. Finishes(p, w)
    BY <1>2 DEF Settles
  <2> HIDE DEF w
  <2>2. CASE w = <<>>
    BY <1>1, <2>1, <2>2 DEF Finishes
  <2>3. CASE w # <<>>
    <3>1. PICK i \in DOMAIN w : state'[p].syncedMessageId = w[i]
      BY <2>1, <2>3 DEF Finishes
    <3>2. w[i] \in Ids(p) /\ w[i] <= top[p] /\ w[i] \in Elems(w)
      BY <2>1 DEF Finishes, Elems
    <3> QED BY <1>1, <1>2, <3>1, <3>2 DEF w
  <2> QED BY <2>2, <2>3
<1>3. CASE p \in more
  BY <1>1, <1>3 DEF Settles, Continues
<1>4. CASE p \notin done /\ p \notin more
  BY <1>1, <1>4 DEF Settles
<1> QED BY <1>2, <1>3, <1>4

\* The parts of Base that are about the dialogs.
LEMMA SettlesBase ==
  ASSUME Types, Dialogs, News, Given, NEW done \in SUBSET Peers, NEW more, NEW list,
         Settles(done, more, list), state' \in [Peers -> DialogState],
         Elems(wire') \subseteq Elems(wire), UNCHANGED <<history, top, saved>>
  PROVE  Dialogs' /\ News' /\ Given' /\ InOrder
<1>1. /\ repeated' = {}
      /\ \A x : x \in delivered' <=> x \in delivered \/ \E p \in done : x \in Elems(list[p])
      /\ \A p \in done : \A x \in Elems(list[p]) :
           /\ x \in Ids(p) /\ x <= state'[p].syncedMessageId
           /\ \A y \in delivered : history[y] = p => y < x
  BY SettlesGiven
<1>2. \A p \in Peers :
        /\ state'[p].syncedMessageId \in Nat
        /\ \/ state'[p].syncedMessageId = state[p].syncedMessageId
           \/ state'[p].syncedMessageId \in Ids(p) /\ state'[p].syncedMessageId <= top[p]
  BY SettlesMark
<1>3. \A p : Ids(p)' = Ids(p)
  BY DEF Ids
<1>4. Dialogs'
  <2> SUFFICES ASSUME NEW p \in Peers
               PROVE  /\ Descending(state'[p].pendingIds)
                      /\ \A i \in DOMAIN state'[p].pendingIds :
                           state'[p].pendingIds[i] \in Ids(p) /\ state'[p].pendingIds[i] <= top[p]
                      /\ state'[p].synced => state'[p].pendingIds = <<>>
                      /\ state'[p].syncedMessageId \in Ids(p) \cup {0}
                      /\ saved[p] \in Ids(p) \cup {0}
                      /\ top[p] \in Ids(p) \cup {0}
    BY <1>3 DEF Dialogs
  <2>1. /\ state'[p].syncedMessageId \in Ids(p) \cup {0}
        /\ saved[p] \in Ids(p) \cup {0} /\ top[p] \in Ids(p) \cup {0}
    BY <1>2 DEF Dialogs
  <2>2. /\ Descending(state'[p].pendingIds)
        /\ \A i \in DOMAIN state'[p].pendingIds :
             state'[p].pendingIds[i] \in Ids(p) /\ state'[p].pendingIds[i] <= top[p]
        /\ state'[p].synced => state'[p].pendingIds = <<>>
    <3>1. CASE p \in done
      <4>1. state'[p].pendingIds = <<>>
        BY <3>1, Zenon DEF Settles, Finishes
      <4> QED BY <4>1 DEF Descending
    <3>2. CASE p \in more
      BY <3>2, Zenon DEF Settles, Continues
    <3>3. CASE state'[p] = state[p]
      BY <3>3, Zenon DEF Dialogs
    <3> QED BY <3>1, <3>2, <3>3 DEF Settles
  <2> QED BY <2>1, <2>2
<1>5. News'
  <2> SUFFICES ASSUME NEW m \in Elems(wire')
               PROVE  /\ IsNews(m) =>
                           /\ m.id \in DOMAIN history
                           /\ m.id > top[history[m.id]]
                           /\ m.id > state'[history[m.id]].syncedMessageId
                      /\ m.type = "dialogs" => \A p \in Peers : m.top[p] \in Ids(p) \cup {0}
    BY <1>3 DEF News
  <2>1. m \in Elems(wire)
    OBVIOUS
  <2>2. m.type = "dialogs" => \A p \in Peers : m.top[p] \in Ids(p) \cup {0}
    BY <2>1 DEF News
  <2>3. ASSUME IsNews(m)
        PROVE  /\ m.id \in DOMAIN history
               /\ m.id > top[history[m.id]]
               /\ m.id > state'[history[m.id]].syncedMessageId
    <3> DEFINE p == history[m.id]
    <3>1. /\ m.id \in DOMAIN history /\ m.id > top[p] /\ m.id > state[p].syncedMessageId
      BY <2>1, <2>3 DEF News
    <3>2. p \in Peers /\ m.id \in Nat /\ top[p] \in Nat /\ state[p].syncedMessageId \in Nat
      BY <3>1, TypeFacts
    <3> HIDE DEF p
    <3>3. m.id > state'[p].syncedMessageId
      BY <1>2, <3>1, <3>2
    <3> QED BY <3>1, <3>3 DEF p
  <2> QED BY <2>2, <2>3
<1>6. Given'
  <2> SUFFICES ASSUME NEW x \in delivered'
               PROVE  /\ x \in DOMAIN history
                      /\ x <= state'[history[x]].syncedMessageId
                      /\ \A i \in DOMAIN state'[history[x]].pendingIds :
                           x < state'[history[x]].pendingIds[i]
    BY <1>1 DEF Given
  <2>1. CASE x \in delivered
    <3> DEFINE p == history[x]
    <3>1. /\ x \in DOMAIN history /\ x <= state[p].syncedMessageId
          /\ \A i \in DOMAIN state[p].pendingIds : x < state[p].pendingIds[i]
      BY <2>1 DEF Given
    <3>2. p \in Peers /\ x \in Nat /\ state[p].syncedMessageId \in Nat
      BY <3>1, TypeFacts
    <3>3. history[x] = p
      OBVIOUS
    <3> HIDE DEF p
    <3>4. CASE p \in done
      <4> DEFINE w == list[p]
      <4>1. Finishes(p, w)
        BY <3>4 DEF Settles
      <4> HIDE DEF w
      <4>2. state'[p].pendingIds = <<>>
        BY <4>1 DEF Finishes
      <4>3. x <= state'[p].syncedMessageId
        <5>1. CASE w = <<>>
          BY <3>1, <4>1, <5>1 DEF Finishes
        <5>2. CASE w # <<>>
          <6>1. PICK i \in DOMAIN w : state'[p].syncedMessageId = w[i]
            BY <4>1, <5>2 DEF Finishes
          <6>2. x < w[i] /\ w[i] \in Nat
            BY <2>1, <3>3, <4>1 DEF Finishes
          <6> QED BY <3>2, <6>1, <6>2
        <5> QED BY <5>1, <5>2
      <4> QED BY <3>1, <3>3, <4>2, <4>3
    <3>5. CASE p \in more
      <4>1. Continues(p)
        BY <3>5 DEF Settles
      <4> QED BY <2>1, <3>1, <3>3, <4>1 DEF Continues
    <3>6. CASE state'[p] = state[p]
      BY <3>1, <3>3, <3>6
    <3> QED BY <3>2, <3>4, <3>5, <3>6 DEF Settles
  <2>2. ASSUME NEW p \in done, x \in Elems(list[p])
        PROVE  /\ x \in DOMAIN history
               /\ x <= state'[history[x]].syncedMessageId
               /\ \A i \in DOMAIN state'[history[x]].pendingIds :
                    x < state'[history[x]].pendingIds[i]
    <3>1. x \in Ids(p) /\ x <= state'[p].syncedMessageId
      BY <1>1, <2>2
    <3>2. x \in DOMAIN history /\ history[x] = p
      BY <3>1, TypeFacts
    <3>3. state'[p].pendingIds = <<>>
      BY Zenon DEF Settles, Finishes
    <3> QED BY <3>1, <3>2, <3>3
  <2> QED BY <1>1, <2>1, <2>2
<1>7. InOrder
  <2> SUFFICES ASSUME NEW new \in delivered' \ delivered, NEW old \in delivered,
                      history[new] = history[old]
               PROVE  new > old
    BY DEF InOrder
  <2>1. PICK p \in done : new \in Elems(list[p])
    BY <1>1
  <2>2. new \in Ids(p) /\ \A y \in delivered : history[y] = p => y < new
    BY <1>1, <2>1
  <2>3. history[old] = p /\ new \in Nat /\ old \in Nat
    BY <2>2, TypeFacts DEF Given
  <2> QED BY <2>2, <2>3
<1> QED BY <1>4, <1>5, <1>6, <1>7

\* What is given or held, on its way or still to be asked for, in the dialogs that end
\* and in those that go on.
LEMMA SettlesWhole ==
  ASSUME Types, Dialogs, News, Given, NEW done \in SUBSET Peers, NEW more, NEW list,
         Settles(done, more, list), state' \in [Peers -> DialogState],
         UNCHANGED <<history, saved>>, forgone \subseteq forgone', MarksGiven, ~disturbed,
         \A p \in done : \A id \in Ids(p) :
           id <= state[p].syncedMessageId \/ id \in Elems(list[p]) \/ OnWire(id)
  PROVE  /\ MarksGiven'
         /\ \A p \in done : \A id \in Ids(p) : id <= state'[p].syncedMessageId \/ OnWire(id)
<1>1. /\ \A x : x \in delivered' <=> x \in delivered \/ \E p \in done : x \in Elems(list[p])
      /\ \A p \in done : \A x \in Elems(list[p]) : x <= state'[p].syncedMessageId
  BY SettlesGiven
<1>2. \A id \in DOMAIN history :
        history[id] \notin forgone /\ (\/ id <= state[history[id]].syncedMessageId
                                       \/ id <= saved[history[id]]) => id \in delivered
  BY DEF MarksGiven, NothingMissed
<1>3. ASSUME NEW id \in DOMAIN history, OnWire(id), NEW p \in Peers, history[id] = p
      PROVE  id > state'[p].syncedMessageId
  <2>1. PICK m \in Elems(wire) : IsNews(m) /\ m.id = id
    BY <1>3 DEF OnWire
  <2>2. id > top[p] /\ id > state[p].syncedMessageId
    BY <1>3, <2>1 DEF News
  <2>3. /\ state'[p].syncedMessageId \in Nat
        /\ \/ state'[p].syncedMessageId = state[p].syncedMessageId
           \/ state'[p].syncedMessageId <= top[p]
    BY SettlesMark
  <2>4. id \in Nat /\ top[p] \in Nat
    BY TypeFacts
  <2> QED BY <2>2, <2>3, <2>4
<1>4. ASSUME NEW id \in DOMAIN history, NEW p, p = history[id], p \notin forgone,
             id <= state'[p].syncedMessageId
      PROVE  id \in delivered'
  <2>1. p \in Peers /\ id \in Ids(p) /\ id \in Nat
    BY <1>4, TypeFacts
  <2>2. CASE state'[p].syncedMessageId = state[p].syncedMessageId
    BY <1>1, <1>2, <1>4, <2>2
  <2>3. CASE p \in done
    <3>1. ~OnWire(id)
      <4>1. state'[p].syncedMessageId \in Nat
        BY <2>1, SettlesMark
      <4> QED BY <1>3, <1>4, <2>1, <4>1
    <3> QED BY <1>1, <1>2, <1>4, <2>1, <2>3, <3>1
  <2>4. p \in done \/ state'[p].syncedMessageId = state[p].syncedMessageId
    BY <2>1, SettlesMark
  <2> QED BY <2>2, <2>3, <2>4
<1>5. NothingMissed'
  BY <1>1, <1>2, <1>4 DEF NothingMissed
<1>7. MarksGiven'
  <2>1. ASSUME NEW p \in Peers PROVE state'[p].syncedMessageId \in delivered' \cup {0}
    <3>1. CASE state'[p].syncedMessageId = state[p].syncedMessageId
      BY <1>1, <3>1 DEF MarksGiven
    <3>2. CASE p \in done /\ list[p] # <<>>
      <4>1. PICK i \in DOMAIN list[p] : state'[p].syncedMessageId = list[p][i]
        BY <3>2, Zenon DEF Settles, Finishes
      <4> QED BY <1>1, <3>2, <4>1 DEF Elems
    <3>3. p \in done /\ list[p] = <<>> => state'[p].syncedMessageId = state[p].syncedMessageId
      BY Zenon DEF Settles, Finishes
    <3>4. p \in done \/ state'[p].syncedMessageId = state[p].syncedMessageId
      BY SettlesMark
    <3> QED BY <3>1, <3>2, <3>3, <3>4
  <2>2. \A p \in Peers : saved'[p] \in delivered' \cup {0}
    BY <1>1 DEF MarksGiven
  <2> QED BY <1>5, <2>1, <2>2 DEF MarksGiven
<1>6. ASSUME NEW p \in done, NEW id \in Ids(p)
      PROVE  id <= state'[p].syncedMessageId \/ OnWire(id)
  <2>1. id \in Nat /\ id \in DOMAIN history /\ history[id] = p
    BY TypeFacts
  <2>2. CASE id <= state[p].syncedMessageId
    <3> DEFINE mark == state[p].syncedMessageId
    <3>1. mark \in delivered \cup {0} /\ mark \in Ids(p) \cup {0} /\ mark \in Nat /\ id <= mark
      BY <2>2, TypeFacts DEF MarksGiven, Dialogs
    <3>2. CASE list[p] = <<>>
      BY <2>2, <3>2, Zenon DEF Settles, Finishes
    <3>3. CASE list[p] # <<>>
      <4>1. PICK i \in DOMAIN list[p] : state'[p].syncedMessageId = list[p][i]
        BY <3>3, Zenon DEF Settles, Finishes
      <4>2. /\ \A x \in delivered : history[x] = p => x < list[p][i]
            /\ list[p][i] \in Ids(p)
        BY Zenon DEF Settles, Finishes
      <4>3. list[p][i] \in Nat
        BY <4>2, TypeFacts
      <4>4. mark # 0 => history[mark] = p
        BY <3>1, TypeFacts
      <4> HIDE DEF mark
      <4> QED BY <2>1, <3>1, <4>1, <4>2, <4>3, <4>4
    <3> QED BY <3>2, <3>3
  <2>3. CASE id \in Elems(list[p])
    BY <1>1, <2>3
  <2> QED BY <2>2, <2>3
<1> QED BY <1>6, <1>7
-----------------------------------------------------------------------------
(***************************************************************************)
(* processNewSyncMessages: the dialogs that end, the messages they give    *)
(* and the requests of the others.                                         *)
(***************************************************************************)
Ended(peers, feed) ==
  {p \in peers : \/ AllMessagesFetched(state[p], feed[p])
                 \/ LimitIsReached(WithFetched(state[p], feed[p]))}
ListsGiven(peers, feed) ==
  [p \in Ended(peers, feed) |-> WithFetched(state[p], feed[p]).pendingIds]
NextRequests(peers, feed) ==
  LET more == SetToSeq(peers \ Ended(peers, feed))
  IN  [i \in DOMAIN more |-> SyncMorePeerMessages(more[i], WithFetched(state[more[i]], feed[more[i]]))]

\* What becomes of the state of the dialogs.
NextStates(peers, feed, done) ==
  /\ state' = [p \in Peers |-> state'[p]]
  /\ \A p \in done : state'[p] = SyncFinished(WithFetched(state[p], feed[p]))
  /\ \A p \in peers \ done : state'[p] = WithFetched(state[p], feed[p])
  /\ \A p \in Peers \ peers : state'[p] = state[p]

\* The action in these terms.
LEMMA ProcessParts ==
  ASSUME NEW peers \in SUBSET Peers, NEW feed, NEW count,
         ProcessNewSyncMessages(peers, feed, count), NEW done, done = Ended(peers, feed)
  PROVE  /\ NextStates(peers, feed, done)
         /\ Give(ListsGiven(peers, feed), done)
         /\ requests' = requests \o NextRequests(peers, feed)
         /\ jobs' = count - Cardinality(done)
         /\ sync' = IF jobs' = 0 THEN "finished" ELSE "inProgress"
         /\ disturbed' = (disturbed \/ {p \in done : ~AllMessagesFetched(state[p], feed[p])} # {})
<1> DEFINE st == [p \in peers |-> WithFetched(state[p], feed[p])]
           ended == {p \in peers : AllMessagesFetched(state[p], feed[p]) \/ LimitIsReached(st[p])}
           more == SetToSeq(peers \ ended)
<1>1. ended = done
  BY DEF Ended
<1>2. /\ state' = [p \in Peers |-> IF p \in ended THEN SyncFinished(st[p])
                                   ELSE IF p \in peers THEN st[p] ELSE state[p]]
      /\ Give([p \in ended |-> st[p].pendingIds], ended)
      /\ requests' = requests \o [i \in DOMAIN more |-> SyncMorePeerMessages(more[i], st[more[i]])]
      /\ jobs' = count - Cardinality(ended)
      /\ sync' = IF jobs' = 0 THEN "finished" ELSE "inProgress"
      /\ disturbed' = (disturbed \/ {p \in ended : ~AllMessagesFetched(state[p], feed[p])} # {})
  BY ZenonT(30) DEF ProcessNewSyncMessages, JobsLeft
<1>3. \A p \in peers : st[p] = WithFetched(state[p], feed[p])
  OBVIOUS
<1>4. ended \subseteq peers
  OBVIOUS
<1> HIDE DEF st, ended
<1>5. [p \in ended |-> st[p].pendingIds] = ListsGiven(peers, feed)
  BY <1>1, <1>3, <1>4 DEF ListsGiven
<1>6. [i \in DOMAIN more |-> SyncMorePeerMessages(more[i], st[more[i]])] = NextRequests(peers, feed)
  <2>1. IsFiniteSet(peers \ ended)
    <3>1. IsFiniteSet(Peers) /\ peers \ ended \subseteq Peers
      BY SyncAssumption
    <3> QED BY <3>1, FS_Subset
  <2>2. \A i \in DOMAIN more : more[i] \in peers
    <3>1. more \in Seq(peers \ ended)
      BY <2>1, SetToSeqFacts
    <3> HIDE DEF more
    <3>2. \A i \in DOMAIN more : more[i] \in peers \ ended
      BY <3>1
    <3> QED BY <3>2
  <2>3. more = SetToSeq(peers \ Ended(peers, feed))
    BY <1>1
  <2> HIDE DEF more
  <2>4. \A i \in DOMAIN more : SyncMorePeerMessages(more[i], st[more[i]])
          = SyncMorePeerMessages(more[i], WithFetched(state[more[i]], feed[more[i]]))
    BY <1>3, <2>2
  <2> QED BY <2>3, <2>4, Zenon DEF NextRequests
<1>7. NextStates(peers, feed, done)
  BY <1>1, <1>2, <1>3, <1>4 DEF NextStates
<1> QED BY <1>1, <1>2, <1>5, <1>6, <1>7

\* What the dialogs become.
Processed(peers, feed, done, list) ==
  /\ done \subseteq peers /\ state' \in [Peers -> DialogState]
  /\ Settles(done, peers \ done, list)
  /\ \A p \in peers \ done :
       /\ state'[p] = WithFetched(state[p], feed[p])
       /\ ~LimitIsReached(state'[p])
       /\ feed[p] # <<>> /\ Last(state'[p].pendingIds) = Last(feed[p])
       /\ \A id : Held(p, id) => Held(p, id)'
       /\ \A k \in DOMAIN feed[p] : feed[p][k] > state[p].syncedMessageId =>
            Held(p, feed[p][k])'
  /\ \A p \in done :
       /\ \A id : Held(p, id) => id \in Elems(list[p])
       /\ \A k \in DOMAIN feed[p] : feed[p][k] > state[p].syncedMessageId =>
            feed[p][k] \in Elems(list[p])

\* They become so by processNewSyncMessages.
LEMMA ProcessSettles ==
  ASSUME Types, Dialogs, Given, NEW peers \in SUBSET Peers, NEW feed, NEW count,
         ProcessNewSyncMessages(peers, feed, count),
         \A p \in peers : state[p].synced = FALSE /\ Feeds(p, feed[p]),
         NEW done, done = Ended(peers, feed), NEW list, list = ListsGiven(peers, feed)
  PROVE  Processed(peers, feed, done, list)
<1>1. /\ state' = [p \in Peers |-> state'[p]]
      /\ \A p \in done : state'[p] = SyncFinished(WithFetched(state[p], feed[p]))
      /\ \A p \in peers \ done : state'[p] = WithFetched(state[p], feed[p])
      /\ \A p \in Peers \ peers : state'[p] = state[p]
      /\ Give(list, done)
  <2>1. NextStates(peers, feed, done) /\ Give(ListsGiven(peers, feed), done)
    BY ProcessParts, Zenon
  <2> QED BY <2>1 DEF NextStates
<1>2. /\ done \subseteq peers
      /\ \A p \in done : list[p] = WithFetched(state[p], feed[p]).pendingIds
      /\ \A p \in peers \ done : /\ ~AllMessagesFetched(state[p], feed[p])
                                 /\ ~LimitIsReached(WithFetched(state[p], feed[p]))
  BY DEF Ended, ListsGiven
<1>3. ASSUME NEW p \in done
      PROVE  /\ state'[p] \in DialogState /\ Finishes(p, list[p])
             /\ \A id : Held(p, id) => id \in Elems(list[p])
             /\ \A k \in DOMAIN feed[p] : feed[p][k] > state[p].syncedMessageId =>
                  feed[p][k] \in Elems(list[p])
  <2> DEFINE z == WithFetched(state[p], feed[p])
             w == z.pendingIds
  <2>0. p \in Peers /\ p \in peers
    BY <1>2
  <2>1. /\ z \in DialogState /\ w \in Seq(Nat) /\ Descending(w)
        /\ z.syncedMessageId = state[p].syncedMessageId
        /\ \A i \in DOMAIN w : w[i] \in Ids(p) /\ w[i] <= top[p]
        /\ \A x \in delivered : history[x] = p => \A i \in DOMAIN w : x < w[i]
        /\ \A k \in DOMAIN state[p].pendingIds :
             \E i \in DOMAIN w : w[i] = state[p].pendingIds[k]
        /\ \A k \in DOMAIN feed[p] : feed[p][k] > state[p].syncedMessageId =>
             \E i \in DOMAIN w : w[i] = feed[p][k]
    <3> DEFINE ids == feed[p]
    <3>1. Feeds(p, ids)
      BY <2>0
    <3>2. z = WithFetched(state[p], ids)
      OBVIOUS
    <3> HIDE DEF z, ids
    <3>3. Takes(p, ids, z)
      BY <2>0, <3>1, <3>2, FetchedFacts, Zenon
    <3> QED BY <3>1, <3>3 DEF Takes, ids
  <2>2. state'[p] = SyncFinished(z) /\ list[p] = w
    BY <1>1, <1>2, <2>0
  <2> HIDE DEF z
  <2>3. /\ SyncFinished(z) \in DialogState
        /\ SyncFinished(z).synced = TRUE /\ SyncFinished(z).pendingIds = <<>>
        /\ w = <<>> => SyncFinished(z).syncedMessageId = z.syncedMessageId
        /\ w # <<>> => \E i \in DOMAIN w :
             /\ SyncFinished(z).syncedMessageId = w[i]
             /\ \A k \in DOMAIN w : w[k] <= w[i]
    BY <2>1, FinishedFacts
  <2> HIDE DEF w
  <2>4. Finishes(p, w)
    BY <2>1, <2>2, <2>3 DEF Finishes
  <2>5. \A id : Held(p, id) => id \in Elems(w)
    BY <2>1 DEF Held, Elems
  <2>6. \A k \in DOMAIN feed[p] : feed[p][k] > state[p].syncedMessageId => feed[p][k] \in Elems(w)
    BY <2>1 DEF Elems
  <2> QED BY <2>2, <2>3, <2>4, <2>5, <2>6
<1>4. ASSUME NEW p \in peers \ done
      PROVE  /\ state'[p] \in DialogState /\ Continues(p)
             /\ state'[p] = WithFetched(state[p], feed[p])
             /\ ~LimitIsReached(state'[p])
             /\ feed[p] # <<>> /\ Last(state'[p].pendingIds) = Last(feed[p])
             /\ \A id : Held(p, id) => Held(p, id)'
             /\ \A k \in DOMAIN feed[p] : feed[p][k] > state[p].syncedMessageId =>
                  Held(p, feed[p][k])'
  <2> DEFINE z == WithFetched(state[p], feed[p])
             w == z.pendingIds
  <2>0. p \in Peers /\ p \in peers
    OBVIOUS
  <2>1. /\ z \in DialogState /\ w \in Seq(Nat) /\ Descending(w)
        /\ z.syncedMessageId = state[p].syncedMessageId /\ z.synced = state[p].synced
        /\ \A i \in DOMAIN w : w[i] \in Ids(p) /\ w[i] <= top[p]
        /\ \A x \in delivered : history[x] = p => \A i \in DOMAIN w : x < w[i]
        /\ \A k \in DOMAIN state[p].pendingIds :
             \E i \in DOMAIN w : w[i] = state[p].pendingIds[k]
        /\ \A k \in DOMAIN feed[p] : feed[p][k] > state[p].syncedMessageId =>
             \E i \in DOMAIN w : w[i] = feed[p][k]
        /\ feed[p] # <<>> /\ w # <<>> /\ Last(w) = Last(feed[p])
    <3> DEFINE ids == feed[p]
    <3>1. Feeds(p, ids) /\ ~AllMessagesFetched(state[p], ids)
      BY <1>2, <2>0
    <3>2. z = WithFetched(state[p], ids)
      OBVIOUS
    <3> HIDE DEF z, ids
    <3>3. Takes(p, ids, z)
      BY <2>0, <3>1, <3>2, FetchedFacts, Zenon
    <3> QED BY <3>1, <3>3 DEF Takes, ids
  <2>2. state'[p] = z /\ ~LimitIsReached(z)
    BY <1>1, <1>2, <2>0
  <2>3. state[p].synced = FALSE
    BY <2>0
  <2>7. z = WithFetched(state[p], feed[p])
    OBVIOUS
  <2> HIDE DEF z
  <2>4. Continues(p)
    BY <2>1, <2>2, <2>3 DEF Continues
  <2>5. \A id : Held(p, id) => Held(p, id)'
    BY <2>1, <2>2 DEF Held
  <2>6. \A k \in DOMAIN feed[p] : feed[p][k] > state[p].syncedMessageId => Held(p, feed[p][k])'
    BY <2>1, <2>2 DEF Held
  <2> QED BY <2>1, <2>2, <2>4, <2>5, <2>6, <2>7
<1>5. ASSUME NEW p \in Peers, p \notin peers PROVE state'[p] = state[p] /\ state[p] \in DialogState
  BY <1>1, <1>2, <1>5, TypeFacts
<1>6. state' \in [Peers -> DialogState]
  <2>1. \A p \in Peers : state'[p] \in DialogState
    BY <1>3, <1>4, <1>5
  <2>2. state' = [p \in Peers |-> state'[p]]
    BY <1>1
  <2> QED BY <2>1, <2>2
<1>7. Settles(done, peers \ done, list)
  BY <1>1, <1>3, <1>4, <1>5 DEF Settles
<1> QED BY <1>2, <1>3, <1>4, <1>6, <1>7 DEF Processed

\* t: a request for each dialog that goes on.
AsksOn(peers, done, t) ==
  /\ t \in Seq(Request) /\ AllApart(t)
  /\ \A r \in Elems(t) :
       /\ r.type = "history" /\ r.peer \in peers \ done
       /\ r.offsetId = Last(state'[r.peer].pendingIds)
       /\ r.limit >= 1 /\ r.minId <= state'[r.peer].syncedMessageId
  /\ \A p \in peers \ done : \E r \in Elems(t) : r.peer = p

\* These are the requests that are made.
LEMMA ProcessRequests ==
  ASSUME Types, NEW peers \in SUBSET Peers, NEW feed, NEW done, done = Ended(peers, feed),
         NEW list, Processed(peers, feed, done, list),
         NEW t, t = NextRequests(peers, feed)
  PROVE  AsksOn(peers, done, t)
<1> DEFINE others == peers \ done
           more == SetToSeq(others)
<1>1. IsFiniteSet(others)
  <2>1. IsFiniteSet(Peers) /\ others \subseteq Peers
    BY SyncAssumption
  <2> HIDE DEF others
  <2> QED BY <2>1, FS_Subset
<1>2. /\ more \in Seq(others)
      /\ \A i, j \in DOMAIN more : more[i] = more[j] => i = j
      /\ \A p \in others : \E i \in DOMAIN more : more[i] = p
  <2> HIDE DEF others
  <2> QED BY <1>1, SetToSeqFacts
<1>3. t = [i \in DOMAIN more |-> SyncMorePeerMessages(more[i], WithFetched(state[more[i]], feed[more[i]]))]
  BY DEF NextRequests
<1> HIDE DEF more
<1>4. /\ DOMAIN more = 1..Len(more) /\ Len(more) \in Nat
      /\ \A i \in DOMAIN more : more[i] \in others
  BY <1>2
<1>5. ASSUME NEW i \in DOMAIN more
      PROVE  /\ t[i] \in Request /\ t[i].type = "history" /\ t[i].peer = more[i]
             /\ t[i].offsetId = Last(state'[more[i]].pendingIds)
             /\ t[i].limit >= 1 /\ t[i].minId <= state'[more[i]].syncedMessageId
  <2> DEFINE p == more[i]
             z == state'[p]
             r == t[i]
  <2>1. p \in peers \ done /\ p \in Peers
    BY <1>4
  <2>2. /\ z = WithFetched(state[p], feed[p]) /\ ~LimitIsReached(z)
        /\ z \in DialogState /\ z.pendingIds # <<>>
    BY <2>1 DEF Processed, Settles, Continues, LimitIsReached
  <2>3. r = SyncMorePeerMessages(p, z) /\ limit \in Nat
    BY <1>3, <2>2 DEF Types
  <2> HIDE DEF z, p, r
  <2>4. /\ r \in Request /\ r.type = "history" /\ r.peer = p
        /\ r.offsetId = Last(z.pendingIds) /\ r.limit >= 1 /\ r.minId <= z.syncedMessageId
    BY <2>1, <2>2, <2>3, MoreFacts
  <2> QED BY <2>4 DEF z, p, r
<1>6. DOMAIN t = 1..Len(more) /\ t \in Seq(Request)
  <2>1. DOMAIN t = 1..Len(more)
    BY <1>3, <1>4
  <2>2. t = [i \in 1..Len(more) |-> t[i]]
    BY <1>3, <1>4
  <2> QED BY <1>4, <1>5, <2>1, <2>2
<1>7. AllApart(t)
  <2> SUFFICES ASSUME NEW i \in DOMAIN t, NEW j \in DOMAIN t, i < j PROVE Apart(t[i], t[j])
    BY DEF AllApart
  <2>1. i \in DOMAIN more /\ j \in DOMAIN more /\ i # j
    BY <1>4, <1>6
  <2>2. more[i] # more[j]
    BY <1>2, <2>1
  <2>3. /\ t[i].type = "history" /\ t[i].peer = more[i]
        /\ t[j].type = "history" /\ t[j].peer = more[j]
    BY <1>5, <2>1
  <2> QED BY <2>2, <2>3 DEF Apart
<1>8. ASSUME NEW r \in Elems(t)
      PROVE  /\ r.type = "history" /\ r.peer \in peers \ done
             /\ r.offsetId = Last(state'[r.peer].pendingIds)
             /\ r.limit >= 1 /\ r.minId <= state'[r.peer].syncedMessageId
  <2>1. PICK i \in DOMAIN t : r = t[i]
    BY Zenon DEF Elems
  <2>2. i \in DOMAIN more
    BY <1>4, <1>6
  <2> QED BY <1>4, <1>5, <2>1, <2>2
<1>9. ASSUME NEW p \in peers \ done PROVE \E r \in Elems(t) : r.peer = p
  <2>1. PICK i \in DOMAIN more : more[i] = p
    BY <1>2
  <2>2. t[i] \in Elems(t) /\ t[i].peer = p
    BY <1>4, <1>5, <1>6, <2>1 DEF Elems
  <2> QED BY <2>2
<1> QED BY <1>6, <1>7, <1>8, <1>9 DEF AsksOn

\* The messages the peers of a set have been waiting for leave the wire.
Leaves(peers) ==
  /\ wire' \in Seq(Message) /\ AllApart(wire') /\ InTurn(history, wire')
  /\ Elems(wire') \subseteq Elems(wire)
  /\ \A m \in Elems(wire) : m \in Elems(wire') \/ (m.type = "history" /\ m.peer \in peers)
  /\ \A m \in Elems(requests) \cup Elems(wire') : m.type = "history" => m.peer \notin peers

\* The dialogs with a request under way afterwards.
LEMMA ProcessAsked ==
  ASSUME Types, NEW peers \in SUBSET Peers, NEW done \in SUBSET peers, Leaves(peers),
         NEW t, AsksOn(peers, done, t), requests' = requests \o t
  PROVE  /\ requests' \in Seq(Request) /\ Elems(requests') = Elems(requests) \cup Elems(t)
         /\ AskedPeers' = (peers \cup AskedPeers) \ done
         /\ \A p \in Peers \ peers : Asked(p)' <=> Asked(p)
         /\ \A p \in peers : Asked(p)' <=> p \notin done
<1>1. requests \in Seq(Request) /\ t \in Seq(Request)
  BY DEF Types, AsksOn
<1>2. requests' \in Seq(Request) /\ Elems(requests') = Elems(requests) \cup Elems(t)
  BY <1>1, QueueJoin
<1>3. ASSUME NEW p \in Peers \ peers PROVE Asked(p)' <=> Asked(p)
  <2>1. ASSUME Asked(p)' PROVE Asked(p)
    <3>1. PICK m \in Elems(requests') \cup Elems(wire') : AsksFor(m, p)
      BY <2>1 DEF Asked
    <3>2. m \notin Elems(t)
      BY <3>1 DEF AsksOn, AsksFor
    <3>3. m \in Elems(requests) \cup Elems(wire)
      BY <1>2, <3>1, <3>2 DEF Leaves
    <3> QED BY <3>1, <3>3 DEF Asked
  <2>2. ASSUME Asked(p) PROVE Asked(p)'
    <3>1. PICK m \in Elems(requests) \cup Elems(wire) : AsksFor(m, p)
      BY <2>2 DEF Asked
    <3>2. m \in Elems(requests') \cup Elems(wire')
      BY <1>2, <3>1 DEF Leaves, AsksFor
    <3> QED BY <3>1, <3>2 DEF Asked
  <2> QED BY <2>1, <2>2
<1>4. ASSUME NEW p \in peers PROVE Asked(p)' <=> p \notin done
  <2>1. ASSUME Asked(p)', p \in done PROVE FALSE
    <3>1. PICK m \in Elems(requests') \cup Elems(wire') : AsksFor(m, p)
      BY <2>1 DEF Asked
    <3>2. m \in Elems(t) \/ m \in Elems(requests) \cup Elems(wire')
      BY <1>2, <3>1
    <3> QED BY <2>1, <3>1, <3>2 DEF AsksOn, AsksFor, Leaves
  <2>2. ASSUME p \notin done PROVE Asked(p)'
    <3>1. PICK r \in Elems(t) : r.peer = p /\ r.type = "history"
      BY <2>2 DEF AsksOn
    <3> QED BY <1>2, <3>1 DEF Asked, AsksFor
  <2> QED BY <2>1, <2>2
<1>5. AskedPeers' = (peers \cup AskedPeers) \ done
  BY <1>3, <1>4 DEF AskedPeers
<1> QED BY <1>2, <1>3, <1>4, <1>5

\* processNewSyncMessages keeps Base.
LEMMA ProcessBase ==
  ASSUME Base, NEW peers \in SUBSET Peers, NEW feed, NEW count,
         ProcessNewSyncMessages(peers, feed, count), listed, online,
         count = Cardinality(peers \cup AskedPeers), Leaves(peers),
         \A p \in peers : state[p].synced = FALSE /\ Feeds(p, feed[p]),
         UNCHANGED <<history, online, limit, listed, top, saved, saves>>
  PROVE  Base' /\ InOrder
<1> DEFINE done == Ended(peers, feed)
           list == ListsGiven(peers, feed)
           t == NextRequests(peers, feed)
<1>1. Types /\ Dialogs /\ News /\ Order /\ Given /\ Phase /\ Counted /\ Asks
  BY DEF Base
<1>2. /\ requests' = requests \o t /\ jobs' = count - Cardinality(done)
      /\ sync' = (IF jobs' = 0 THEN "finished" ELSE "inProgress")
      /\ disturbed' = (disturbed \/ {p \in done : ~AllMessagesFetched(state[p], feed[p])} # {})
  BY ProcessParts, Zenon
<1>3. done = Ended(peers, feed) /\ list = ListsGiven(peers, feed) /\ t = NextRequests(peers, feed)
  OBVIOUS
<1> HIDE DEF done, list, t
<1>4. Processed(peers, feed, done, list)
  BY <1>1, <1>3, ProcessSettles, Zenon
<1>5. AsksOn(peers, done, t)
  BY <1>1, <1>3, <1>4, ProcessRequests, Zenon
<1>6. done \in SUBSET peers /\ state' \in [Peers -> DialogState] /\ Settles(done, peers \ done, list)
  BY <1>4 DEF Processed
<1>7. /\ requests' \in Seq(Request) /\ Elems(requests') = Elems(requests) \cup Elems(t)
      /\ AskedPeers' = (peers \cup AskedPeers) \ done
      /\ \A p \in Peers \ peers : Asked(p)' <=> Asked(p)
      /\ \A p \in peers : Asked(p)' <=> p \notin done
  BY <1>1, <1>2, <1>5, <1>6, ProcessAsked
<1>8. Dialogs' /\ News' /\ Given' /\ InOrder
  <2>1. Elems(wire') \subseteq Elems(wire) /\ UNCHANGED <<history, top, saved>> /\ done \in SUBSET Peers
    BY <1>6 DEF Leaves
  <2> QED BY <1>1, <1>6, <2>1, SettlesBase, Zenon
<1>9. /\ \A p \in Peers \ peers : state'[p] = state[p]
      /\ \A p \in peers \ done : Continues(p)
  BY <1>6 DEF Settles
<1>10. IsFiniteSet(peers \cup AskedPeers) /\ IsFiniteSet(done)
  <2>1. IsFiniteSet(Peers) /\ peers \cup AskedPeers \subseteq Peers /\ done \subseteq Peers
    BY <1>6, SyncAssumption DEF AskedPeers
  <2> QED BY <2>1, FS_Subset
<1>11. jobs' = Cardinality(AskedPeers') /\ jobs' \in Nat
  <2> DEFINE all == peers \cup AskedPeers
  <2>1. IsFiniteSet(all) /\ done \subseteq all /\ AskedPeers' = all \ done
    BY <1>6, <1>7, <1>10
  <2>2. jobs' = Cardinality(all) - Cardinality(done)
    BY <1>2
  <2> HIDE DEF all
  <2>3. all \cap done = done
    BY <2>1
  <2>4. Cardinality(all \ done) = Cardinality(all) - Cardinality(all \cap done)
    BY <2>1, FS_Difference
  <2>5. IsFiniteSet(all \ done)
    BY <2>1, FS_Difference
  <2>6. Cardinality(all \ done) \in Nat
    BY <2>5, FS_CardinalityType
  <2> QED BY <2>1, <2>2, <2>3, <2>4, <2>6
<1>12. Types'
  BY <1>1, <1>2, <1>6, <1>7, <1>11 DEF Types, Leaves
<1>13. Order'
  <2>1. AllApart(requests) /\ AllApart(t) /\ AllApart(wire') /\ InTurn(history, wire')
    BY <1>1, <1>5 DEF Order, AsksOn, Leaves
  <2>2. \A m \in Elems(requests) \cup Elems(wire'), r \in Elems(t) : Apart(m, r) /\ Apart(r, m)
    BY <1>5 DEF AsksOn, Leaves, Apart
  <2>3. AllApart(requests')
    <3>1. requests \in Seq(Request) /\ t \in Seq(Request)
      BY <1>1, <1>5 DEF Types, AsksOn
    <3> QED BY <1>2, <2>1, <2>2, <3>1, QueueJoin
  <2>4. \A r \in Elems(requests'), m \in Elems(wire') : Apart(r, m)
    BY <1>1, <1>7, <2>2 DEF Order, Leaves
  <2> QED BY <2>1, <2>3, <2>4 DEF Order
<1>14. Phase'
  <2>1. \A m \in Elems(requests') \cup Elems(wire') : m.type # "dialogs"
    BY <1>1, <1>5, <1>7 DEF Phase, AsksOn, Leaves
  <2> QED BY <1>2, <2>1 DEF Phase
<1>15. Counted'
  BY <1>2, <1>11 DEF Counted
<1>16. Asks'
  <2>1. ASSUME NEW p \in Peers, Asked(p)'
        PROVE  state'[p].synced = FALSE /\ state'[p].pendingIds # <<>>
    <3>1. CASE p \in peers
      BY <1>7, <1>9, <2>1, <3>1 DEF Continues
    <3>2. CASE p \notin peers
      <4>1. state'[p] = state[p] /\ Asked(p)
        BY <1>7, <1>9, <2>1, <3>2
      <4>2. state[p].synced \in BOOLEAN
        BY <1>1, TypeFacts
      <4> QED BY <1>1, <4>1, <4>2 DEF Asks
    <3> QED BY <3>1, <3>2
  <2>2. ASSUME NEW r \in Elems(requests'), r.type = "history"
        PROVE  /\ r.offsetId = Last(state'[r.peer].pendingIds) /\ r.limit >= 1
               /\ r.minId <= state'[r.peer].syncedMessageId
    <3>1. CASE r \in Elems(t)
      BY <1>5, <3>1 DEF AsksOn
    <3>2. CASE r \in Elems(requests)
      <4>1. r.peer \in Peers
        BY <1>1, <2>2, <3>2, TypeFacts, Fields
      <4>2. r.peer \notin peers
        BY <2>2, <3>2 DEF Leaves
      <4>3. state'[r.peer] = state[r.peer]
        BY <1>9, <4>1, <4>2
      <4> QED BY <1>1, <2>2, <3>2, <4>3 DEF Asks
    <3> QED BY <1>7, <3>1, <3>2
  <2>3. ASSUME NEW m \in Elems(wire'), m.type = "history"
        PROVE  /\ Descending(m.ids)
               /\ \A k \in DOMAIN m.ids :
                    m.ids[k] \in Ids(m.peer) /\ m.ids[k] < Last(state'[m.peer].pendingIds)
    <3>1. m \in Elems(wire)
      BY DEF Leaves
    <3>2. m.peer \in Peers
      BY <1>1, <2>3, <3>1, TypeFacts, Fields
    <3>3. m.peer \notin peers
      BY <2>3 DEF Leaves
    <3>4. state'[m.peer] = state[m.peer]
      BY <1>9, <3>2, <3>3
    <3> QED BY <1>1, <2>3, <3>1, <3>4 DEF Asks
  <2>4. \A p : Ids(p)' = Ids(p)
    BY DEF Ids
  <2> QED BY <2>1, <2>2, <2>3, <2>4 DEF Asks
<1> QED BY <1>8, <1>12, <1>13, <1>14, <1>15, <1>16 DEF Base

\* Every message of the dialog with p is accounted for, the list on its way included.
Covered(p, ids) ==
  \A id \in Ids(p) :
    \/ id <= state[p].syncedMessageId \/ Held(p, id) \/ OnWire(id)
    \/ \E k \in DOMAIN ids : ids[k] = id
    \/ ids # <<>> /\ id < Last(ids)

\* What DialogsWhole says of one dialog.
DialogWhole(p) ==
  /\ state[p].synced \/ Asked(p) \/ state[p] = NewState
  /\ \A id \in Ids(p) :
       \/ id <= state[p].syncedMessageId
       \/ Held(p, id)
       \/ Asked(p) /\ id < Last(state[p].pendingIds)
       \/ OnWire(id)

\* processNewSyncMessages keeps every message accounted for.
LEMMA ProcessWhole ==
  ASSUME Base, Whole, NEW peers \in SUBSET Peers, NEW feed, NEW count,
         ProcessNewSyncMessages(peers, feed, count), listed, ~disturbed',
         Leaves(peers), \A p \in peers : state[p].synced = FALSE /\ Feeds(p, feed[p]),
         \A p \in peers : Covered(p, feed[p]), \A p \in Peers \ (peers \cup omitted') : DialogWhole(p),
         forgone \subseteq forgone',
         \A p \in Peers : p \in omitted' =>
           /\ p \notin peers /\ ~Asked(p)
           /\ p \in forgone' \/ (state[p].synced = FALSE /\ state[p].syncedMessageId # 0),
         UNCHANGED <<history, online, listed, top, saved>>
  PROVE  Whole'
<1> DEFINE done == Ended(peers, feed)
           list == ListsGiven(peers, feed)
           t == NextRequests(peers, feed)
<1>1. Types /\ Dialogs /\ News /\ Given /\ Phase
  BY DEF Base
<1>2. /\ requests' = requests \o t
      /\ sync' = (IF jobs' = 0 THEN "finished" ELSE "inProgress")
      /\ disturbed' = (disturbed \/ {p \in done : ~AllMessagesFetched(state[p], feed[p])} # {})
  BY ProcessParts, Zenon
<1>3. done = Ended(peers, feed) /\ list = ListsGiven(peers, feed) /\ t = NextRequests(peers, feed)
  OBVIOUS
<1> HIDE DEF done, list, t
<1>4. Processed(peers, feed, done, list)
  BY <1>1, <1>3, ProcessSettles, Zenon
<1>5. AsksOn(peers, done, t)
  BY <1>1, <1>3, <1>4, ProcessRequests, Zenon
<1>6. done \in SUBSET peers /\ state' \in [Peers -> DialogState] /\ Settles(done, peers \ done, list)
  BY <1>4 DEF Processed
<1>7. /\ \A p \in Peers \ peers : Asked(p)' <=> Asked(p)
      /\ \A p \in peers : Asked(p)' <=> p \notin done
  BY <1>1, <1>2, <1>5, <1>6, ProcessAsked
<1>8. /\ ~disturbed /\ listed /\ online /\ MarksGiven /\ AnswerWhole
      /\ \A p \in done : AllMessagesFetched(state[p], feed[p])
  BY <1>2 DEF Whole
<1>9. /\ \A p \in Peers \ peers : state'[p] = state[p]
      /\ \A p \in done : state'[p].synced = TRUE
      /\ \A p \in peers \ done : state'[p].syncedMessageId = state[p].syncedMessageId
  BY <1>6 DEF Settles, Continues, Finishes
<1>10. (\A id : OnWire(id)' <=> OnWire(id)) /\ \A p : Ids(p)' = Ids(p)
  BY DEF OnWire, Leaves, IsNews, Ids
<1>11. \A p \in peers : \A k \in DOMAIN feed[p] : feed[p][k] \in Nat
  BY DEF Feeds
<1>12. ASSUME NEW p \in done, NEW id \in Ids(p)
       PROVE  id <= state[p].syncedMessageId \/ id \in Elems(list[p]) \/ OnWire(id)
  <2> DEFINE ids == feed[p]
             mark == state[p].syncedMessageId
  <2>1. p \in peers /\ p \in Peers
    BY <1>6
  <2>2. id \in Nat /\ id # 0 /\ mark \in Nat
    BY <1>1, <2>1, TypeFacts
  <2>3. /\ ids = <<>> \/ Last(ids) <= mark \/ Last(ids) = 1
        /\ ids # <<>> => Last(ids) \in Nat
    <3>1. ids \in Seq(Nat)
      BY <2>1 DEF Feeds
    <3>2. ids = <<>> \/ Last(ids) <= mark \/ Last(ids) = 1
      BY <1>8, Zenon DEF AllMessagesFetched
    <3> HIDE DEF ids
    <3> QED BY <3>1, <3>2 DEF Last
  <2>4. \/ id <= mark \/ Held(p, id) \/ OnWire(id)
        \/ \E k \in DOMAIN ids : ids[k] = id
        \/ ids # <<>> /\ id < Last(ids)
    BY <2>1 DEF Covered
  <2>5. /\ Held(p, id) => id \in Elems(list[p])
        /\ \A k \in DOMAIN ids : ids[k] > mark => ids[k] \in Elems(list[p])
    BY <1>4, Zenon DEF Processed
  <2> HIDE DEF mark, ids
  <2>6. CASE \E k \in DOMAIN ids : ids[k] = id
    BY <2>2, <2>5, <2>6 DEF mark
  <2>7. CASE ids # <<>> /\ id < Last(ids)
    BY <2>2, <2>3, <2>7 DEF mark
  <2> QED BY <2>4, <2>5, <2>6, <2>7 DEF mark
<1>13. /\ MarksGiven'
       /\ \A p \in done : \A id \in Ids(p) : id <= state'[p].syncedMessageId \/ OnWire(id)
  <2>1. done \in SUBSET Peers /\ UNCHANGED <<history, saved>>
    BY <1>6
  <2> QED BY <1>1, <1>6, <1>8, <1>12, <2>1, SettlesWhole
<1>14. ASSUME NEW p \in peers \ done, NEW id \in Ids(p)
       PROVE  \/ id <= state'[p].syncedMessageId \/ Held(p, id)'
              \/ id < Last(state'[p].pendingIds) \/ OnWire(id)
  <2> DEFINE ids == feed[p]
             mark == state[p].syncedMessageId
  <2>2. id \in Nat /\ mark \in Nat
    BY <1>1, TypeFacts
  <2>3. /\ Last(state'[p].pendingIds) = Last(ids)
        /\ Held(p, id) => Held(p, id)'
        /\ \A k \in DOMAIN ids : ids[k] > mark => Held(p, ids[k])'
    BY <1>4 DEF Processed
  <2>4. \/ id <= mark \/ Held(p, id) \/ OnWire(id)
        \/ \E k \in DOMAIN ids : ids[k] = id
        \/ ids # <<>> /\ id < Last(ids)
    BY DEF Covered
  <2>5. state'[p].syncedMessageId = mark
    BY <1>9
  <2> HIDE DEF mark, ids
  <2>6. ASSUME NEW k \in DOMAIN ids, ids[k] = id PROVE id <= mark \/ Held(p, id)'
    <3>1. CASE id > mark
      BY <2>3, <2>6, <3>1 DEF Held
    <3> QED BY <2>2, <3>1
  <2> QED BY <2>3, <2>4, <2>5, <2>6
<1>15. ASSUME NEW p \in Peers \ omitted' PROVE DialogWhole(p)'
  <2>1. CASE p \in done
    BY <1>9, <1>10, <1>13, <2>1 DEF DialogWhole
  <2>2. CASE p \in peers \ done
    <3>1. Asked(p)'
      BY <1>7, <2>2
    <3> QED BY <1>10, <1>14, <2>2, <3>1 DEF DialogWhole
  <2>3. CASE p \in Peers \ peers
    <3>1. state'[p] = state[p] /\ (Asked(p)' <=> Asked(p)) /\ DialogWhole(p)
      BY <1>7, <1>9, <2>3
    <3>2. \A id : Held(p, id)' <=> Held(p, id)
      BY <3>1 DEF Held
    <3> QED BY <1>10, <3>1, <3>2 DEF DialogWhole, NewState
  <2> QED BY <1>6, <2>1, <2>2, <2>3
<1>16. DialogsWhole'
  BY <1>15, Zenon DEF DialogsWhole, DialogWhole
<1>17. ListSent' /\ ListWhole'
  <2>1. \A m \in Elems(wire') : m.type # "dialogs"
    BY <1>1, <1>8 DEF Phase, Leaves
  <2>2. sync' # "notStarted"
    BY <1>2
  <2> QED BY <2>1, <2>2 DEF ListSent, ListWhole
<1>18. AnswerWhole'
  <2> SUFFICES ASSUME NEW m \in Elems(wire'), m.type = "history"
               PROVE  \A id \in Ids(m.peer) :
                        \/ id <= state'[m.peer].syncedMessageId
                        \/ id >= Last(state'[m.peer].pendingIds)
                        \/ \E k \in DOMAIN m.ids : m.ids[k] = id
                        \/ m.ids # <<>> /\ id < Last(m.ids)
    BY <1>10 DEF AnswerWhole
  <2>1. m \in Elems(wire) /\ m.peer \notin peers
    BY DEF Leaves
  <2>2. m.peer \in Peers
    BY <1>1, <2>1, TypeFacts, Fields
  <2>3. state'[m.peer] = state[m.peer]
    BY <1>9, <2>1, <2>2
  <2> QED BY <1>8, <2>1, <2>3 DEF AnswerWhole
<1>19. LeftOut'
  BY <1>7, <1>9 DEF LeftOut
<1> QED BY <1>8, <1>13, <1>16, <1>17, <1>18, <1>19 DEF Whole

\* A counter of zero: no request under way.
LEMMA NobodyAsked ==
  ASSUME Types, Counted, jobs = 0
  PROVE  /\ AskedPeers = {}
         /\ \A m \in Elems(requests) \cup Elems(wire) : m.type # "history"
<1>1. IsFiniteSet(AskedPeers)
  <2>1. IsFiniteSet(Peers) /\ AskedPeers \subseteq Peers
    BY SyncAssumption DEF AskedPeers
  <2> QED BY <2>1, FS_Subset
<1>2. AskedPeers = {}
  BY <1>1, FS_EmptySet DEF Counted
<1>3. ASSUME NEW m \in Elems(requests) \cup Elems(wire), m.type = "history" PROVE FALSE
  <2>1. m.peer \in Peers
    BY <1>3, TypeFacts, Fields
  <2>2. Asked(m.peer)
    BY <1>3 DEF Asked, AsksFor
  <2> QED BY <1>2, <2>1, <2>2 DEF AskedPeers
<1> QED BY <1>2, <1>3

\* The state of a dialog that has no mark, holds nothing and is not synchronized.
LEMMA NewStateFields ==
  ASSUME NEW st \in DialogState, st.syncedMessageId = 0, st.synced = FALSE, st.pendingIds = <<>>
  PROVE  st = NewState
BY DEF DialogState, NewState

\* syncPeers
LEMMA SyncPeersSyncInv ==
  ASSUME NEW peers \in SUBSET Peers PROVE SyncInv /\ SyncPeers(peers) => SyncInv' /\ InOrder
<1> SUFFICES ASSUME SyncInv, SyncPeers(peers) PROVE SyncInv' /\ InOrder
  OBVIOUS
<1> DEFINE feed == [p \in peers |-> TopMessage(p)]
           count == Cardinality(peers)
<1>1. /\ Base /\ Whole /\ Types /\ Dialogs /\ Order /\ Phase /\ Counted
      /\ sync = "notStarted" /\ listed /\ online
  BY DEF SyncInv, Base, SyncPeers
<1>2. /\ ProcessNewSyncMessages(peers, feed, count)
      /\ omitted' = {p \in Peers \ peers : top[p] # 0}
      /\ forgone' = forgone \cup {p \in {q \in Peers \ peers : top[q] # 0} :
                                    state[p].syncedMessageId = 0}
      /\ UNCHANGED <<history, wire, online, limit, listed, top, saved, saves>>
  BY DEF SyncPeers, savedVars
<1>3. peers \subseteq Peers /\ \A p \in Peers \ (peers \cup omitted') : top[p] = 0
  BY <1>2
<1>4. \A p \in peers : feed[p] = IF top[p] # 0 THEN <<top[p]>> ELSE <<>>
  BY DEF TopMessage
<1>5. count = Cardinality(peers)
  OBVIOUS
<1> HIDE DEF feed, count
<1>6. jobs = 0
  BY <1>1 DEF Counted, Types
<1>7. AskedPeers = {} /\ \A m \in Elems(requests) \cup Elems(wire) : m.type # "history"
  BY <1>1, <1>6, NobodyAsked
<1>8. count = Cardinality(peers \cup AskedPeers)
  <2>1. peers \cup AskedPeers = peers
    BY <1>7
  <2> QED BY <1>5, <2>1
<1>9. Leaves(peers)
  BY <1>1, <1>2, <1>7 DEF Leaves, Types, Order
<1>10. \A p \in Peers : state[p].pendingIds = <<>> /\ state[p].synced = FALSE
  <2>1. \A p \in Peers : state[p].synced \in BOOLEAN
    BY <1>1, TypeFacts
  <2> QED BY <1>1, <2>1 DEF Phase
<1>11. ASSUME NEW p \in peers
       PROVE  /\ top[p] \in Nat /\ feed[p] \in Seq(Nat)
              /\ top[p] = 0 => feed[p] = <<>>
              /\ top[p] # 0 => /\ top[p] \in Ids(p)
                              /\ DOMAIN feed[p] = {1} /\ feed[p][1] = top[p]
                              /\ feed[p] # <<>> /\ Last(feed[p]) = top[p]
  <2>1. top[p] \in Nat /\ top[p] \in Ids(p) \cup {0} /\ p \in Peers
    BY <1>1, <1>3, TypeFacts DEF Dialogs
  <2>2. /\ <<top[p]>> \in Seq(Nat) /\ DOMAIN <<top[p]>> = {1} /\ <<top[p]>>[1] = top[p]
        /\ <<top[p]>> # <<>> /\ Last(<<top[p]>>) = top[p]
    BY <2>1 DEF Last
  <2>3. <<>> \in Seq(Nat)
    OBVIOUS
  <2>4. CASE top[p] = 0
    <3>1. feed[p] = <<>>
      BY <1>4, <2>4
    <3> QED BY <2>1, <2>3, <2>4, <3>1
  <2>5. CASE top[p] # 0
    <3>1. feed[p] = <<top[p]>>
      BY <1>4, <2>5
    <3>2. top[p] \in Ids(p)
      BY <2>1, <2>5
    <3> QED BY <2>1, <2>2, <2>5, <3>1, <3>2, Zenon
  <2> QED BY <2>4, <2>5
<1>12. ASSUME NEW p \in peers PROVE state[p].synced = FALSE /\ Feeds(p, feed[p])
  <2>1. state[p].synced = FALSE /\ state[p].pendingIds = <<>>
    BY <1>3, <1>10
  <2>2. CASE top[p] = 0
    <3>1. feed[p] = <<>>
      BY <1>11, <2>2
    <3> QED BY <2>1, <3>1 DEF Feeds, Descending
  <2>3. CASE top[p] # 0
    BY <1>11, <2>1, <2>3 DEF Feeds, Descending
  <2> QED BY <2>2, <2>3
<1>13. Base' /\ InOrder
  <2>1. UNCHANGED <<history, online, limit, listed, top, saved, saves>>
    BY <1>2
  <2> QED BY <1>1, <1>2, <1>3, <1>8, <1>9, <1>12, <2>1, ProcessBase, Zenon
<1>14. ASSUME ~disturbed' PROVE Whole'
  <2>1. ~disturbed
    BY <1>2, <1>14, ProcessParts, ZenonT(30) DEF ProcessNewSyncMessages
  <2>2. \A p \in Peers : /\ state[p].syncedMessageId # 0 => top[p] # 0
                         /\ \A id \in Ids(p) : id <= top[p] \/ OnWire(id)
    BY <1>1, <2>1 DEF Whole, ListWhole
  <2>3. ASSUME NEW p \in peers PROVE Covered(p, feed[p])
    <3>1. ASSUME NEW id \in Ids(p)
          PROVE  \/ OnWire(id) \/ \E k \in DOMAIN feed[p] : feed[p][k] = id
                 \/ feed[p] # <<>> /\ id < Last(feed[p])
      <4>1. id \in Nat /\ id # 0
        BY <1>1, TypeFacts
      <4>2. id <= top[p] \/ OnWire(id)
        BY <1>3, <2>2
      <4> QED BY <1>11, <4>1, <4>2
    <3> QED BY <3>1 DEF Covered
  <2>4. ASSUME NEW p \in Peers \ (peers \cup omitted') PROVE DialogWhole(p)
    <3>1. top[p] = 0 /\ state[p].syncedMessageId = 0
      BY <1>3, <2>2
    <3>2. state[p] = NewState
      BY <1>1, <1>10, <3>1, TypeFacts, NewStateFields
    <3>3. ASSUME NEW id \in Ids(p) PROVE OnWire(id)
      <4>1. id \in Nat /\ id # 0
        BY <1>1, TypeFacts
      <4> QED BY <2>2, <3>1, <4>1
    <3> QED BY <3>2, <3>3 DEF DialogWhole
  <2>5. UNCHANGED <<history, online, listed, top, saved>>
    BY <1>2
  <2>6. \A p \in Peers : p \in omitted' =>
          /\ p \notin peers /\ ~Asked(p)
          /\ p \in forgone' \/ (state[p].synced = FALSE /\ state[p].syncedMessageId # 0)
    <3>1. \A p \in Peers : ~Asked(p)
      BY <1>7 DEF AskedPeers
    <3> QED BY <1>2, <1>10, <3>1
  <2>7. forgone \subseteq forgone'
    BY <1>2
  <2> QED BY <1>1, <1>2, <1>9, <1>12, <1>14, <2>3, <2>4, <2>5, <2>6, <2>7, ProcessWhole, ZenonT(60)
<1>15. CASE disturbed'
  BY <1>13, <1>15 DEF SyncInv, Whole
<1> QED BY <1>13, <1>14, <1>15 DEF SyncInv

\* onGetHistoryFinished
LEMMA ReceiveHistorySyncInv == SyncInv /\ ReceiveHistory => SyncInv' /\ InOrder
<1> SUFFICES ASSUME SyncInv, ReceiveHistory PROVE SyncInv' /\ InOrder
  OBVIOUS
<1> DEFINE m == Head(wire)
           p == m.peer
           peers == {p}
           feed == [q \in peers |-> m.ids]
<1>1. /\ Base /\ Whole /\ Types /\ Dialogs /\ Order /\ Phase /\ Counted /\ Asks
      /\ wire # <<>> /\ m.type = "history" /\ wire' = Tail(wire)
  BY DEF SyncInv, Base, ReceiveHistory
<1>2. /\ ProcessNewSyncMessages(peers, feed, jobs)
      /\ UNCHANGED <<history, online, limit, listed, top, saved, saves, omitted, forgone>>
  BY DEF ReceiveHistory, savedVars, listVars
<1>3. /\ m \in Message /\ wire' \in Seq(Message)
      /\ Elems(wire) = {m} \cup Elems(wire')
      /\ AllApart(wire') /\ InTurn(history, wire')
      /\ \A e \in Elems(wire') : Apart(m, e)
      /\ \A r \in Elems(requests) : Apart(r, m)
  BY <1>1, MessageTaken
<1>4. feed[p] = m.ids /\ peers = {p} /\ p = m.peer
  OBVIOUS
<1> HIDE DEF m, p, peers, feed
<1>5. p \in Peers /\ m.ids \in Seq(Nat) /\ m \in Elems(wire) /\ peers \in SUBSET Peers
  BY <1>1, <1>3, <1>4, Fields
<1>6. Asked(p) /\ state[p].synced = FALSE /\ state[p].pendingIds # <<>>
  <2>1. Asked(p)
    BY <1>1, <1>4, <1>5 DEF Asked, AsksFor
  <2>2. state[p].synced \in BOOLEAN
    BY <1>1, <1>5, TypeFacts
  <2> QED BY <1>1, <1>5, <2>1, <2>2 DEF Asks
<1>7. listed /\ online
  <2>1. p \in AskedPeers /\ IsFiniteSet(AskedPeers)
    <3>1. IsFiniteSet(Peers) /\ AskedPeers \subseteq Peers
      BY SyncAssumption DEF AskedPeers
    <3> QED BY <1>5, <1>6, <3>1, FS_Subset DEF AskedPeers
  <2>2. jobs # 0 /\ jobs \in Nat
    <3>1. Cardinality(AskedPeers) # 0
      BY <2>1, FS_EmptySet
    <3> QED BY <1>1, <3>1 DEF Counted, Types
  <2>3. sync = "inProgress"
    BY <1>1, <2>2 DEF Counted
  <2> QED BY <1>1, <2>3 DEF Phase
<1>8. jobs = Cardinality(peers \cup AskedPeers)
  <2>1. peers \cup AskedPeers = AskedPeers
    BY <1>4, <1>5, <1>6 DEF AskedPeers
  <2> QED BY <1>1, <2>1 DEF Counted
<1>9. Leaves(peers)
  <2>1. \A e \in Elems(requests) \cup Elems(wire') : e.type = "history" => e.peer \notin peers
    BY <1>1, <1>3, <1>4 DEF Apart
  <2> QED BY <1>1, <1>3, <1>4, <2>1 DEF Leaves
<1>10. Feeds(p, m.ids)
  <2> DEFINE w == state[p].pendingIds
  <2>1. /\ Descending(m.ids)
        /\ \A k \in DOMAIN m.ids : m.ids[k] \in Ids(p) /\ m.ids[k] < Last(w)
    BY <1>1, <1>4, <1>5 DEF Asks
  <2>2. Last(w) \in Nat /\ Last(w) <= top[p] /\ top[p] \in Nat
    <3>1. w \in Seq(Nat) /\ w # <<>> /\ top[p] \in Nat
      BY <1>1, <1>5, <1>6, TypeFacts
    <3>2. \A i \in DOMAIN w : w[i] <= top[p]
      BY <1>1, <1>5 DEF Dialogs
    <3> HIDE DEF w
    <3>3. Len(w) \in DOMAIN w /\ w[Len(w)] \in Nat
      BY <3>1
    <3> QED BY <3>1, <3>2, <3>3 DEF Last
  <2>3. \A k \in DOMAIN m.ids : m.ids[k] \in Nat
    BY <1>5
  <2> HIDE DEF w
  <2>4. \A k \in DOMAIN m.ids : m.ids[k] <= top[p]
    BY <2>1, <2>2, <2>3
  <2> QED BY <1>5, <2>1, <2>4 DEF Feeds, w
<1>11. \A q \in peers : state[q].synced = FALSE /\ Feeds(q, feed[q])
  BY <1>4, <1>6, <1>10
<1>12. Base' /\ InOrder
  BY <1>1, <1>2, <1>5, <1>7, <1>8, <1>9, <1>11, ProcessBase, Zenon
<1>13. ASSUME ~disturbed' PROVE Whole'
  <2>1. ~disturbed
    BY <1>2, <1>13, ZenonT(30) DEF ProcessNewSyncMessages
  <2>2. sync # "notStarted"
    BY <1>1, <1>5, <1>6 DEF Phase
  <2>3. DialogsWhole /\ AnswerWhole /\ LeftOut
    BY <1>1, <2>1 DEF Whole
  <2>4. \A q \in Peers \ omitted : DialogWhole(q)
    BY <2>2, <2>3, Zenon DEF DialogsWhole, DialogWhole
  <2>8. p \notin omitted
    BY <1>5, <1>6, <2>3 DEF LeftOut
  <2>5. Covered(p, m.ids)
    <3> DEFINE w == state[p].pendingIds
               ids == m.ids
    <3>1. ASSUME NEW id \in Ids(p)
          PROVE  \/ id <= state[p].syncedMessageId \/ Held(p, id) \/ OnWire(id)
                 \/ \E k \in DOMAIN ids : ids[k] = id
                 \/ ids # <<>> /\ id < Last(ids)
      <4>1. /\ id <= state[p].syncedMessageId \/ Held(p, id) \/ id < Last(w) \/ OnWire(id)
            /\ \/ id <= state[p].syncedMessageId \/ id >= Last(w)
               \/ \E k \in DOMAIN ids : ids[k] = id
               \/ ids # <<>> /\ id < Last(ids)
        BY <1>1, <1>4, <1>5, <2>3, <2>4, <2>8 DEF AnswerWhole, DialogWhole
      <4>2. id \in Nat /\ Last(w) \in Nat
        <5>1. w \in Seq(Nat) /\ w # <<>>
          BY <1>1, <1>5, <1>6, TypeFacts
        <5> HIDE DEF w
        <5> QED BY <1>1, <5>1, TypeFacts DEF Last
      <4>3. ~(id < Last(w) /\ id >= Last(w))
        BY <4>2
      <4> HIDE DEF w, ids
      <4> QED BY <4>1, <4>3
    <3> QED BY <3>1 DEF Covered
  <2>6. /\ \A q \in peers : Covered(q, feed[q])
        /\ \A q \in Peers \ (peers \cup omitted') : DialogWhole(q)
        /\ forgone \subseteq forgone'
        /\ \A q \in Peers : q \in omitted' =>
             /\ q \notin peers /\ ~Asked(q)
             /\ q \in forgone' \/ (state[q].synced = FALSE /\ state[q].syncedMessageId # 0)
    BY <1>2, <1>4, <2>3, <2>4, <2>5, <2>8 DEF LeftOut
  <2>7. UNCHANGED <<history, online, listed, top, saved>>
    BY <1>2
  <2> QED BY <1>1, <1>2, <1>5, <1>7, <1>9, <1>11, <1>13, <2>6, <2>7, ProcessWhole, ZenonT(60)
<1>14. CASE disturbed'
  BY <1>12, <1>14 DEF SyncInv, Whole
<1> QED BY <1>12, <1>13, <1>14 DEF SyncInv

\* The connection is lost: what each dialog holds is given.
LEMMA ConnectionLostSyncInv == SyncInv /\ ConnectionLost => SyncInv' /\ InOrder
<1> SUFFICES ASSUME SyncInv, ConnectionLost PROVE SyncInv' /\ InOrder
  OBVIOUS
<1> DEFINE asked == {p \in Peers : \E m \in Elems(requests) \cup Elems(wire) :
                                     m.type = "history" /\ m.peer = p}
           list == [p \in asked |-> state[p].pendingIds]
<1>1. Types /\ Dialogs /\ News /\ Order /\ Given /\ Phase /\ Counted /\ Asks
  BY DEF SyncInv, Base
<1>2. /\ online' = FALSE /\ requests' = <<>> /\ wire' = <<>>
      /\ state' = [p \in Peers |-> IF p \in asked THEN SyncFinished(state[p]) ELSE state[p]]
      /\ Give(list, asked) /\ jobs' = jobs - Cardinality(asked)
      /\ sync' = (IF sync = "inProgress" /\ jobs' = 0 THEN "finished" ELSE sync)
      /\ listed' = TRUE /\ disturbed' = TRUE
      /\ UNCHANGED <<history, limit, top, saved, saves>>
  BY DEF ConnectionLost, savedVars
<1>3. asked = AskedPeers
  BY DEF AskedPeers, Asked, AsksFor
<1>4. asked \in SUBSET Peers /\ \A p \in asked : list[p] = state[p].pendingIds
  OBVIOUS
<1> HIDE DEF asked, list
<1>5. jobs' = 0 /\ AskedPeers' = {}
  <2>1. IsFiniteSet(Peers)
    BY SyncAssumption
  <2>2. IsFiniteSet(asked)
    BY <1>4, <2>1, FS_Subset
  <2>3. Cardinality(asked) \in Nat /\ jobs = Cardinality(asked)
    BY <1>1, <1>3, <2>2, FS_CardinalityType DEF Counted
  <2>4. AskedPeers' = {}
    BY <1>2, EmptyQueue DEF AskedPeers, Asked
  <2> QED BY <1>2, <2>3, <2>4
<1>6. ASSUME NEW p \in asked PROVE state'[p] \in DialogState /\ Finishes(p, list[p])
  <2> DEFINE z == state[p]
             w == z.pendingIds
  <2>1. p \in Peers /\ list[p] = w /\ state'[p] = SyncFinished(z)
    BY <1>2, <1>4
  <2>2. /\ z \in DialogState /\ w \in Seq(Nat) /\ Descending(w)
        /\ \A i \in DOMAIN w : w[i] \in Ids(p) /\ w[i] <= top[p]
        /\ \A x \in delivered : history[x] = p => \A i \in DOMAIN w : x < w[i]
    <3>1. \A x \in delivered : history[x] = p => \A i \in DOMAIN w : x < w[i]
      BY <1>1 DEF Given
    <3> QED BY <1>1, <2>1, <3>1, TypeFacts DEF Dialogs
  <2>3. z.syncedMessageId = state[p].syncedMessageId
    OBVIOUS
  <2> HIDE DEF z
  <2>4. /\ SyncFinished(z) \in DialogState
        /\ SyncFinished(z).synced = TRUE /\ SyncFinished(z).pendingIds = <<>>
        /\ w = <<>> => SyncFinished(z).syncedMessageId = z.syncedMessageId
        /\ w # <<>> => \E i \in DOMAIN w :
             /\ SyncFinished(z).syncedMessageId = w[i]
             /\ \A k \in DOMAIN w : w[k] <= w[i]
    BY <2>2, FinishedFacts
  <2> HIDE DEF w
  <2> QED BY <2>1, <2>2, <2>3, <2>4 DEF Finishes
<1>7. \A p \in Peers : p \notin asked => state'[p] = state[p] /\ state[p] \in DialogState
  BY <1>1, <1>2, TypeFacts
<1>8. state' \in [Peers -> DialogState]
  <2>1. \A p \in Peers : state'[p] \in DialogState
    BY <1>6, <1>7
  <2>2. state' = [p \in Peers |-> state'[p]]
    BY <1>2
  <2> QED BY <2>1, <2>2
<1>9. Settles(asked, {}, list)
  BY <1>2, <1>6, <1>7 DEF Settles
<1>10. Dialogs' /\ News' /\ Given' /\ InOrder
  <2>1. Elems(wire') \subseteq Elems(wire) /\ UNCHANGED <<history, top, saved>>
    BY <1>2, EmptyQueue
  <2> DEFINE none == {}
  <2>2. Settles(asked, none, list)
    BY <1>9
  <2> HIDE DEF none
  <2> QED BY <1>1, <1>4, <1>8, <2>1, <2>2, SettlesBase, Zenon
<1>11. Elems(requests') = {} /\ Elems(wire') = {}
  BY <1>2, EmptyQueue
<1>12. Types'
  <2>1. sync' \in {"notStarted", "inProgress", "finished"} /\ requests' \in Seq(Request)
    BY <1>1, <1>2 DEF Types
  <2>2. online' \in BOOLEAN /\ listed' \in BOOLEAN
    BY <1>2, Zenon
  <2>4. wire' \in Seq(Message) /\ jobs' \in Nat
    BY <1>2, <1>5
  <2>3. /\ history' \in Seq(Peers) /\ limit' \in Nat /\ top' \in [Peers -> Nat]
        /\ saved' \in [Peers -> Nat] /\ saves' \in Nat /\ disturbed' \in BOOLEAN
    BY <1>1, <1>2 DEF Types
  <2> QED BY <1>8, <2>1, <2>2, <2>3, <2>4 DEF Types
<1>13. Order'
  BY <1>2, <1>11, EmptyQueue DEF Order
<1>14. sync' # "inProgress" /\ (sync' = "notStarted" <=> sync = "notStarted")
  BY <1>1, <1>2, <1>5
<1>15. Phase'
  <2>1. ASSUME sync' = "notStarted", NEW p \in Peers
        PROVE  state'[p].pendingIds = <<>> /\ ~state'[p].synced
    <3>1. state[p].pendingIds = <<>> /\ ~state[p].synced
      BY <1>1, <1>14, <2>1 DEF Phase
    <3>2. p \notin asked
      BY <1>1, <1>3, <3>1 DEF Asks, AskedPeers
    <3> QED BY <1>7, <3>1, <3>2
  <2> QED BY <1>2, <1>11, <2>1 DEF Phase
<1>16. Counted'
  <2>1. Cardinality(AskedPeers') = 0
    BY <1>5, FS_EmptySet
  <2> QED BY <1>5, <1>14, <2>1 DEF Counted
<1>17. Asks'
  BY <1>11 DEF Asks, Asked
<1> QED BY <1>2, <1>10, <1>12, <1>13, <1>15, <1>16, <1>17 DEF SyncInv, Base, Whole

\* Every step.
LEMMA NextSyncInv == SyncInv /\ [Next]_vars => SyncInv'
<1> SUFFICES ASSUME SyncInv, [Next]_vars PROVE SyncInv'
  OBVIOUS
<1>1. CASE \E p \in Peers : NewMessage(p) \/ Send(p)
  BY <1>1, NewMessageSyncInv, SendSyncInv
<1>2. CASE \E value \in SyncLimits : Start(value)
  BY <1>2, StartSyncInv
<1>3. CASE HandleRequest
  BY <1>3, HandleRequestSyncInv
<1>4. CASE Receive
  BY <1>4, ReceiveNewMessageSyncInv, ReceiveSentSyncInv, ReceiveDialogsSyncInv,
     ReceiveHistorySyncInv DEF Receive
<1>5. CASE \E peers \in SUBSET Peers : SyncPeers(peers)
  BY <1>5, SyncPeersSyncInv
<1>6. CASE Save
  BY <1>6, SaveSyncInv
<1>7. CASE Restart
  BY <1>7, RestartSyncInv
<1>8. CASE ConnectionLost
  BY <1>8, ConnectionLostSyncInv
<1>9. CASE Reconnected
  BY <1>9, ReconnectedSyncInv
<1>10. CASE UNCHANGED vars
  BY <1>10, StutterSyncInv
<1> QED BY <1>1, <1>2, <1>3, <1>4, <1>5, <1>6, <1>7, <1>8, <1>9, <1>10 DEF Next

\* SyncInv is an invariant.
LEMMA SyncInvariant == Spec => []SyncInv
<1>1. Init => SyncInv
  BY InitSyncInv
<1>2. SyncInv /\ [Next]_vars => SyncInv'
  BY NextSyncInv
<1> QED BY <1>1, <1>2, PTL DEF Spec

\* What a step gives is newer than what its dialog has given before.
LEMMA NextInOrder == SyncInv /\ [Next]_vars => [InOrder]_vars
<1> SUFFICES ASSUME SyncInv, Next PROVE InOrder
  OBVIOUS
<1>1. CASE \/ ReceiveNewMessage \/ ReceiveSent \/ ReceiveHistory
           \/ (\E peers \in SUBSET Peers : SyncPeers(peers))
           \/ Restart \/ ConnectionLost
  BY <1>1, ReceiveNewMessageSyncInv, ReceiveSentSyncInv, ReceiveHistorySyncInv,
     SyncPeersSyncInv, RestartSyncInv, ConnectionLostSyncInv
<1>2. CASE UNCHANGED delivered
  BY <1>2 DEF InOrder
<1>3. CASE \E p \in Peers : NewMessage(p) \/ Send(p)
  BY <1>2, <1>3 DEF NewMessage, Send, givenVars
<1>4. CASE \E value \in SyncLimits : Start(value)
  BY <1>2, <1>4 DEF Start, givenVars
<1>5. CASE HandleRequest \/ ReceiveDialogs \/ Save \/ Reconnected
  BY <1>2, <1>5 DEF HandleRequest, ReceiveDialogs, Save, Reconnected, givenVars
<1> QED BY <1>1, <1>3, <1>4, <1>5 DEF Next, Receive
-----------------------------------------------------------------------------
(***************************************************************************)
(* The theorems.                                                           *)
(***************************************************************************)
\* MessagingApi never gives a message to the application twice: neither the history and
\* an update, nor two runs of which the first saved its state after the message.
THEOREM SyncGivenOnce == Spec => []GivenOnce
<1>1. SyncInv => GivenOnce
  BY DEF SyncInv, Base, Given, GivenOnce
<1> QED BY <1>1, SyncInvariant, PTL

\* The mark of a dialog (DialogState::syncedMessageId, in memory and saved) stands for
\* everything before it: what is not newer has been given to the application, in every
\* dialog but those that a list of syncPeers has left out before they had a mark.
THEOREM SyncNothingMissed == Spec => []NothingMissed
<1>1. SyncInv => NothingMissed
  BY DEF SyncInv, Whole, MarksGiven, NothingMissed
<1> QED BY <1>1, SyncInvariant, PTL

\* When syncPeers has finished, no dialog holds messages in pendingIds, except those that
\* its list has left out.
THEOREM SyncHeldOnlyWhileSyncing == Spec => []HeldOnlyWhileSyncing
<1>1. ASSUME SyncInv PROVE HeldOnlyWhileSyncing
  <2> SUFFICES ASSUME ~disturbed, sync = "finished", NEW p \in Peers \ omitted
               PROVE  state[p].pendingIds = <<>>
    BY DEF HeldOnlyWhileSyncing
  <2>1. Types /\ Dialogs /\ Counted /\ DialogsWhole
    BY <1>1 DEF SyncInv, Base, Whole
  <2>2. jobs = 0
    BY <2>1 DEF Counted, Types
  <2>3. ~Asked(p)
    BY <2>1, <2>2, NobodyAsked DEF AskedPeers
  <2>4. state[p].synced \/ state[p] = NewState
    BY <2>1, <2>3 DEF DialogsWhole
  <2> QED BY <2>1, <2>4 DEF Dialogs, NewState
<1> QED BY <1>1, SyncInvariant, PTL

\* m_syncJobs counts the dialogs that wait for a part of their history, and each of them
\* has exactly one request or answer under way.
THEOREM SyncOneRequestPerDialog == Spec => []OneRequestPerDialog
<1>1. ASSUME SyncInv PROVE OneRequestPerDialog
  <2> DEFINE flow == requests \o wire
             asked == {i \in DOMAIN flow : flow[i].type = "history"}
             named == {flow[i].peer : i \in asked}
             f == [i \in asked |-> flow[i].peer]
             Both == Request \cup Message
  <2>1. Types /\ Order /\ Counted
    BY <1>1 DEF SyncInv, Base
  <2>2. requests \in Seq(Both) /\ wire \in Seq(Both)
    BY <2>1 DEF Types
  <2>3. /\ flow \in Seq(Both) /\ Elems(flow) = Elems(requests) \cup Elems(wire)
        /\ AllApart(flow)
    <3>1. AllApart(requests) /\ AllApart(wire) /\ \A r \in Elems(requests), m \in Elems(wire) : Apart(r, m)
      BY <2>1 DEF Order
    <3> HIDE DEF Both
    <3> QED BY <2>2, <3>1, QueueJoin
  <2> HIDE DEF flow
  <2>4. ASSUME NEW i \in asked PROVE flow[i].peer \in AskedPeers
    <3>1. flow[i] \in Elems(requests) \cup Elems(wire) /\ flow[i].type = "history"
      BY <2>3 DEF Elems
    <3>2. flow[i].peer \in Peers
      BY <2>1, <3>1, TypeFacts, Fields
    <3> QED BY <3>1, <3>2 DEF AskedPeers, Asked, AsksFor
  <2>5. ASSUME NEW p \in AskedPeers PROVE \E i \in asked : flow[i].peer = p
    <3>1. PICK m \in Elems(flow) : m.type = "history" /\ m.peer = p
      BY <2>3 DEF AskedPeers, Asked, AsksFor
    <3>2. PICK i \in DOMAIN flow : m = flow[i]
      BY Zenon DEF Elems
    <3> QED BY <3>1, <3>2
  <2>6. ASSUME NEW i \in asked, NEW j \in asked, flow[i].peer = flow[j].peer PROVE i = j
    <3>1. i \in DOMAIN flow /\ j \in DOMAIN flow /\ i \in Int /\ j \in Int
      BY <2>3
    <3>2. i < j \/ j < i \/ i = j
      BY <3>1
    <3> QED BY <2>3, <2>6, <3>1, <3>2 DEF AllApart, Apart
  <2>7. named = AskedPeers
    BY <2>4, <2>5
  <2>8. f \in [asked -> AskedPeers] /\ \A i \in asked : f[i] = flow[i].peer
    BY <2>4
  <2> HIDE DEF asked, f
  <2>9. f \in Injection(asked, AskedPeers) /\ f \in Surjection(asked, AskedPeers)
    <3>1. IsInjective(f)
      BY <2>6, <2>8 DEF IsInjective
    <3>2. \A p \in AskedPeers : \E i \in asked : f[i] = p
      BY <2>5, <2>8
    <3> QED BY <2>8, <3>1, <3>2, Zenon DEF Injection, Surjection
  <2>10. IsFiniteSet(AskedPeers)
    <3>1. IsFiniteSet(Peers) /\ AskedPeers \subseteq Peers
      BY SyncAssumption DEF AskedPeers
    <3> QED BY <3>1, FS_Subset
  <2>11. Cardinality(asked) = Cardinality(AskedPeers)
    BY <2>9, <2>10, FS_Injection
  <2>12. Cardinality(asked) = jobs /\ Cardinality(named) = jobs
    BY <2>1, <2>7, <2>11 DEF Counted
  <2> QED BY <2>12, Zenon DEF OneRequestPerDialog, flow, asked
<1> QED BY <1>1, SyncInvariant, PTL

\* The application gets the messages of a dialog in their order: a later signal never
\* brings an older message.
THEOREM SyncGivenInOrder == Spec => GivenInOrder
<1>1. SyncInv /\ [Next]_vars => [InOrder]_vars
  BY NextInOrder
<1>2. Spec => [][InOrder]_vars
  BY <1>1, SyncInvariant, PTL DEF Spec
<1> QED BY <1>2 DEF GivenInOrder, InOrder
=============================================================================
