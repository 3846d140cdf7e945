------------------------- MODULE InterpretationProofs -------------------------
(***************************************************************************)
(* Theorems about the catalog, the investigation and the briefing, for any *)
(* permissions, any budget, whatever the model requests and answers and    *)
(* whatever the tools find.  First the operators: sequences in order, the  *)
(* catalog, the validator, the rules' briefing.  Then the investigation:   *)
(* its budgets (IInv), its types and the catalog's claims (TInv), and why  *)
(* the rules leave nothing out (ThInv).  Last the interpretation, which    *)
(* implements the investigation and adds who writes, what and why (BInv).  *)
(***************************************************************************)
EXTENDS Interpretation, FiniteSetTheorems, WellFoundedInduction, SequenceTheorems, TLAPS

---------------------------------------------------------------------------
(* Sequences that list a finite set in order.                              *)

(* A nonempty set of naturals has a least element.                         *)
LEMMA LeastOf ==
  ASSUME NEW T \in SUBSET Nat, T # {}
  PROVE  \E x \in T : \A y \in T : x <= y
<1> DEFINE R == OpToRel(<, Nat)
<1>1. R = {p \in Nat \X Nat : p[1] < p[2]}
  BY Zenon DEF OpToRel
<1>2. IsWellFoundedOn(R, Nat)
  BY NatLessThanWellFounded
<1> HIDE DEF R
<1>3. PICK x \in T : \A y \in T : <<y, x>> \notin R
  BY <1>2, WFMin
<1>4. ASSUME NEW y \in T PROVE x <= y
  <2>1. x \in Nat /\ y \in Nat /\ <<y, x>> \notin R
    BY <1>3
  <2> QED
    BY <1>1, <2>1
<1> QED
  BY <1>4

StrictTotal(R, S) ==
  /\ \A x \in S : <<x, x>> \notin R
  /\ \A x, y, z \in S : <<x, y>> \in R /\ <<y, z>> \in R => <<x, z>> \in R
  /\ \A x, y \in S : x = y \/ <<x, y>> \in R \/ <<y, x>> \in R

(* In a strict total order the elements before x are fewer, the earlier x  *)
(* is: every place from the first to the last is taken once.               *)
LEMMA InOrderFacts ==
  ASSUME NEW S, IsFiniteSet(S), NEW R, StrictTotal(R, S)
  PROVE  /\ Cardinality(S) \in Nat
         /\ InOrder(S, R) \in Seq(S)
         /\ Len(InOrder(S, R)) = Cardinality(S)
         /\ DOMAIN InOrder(S, R) = 1..Cardinality(S)
         /\ \A n \in 1..Cardinality(S) : InOrder(S, R)[n] \in S
         /\ \A x \in S : \E n \in 1..Cardinality(S) : InOrder(S, R)[n] = x
         /\ \A m, n \in 1..Cardinality(S) :
              m < n => <<InOrder(S, R)[m], InOrder(S, R)[n]>> \in R
<1> DEFINE below(x) == {y \in S : <<y, x>> \in R}
           size == Cardinality(S)
           place == [x \in S |-> Cardinality(below(x)) + 1]
           s == InOrder(S, R)
<1>1. size \in Nat
  BY FS_CardinalityType
<1>2. ASSUME NEW x \in S
      PROVE  IsFiniteSet(below(x)) /\ Cardinality(below(x)) \in Nat /\ Cardinality(below(x)) < size
  <2>1. below(x) \in SUBSET S /\ x \notin below(x)
    BY DEF StrictTotal
  <2> HIDE DEF below
  <2>2. IsFiniteSet(below(x)) /\ Cardinality(below(x)) <= size /\ Cardinality(below(x)) # size
    BY <2>1, FS_Subset
  <2> QED
    BY <1>1, <2>2, FS_CardinalityType
<1> HIDE DEF below
<1>3. place \in [S -> 1..size] /\ \A x \in S : place[x] = Cardinality(below(x)) + 1
  <2>1. \A x \in S : Cardinality(below(x)) + 1 \in 1..size
    BY <1>1, <1>2
  <2> QED
    BY <2>1
<1> HIDE DEF place
<1>4. ASSUME NEW x \in S, NEW y \in S, <<x, y>> \in R
      PROVE  place[x] < place[y]
  <2>1. below(x) \in SUBSET below(y) /\ x \in below(y) /\ x \notin below(x)
    BY <1>4 DEF StrictTotal, below
  <2>2. Cardinality(below(x)) <= Cardinality(below(y)) /\ Cardinality(below(x)) # Cardinality(below(y))
    BY <1>2, <2>1, FS_Subset
  <2> QED
    BY <1>2, <1>3, <2>2
<1>11. ASSUME NEW x \in S, NEW y \in S, place[x] = place[y]
       PROVE  x = y
  <2>1. place[x] \in Nat /\ ~(place[x] < place[y]) /\ ~(place[y] < place[x])
    BY <1>3, <1>11
  <2> QED
    BY <1>4, <2>1 DEF StrictTotal
<1>5. ASSUME NEW n \in 1..size PROVE \E x \in S : place[x] = n
  <2>1. place \in Injection(S, 1..size)
    BY <1>3, <1>11 DEF Injection, IsInjective
  <2>2. IsFiniteSet(1..size) /\ Cardinality(1..size) = size
    BY <1>1, FS_Interval
  <2>3. place \in Surjection(S, 1..size)
    BY <2>1, <2>2, FS_Injection
  <2> QED
    BY <2>3 DEF Surjection
<1>6. s = [n \in 1..size |-> CHOOSE x \in S : place[x] = n]
  BY DEF InOrder, place, below
<1>7. ASSUME NEW n \in 1..size PROVE s[n] \in S /\ place[s[n]] = n
  BY <1>5, <1>6
<1>8. s \in Seq(S) /\ Len(s) = size /\ DOMAIN s = 1..size
  BY <1>1, <1>6, <1>7
<1>9. ASSUME NEW x \in S PROVE \E n \in 1..size : s[n] = x
  <2>1. place[x] \in 1..size
    BY <1>3
  <2>2. s[place[x]] \in S /\ place[s[place[x]]] = place[x]
    BY <1>7, <2>1
  <2>3. s[place[x]] = x
    BY <1>11, <2>2
  <2> QED
    BY <2>1, <2>3
<1>10. ASSUME NEW m \in 1..size, NEW n \in 1..size, m < n PROVE <<s[m], s[n]>> \in R
  <2>1. s[m] \in S /\ s[n] \in S /\ ~(place[s[n]] < place[s[m]]) /\ s[m] # s[n]
    BY <1>1, <1>7, <1>10
  <2> QED
    BY <1>4, <2>1 DEF StrictTotal
<1> QED
  BY <1>1, <1>7, <1>8, <1>9, <1>10

(* The positions in I, the smaller the earlier.                            *)
LEMMA AscendingFacts ==
  ASSUME NEW I \in SUBSET Nat, IsFiniteSet(I)
  PROVE  /\ Ascending(I) \in Seq(I)
         /\ Len(Ascending(I)) = Cardinality(I) /\ Cardinality(I) \in Nat
         /\ DOMAIN Ascending(I) = 1..Cardinality(I)
         /\ \A n \in 1..Cardinality(I) : Ascending(I)[n] \in I
         /\ \A x \in I : \E n \in 1..Cardinality(I) : Ascending(I)[n] = x
         /\ \A m, n \in 1..Cardinality(I) : m < n => Ascending(I)[m] < Ascending(I)[n]
<1> DEFINE R == {p \in I \X I : p[1] < p[2]}
<1>1. /\ StrictTotal(R, I)
      /\ \A x, y : <<x, y>> \in R => x < y
  BY DEF StrictTotal
<1>2. Ascending(I) = InOrder(I, R)
  BY DEF Ascending
<1> HIDE DEF R
<1>3. /\ Cardinality(I) \in Nat
      /\ InOrder(I, R) \in Seq(I)
      /\ Len(InOrder(I, R)) = Cardinality(I)
      /\ DOMAIN InOrder(I, R) = 1..Cardinality(I)
      /\ \A n \in 1..Cardinality(I) : InOrder(I, R)[n] \in I
      /\ \A x \in I : \E n \in 1..Cardinality(I) : InOrder(I, R)[n] = x
      /\ \A m, n \in 1..Cardinality(I) :
           m < n => <<InOrder(I, R)[m], InOrder(I, R)[n]>> \in R
  BY <1>1, InOrderFacts
<1> QED
  BY <1>1, <1>2, <1>3

(* What is selected from a sequence: what is at those positions.           *)
LEMMA AtFacts ==
  ASSUME NEW S, NEW s \in Seq(S), NEW I \in SUBSET DOMAIN s
  PROVE  /\ At(s, I) \in Seq(S)
         /\ IsFiniteSet(I) /\ Cardinality(I) \in Nat
         /\ Len(At(s, I)) = Cardinality(I)
         /\ DOMAIN At(s, I) = 1..Cardinality(I)
         /\ ToSet(At(s, I)) = {s[i] : i \in I}
         /\ \A n \in 1..Cardinality(I) : \E i \in I : At(s, I)[n] = s[i]
         /\ At(s, I) = <<>> <=> I = {}
<1>1. DOMAIN s = 1..Len(s) /\ Len(s) \in Nat
  OBVIOUS
<1>2. IsFiniteSet(I) /\ I \in SUBSET Nat
  <2>1. IsFiniteSet(1..Len(s)) /\ I \in SUBSET (1..Len(s))
    BY <1>1, FS_Interval
  <2> QED
    BY <1>1, <2>1, FS_Subset
<1> DEFINE a == Ascending(I)
           k == Cardinality(I)
<1>3. /\ k \in Nat /\ DOMAIN a = 1..k
      /\ \A n \in 1..k : a[n] \in I
      /\ \A x \in I : \E n \in 1..k : a[n] = x
  BY <1>2, AscendingFacts
<1>4. At(s, I) = [n \in 1..k |-> s[a[n]]]
  BY <1>3 DEF At
<1> HIDE DEF a, k
<1>5. \A n \in 1..k : s[a[n]] \in S
  BY <1>1, <1>3
<1>6. At(s, I) \in Seq(S) /\ Len(At(s, I)) = k /\ DOMAIN At(s, I) = 1..k
  BY <1>3, <1>4, <1>5
<1>7. \A n \in 1..k : At(s, I)[n] = s[a[n]]
  BY <1>4
<1>8. ToSet(At(s, I)) = {s[i] : i \in I}
  <2>1. ASSUME NEW i \in I PROVE s[i] \in ToSet(At(s, I))
    <3>1. PICK n \in 1..k : a[n] = i
      BY <1>3
    <3>2. At(s, I)[n] = s[i]
      BY <1>7, <3>1
    <3> QED
      BY <1>6, <3>2 DEF ToSet
  <2>2. ASSUME NEW x \in ToSet(At(s, I)) PROVE x \in {s[i] : i \in I}
    BY <1>3, <1>6, <1>7 DEF ToSet
  <2> QED
    BY <2>1, <2>2
<1>9. At(s, I) = <<>> <=> k = 0
  BY <1>3, <1>6
<1>10. k = 0 <=> I = {}
  BY <1>2, FS_EmptySet DEF k
<1> QED
  BY <1>2, <1>3, <1>6, <1>7, <1>8, <1>9, <1>10 DEF k

(* A prefix has the elements of the sequence, and is empty only with it.   *)
LEMMA TakeFacts ==
  ASSUME NEW S, NEW s \in Seq(S), NEW n \in Nat
  PROVE  /\ Take(n, s) \in Seq(S)
         /\ Len(Take(n, s)) = IF n < Len(s) THEN n ELSE Len(s)
         /\ Len(Take(n, s)) \in Nat /\ Len(Take(n, s)) <= n
         /\ \A i \in 1..Len(Take(n, s)) : Take(n, s)[i] = s[i]
         /\ ToSet(Take(n, s)) \subseteq ToSet(s)
         /\ n > 0 /\ s # <<>> => Take(n, s) # <<>>
<1> DEFINE k == IF n < Len(s) THEN n ELSE Len(s)
<1>1. Len(s) \in Nat /\ k \in 0..Len(s) /\ \A i \in 1..k : s[i] \in S
  OBVIOUS
<1>2. Take(n, s) = SubSeq(s, 1, k)
  BY DEF Take
<1>3. /\ Take(n, s) \in Seq(S) /\ Len(Take(n, s)) = k
      /\ \A i \in 1..k : Take(n, s)[i] = s[i]
  <2> HIDE DEF k
  <2>1. k \in Int /\ (1 <= k \/ k = 0)
    BY <1>1
  <2>2. /\ SubSeq(s, 1, k) \in Seq(S)
        /\ Len(SubSeq(s, 1, k)) = IF 1 <= k THEN k - 1 + 1 ELSE 0
        /\ \A i \in 1..(k - 1 + 1) : SubSeq(s, 1, k)[i] = s[1 + i - 1]
    BY <1>1, <2>1, SubSeqProperties
  <2> QED
    BY <1>1, <1>2, <2>1, <2>2
<1>4. ToSet(Take(n, s)) \subseteq ToSet(s)
  <2>1. \A i \in 1..k : i \in DOMAIN s
    BY <1>1
  <2> HIDE DEF k
  <2> QED
    BY <1>3, <2>1 DEF ToSet
<1>5. n > 0 /\ s # <<>> => Take(n, s) # <<>>
  BY <1>3
<1>6. k \in Nat /\ k <= n
  BY <1>1
<1> HIDE DEF k
<1>7. Len(Take(n, s)) \in Nat /\ Len(Take(n, s)) <= n
  BY <1>3, <1>6
<1>8. Len(Take(n, s)) = IF n < Len(s) THEN n ELSE Len(s)
  BY <1>3 DEF k
<1> QED
  BY <1>3, <1>4, <1>5, <1>7, <1>8

---------------------------------------------------------------------------
(* The catalog.                                                            *)

(* The later of two events of a key is the one that counts.                *)
LEMMA LastEventFacts ==
  ASSUME NEW perms \in Seq(Permission), NEW i \in DOMAIN perms
  PROVE  /\ LastEvent(perms, i) \in Permission
         /\ LastEvent(perms, i).key = perms[i].key
<1> DEFINE J == {j \in DOMAIN perms : perms[j].key = perms[i].key}
           T == {Len(perms) - j : j \in J}
<1>1. DOMAIN perms = 1..Len(perms) /\ Len(perms) \in Nat
  OBVIOUS
<1>2. T \in SUBSET Nat /\ T # {}
  <2>1. Len(perms) - i \in T
    OBVIOUS
  <2> QED
    BY <1>1, <2>1
<1>3. PICK x \in T : \A y \in T : x <= y
  BY <1>2, LeastOf
<1>4. PICK j \in J : x = Len(perms) - j
  OBVIOUS
<1>5. ASSUME NEW l \in (j + 1)..Len(perms) PROVE perms[l].key # perms[i].key
  <2>1. SUFFICES ASSUME perms[l].key = perms[i].key PROVE FALSE
    OBVIOUS
  <2>2. l \in J
    BY <1>1, <1>4, <2>1
  <2>3. Len(perms) - j <= Len(perms) - l
    BY <1>3, <1>4, <2>2
  <2> QED
    BY <1>1, <1>4, <2>3
<1>6. \E p \in ToSet(perms) :
        \E k \in DOMAIN perms :
          /\ p = perms[k]
          /\ p.key = perms[i].key
          /\ \A l \in (k + 1)..Len(perms) : perms[l].key # p.key
  <2>1. perms[j] \in ToSet(perms) /\ j \in DOMAIN perms /\ perms[j].key = perms[i].key
    BY <1>4 DEF ToSet
  <2> QED
    BY <1>5, <2>1
<1>7. LastEvent(perms, i) \in ToSet(perms) /\ LastEvent(perms, i).key = perms[i].key
  BY <1>6 DEF LastEvent
<1> QED
  BY <1>1, <1>7 DEF ToSet

(* The last events of distinct keys are permissions.                       *)
LEMMA LatestType ==
  ASSUME NEW perms \in Seq(Permission)
  PROVE  Latest(perms) \in Seq(Permission)
<1> DEFINE I == {i \in DOMAIN perms : \A j \in 1..(i - 1) : perms[j].key # perms[i].key}
           k == Cardinality(I)
           a == Ascending(I)
<1>1. DOMAIN perms = 1..Len(perms) /\ Len(perms) \in Nat
  OBVIOUS
<1>2. I \in SUBSET Nat /\ IsFiniteSet(I) /\ I \in SUBSET DOMAIN perms
  <2>1. IsFiniteSet(1..Len(perms)) /\ I \in SUBSET (1..Len(perms))
    BY <1>1, FS_Interval
  <2> QED
    BY <1>1, <2>1, FS_Subset
<1>3. FirstSeen(perms) = a
  BY DEF FirstSeen
<1> HIDE DEF I
<1>4. k \in Nat /\ DOMAIN a = 1..k /\ \A n \in 1..k : a[n] \in DOMAIN perms
  BY <1>2, AscendingFacts
<1> HIDE DEF a, k
<1>5. Latest(perms) = [n \in 1..k |-> LastEvent(perms, a[n])]
  BY <1>3, <1>4 DEF Latest
<1>6. \A n \in 1..k : LastEvent(perms, a[n]) \in Permission
  BY <1>4, LastEventFacts
<1> QED
  BY <1>4, <1>5, <1>6

(* Roles and states have numbers.                                          *)
LEMMA RankTypes ==
  /\ \A r \in Roles : RoleRank[r] \in Nat /\ (RoleRank[r] = 0 <=> r = "sender")
  /\ \A s \in Liveness : StateRank[s] \in Nat /\ (StateRank[s] = 0 <=> s = "live")
BY DEF RoleRank, StateRank, Roles, Liveness

(* The sort is by a strict total order: by rank, then as first seen.       *)
LEMMA BeforeIsTotal ==
  ASSUME NEW s \in Seq(Permission)
  PROVE  StrictTotal(Before(s), DOMAIN s)
<1> DEFINE role(i) == RoleRank[s[i].role]
           state(i) == StateRank[s[i].state]
           wide(i) == s[i].unlimited
<1>1. DOMAIN s = 1..Len(s) /\ Len(s) \in Nat
  OBVIOUS
<1>2. \A i \in DOMAIN s : role(i) \in Nat /\ state(i) \in Nat /\ wide(i) \in BOOLEAN
  <2>1. ASSUME NEW i \in DOMAIN s
        PROVE  s[i].role \in Roles /\ s[i].state \in Liveness /\ s[i].unlimited \in BOOLEAN
    <3>1. s[i] \in Permission
      OBVIOUS
    <3>2. s[i].role \in Roles /\ s[i].state \in Liveness
      BY <3>1 DEF Permission
    <3>3. s[i].unlimited \in BOOLEAN
      BY <3>1, Zenon DEF Permission
    <3> QED
      BY <3>2, <3>3
  <2> QED
    BY <2>1, RankTypes
<1>3. \A i, j \in DOMAIN s :
        <<i, j>> \in Before(s) <=>
          \/ role(i) < role(j)
          \/ role(i) = role(j) /\ state(i) < state(j)
          \/ role(i) = role(j) /\ state(i) = state(j) /\ wide(i) /\ ~wide(j)
          \/ role(i) = role(j) /\ state(i) = state(j) /\ (wide(i) <=> wide(j)) /\ i < j
  BY <1>1, <1>2 DEF Before, Ahead
<1> HIDE DEF role, state, wide
<1>4. \A i \in DOMAIN s : <<i, i>> \notin Before(s)
  BY <1>1, <1>2, <1>3
<1>5. ASSUME NEW i \in DOMAIN s, NEW j \in DOMAIN s
      PROVE  i = j \/ <<i, j>> \in Before(s) \/ <<j, i>> \in Before(s)
  <2>1. /\ i \in Nat /\ j \in Nat
        /\ role(i) \in Nat /\ role(j) \in Nat /\ state(i) \in Nat /\ state(j) \in Nat
    BY <1>1, <1>2
  <2>2. CASE wide(i) <=> wide(j)
    BY <1>3, <2>1, <2>2
  <2>3. CASE ~(wide(i) <=> wide(j))
    BY <1>3, <2>1, <2>3
  <2> QED
    BY <2>2, <2>3
<1>6. \A i, j, k \in DOMAIN s :
        <<i, j>> \in Before(s) /\ <<j, k>> \in Before(s) => <<i, k>> \in Before(s)
  BY <1>1, <1>2, <1>3
<1> QED
  BY <1>4, <1>5, <1>6 DEF StrictTotal

(* What is sorted is in order: nothing ranks ahead of what precedes it.    *)
LEMMA DistinctFacts ==
  ASSUME NEW perms \in Seq(Permission)
  PROVE  /\ Distinct(perms) \in Seq(Permission)
         /\ \A m, n \in 1..Len(Distinct(perms)) :
              m < n => ~Ahead(Distinct(perms)[n], Distinct(perms)[m])
<1> DEFINE latest == Latest(perms)
           S == DOMAIN latest
           order == InOrder(S, Before(latest))
           k == Cardinality(S)
           d == Distinct(perms)
<1>1. latest \in Seq(Permission)
  BY LatestType
<1>2. IsFiniteSet(S) /\ S = 1..Len(latest)
  BY <1>1, FS_Interval
<1>3. StrictTotal(Before(latest), S)
  BY <1>1, BeforeIsTotal
<1> HIDE DEF latest
<1>4. /\ k \in Nat /\ DOMAIN order = 1..k
      /\ \A n \in 1..k : order[n] \in S
      /\ \A m, n \in 1..k : m < n => <<order[m], order[n]>> \in Before(latest)
  <2> HIDE DEF S
  <2> QED
    BY <1>2, <1>3, InOrderFacts
<1>5. d = [n \in DOMAIN order |-> latest[order[n]]]
  BY DEF Distinct, latest
<1> HIDE DEF order, k, d
<1>6. \A n \in 1..k : latest[order[n]] \in Permission
  BY <1>1, <1>2, <1>4
<1>7. d \in Seq(Permission) /\ Len(d) = k /\ \A n \in 1..k : d[n] = latest[order[n]]
  BY <1>4, <1>5, <1>6
<1>8. ASSUME NEW m \in 1..k, NEW n \in 1..k, m < n PROVE ~Ahead(d[n], d[m])
  <2>1. <<order[m], order[n]>> \in Before(latest)
    BY <1>4, <1>8
  <2>2. \/ Ahead(d[m], d[n])
        \/ ~Ahead(d[n], d[m])
    BY <1>7, <2>1 DEF Before
  <2>3. d[m] \in Permission /\ d[n] \in Permission
    BY <1>6, <1>7
  <2>4. /\ RoleRank[d[m].role] \in Nat /\ RoleRank[d[n].role] \in Nat
        /\ StateRank[d[m].state] \in Nat /\ StateRank[d[n].state] \in Nat
    BY <2>3, RankTypes DEF Permission
  <2> QED
    BY <2>2, <2>4 DEF Ahead
<1> QED
  BY <1>7, <1>8 DEF d

(* The catalog keeps a prefix of them.                                     *)
LEMMA TargetsFacts ==
  ASSUME NEW perms \in Seq(Permission)
  PROVE  /\ Targets(perms) \in Seq(Permission)
         /\ Len(Targets(perms)) <= MaxTargets
         /\ \A i \in 1..Len(Targets(perms)) :
              i \in 1..Len(Distinct(perms)) /\ Targets(perms)[i] = Distinct(perms)[i]
         /\ \A i \in 1..Len(Distinct(perms)) :
              i \in 1..Len(Targets(perms)) \/ i > Len(Targets(perms))
<1> DEFINE d == Distinct(perms)
<1>1. d \in Seq(Permission)
  BY DistinctFacts
<1>2. Targets(perms) = Take(MaxTargets, d)
  BY DEF Targets
<1> HIDE DEF d
<1>3. /\ Take(MaxTargets, d) \in Seq(Permission)
      /\ Len(Take(MaxTargets, d)) = IF MaxTargets < Len(d) THEN MaxTargets ELSE Len(d)
      /\ \A i \in 1..Len(Take(MaxTargets, d)) : Take(MaxTargets, d)[i] = d[i]
  BY <1>1, TakeFacts, CatalogAssumption
<1>4. Len(d) \in Nat
  BY <1>1
<1> QED
  BY <1>2, <1>3, <1>4, CatalogAssumption DEF d

(* Of the permissions cut off, a live one the sender granted is never      *)
(* worse than one that stays.                                              *)
LEMMA SendersLiveFirst ==
  ASSUME NEW perms \in Seq(Permission),
         NEW p \in ToSet(Distinct(perms)) \ ToSet(Targets(perms)),
         p.role = "sender", p.state = "live",
         NEW q \in ToSet(Targets(perms))
  PROVE  q.role = "sender" /\ q.state = "live"
<1> DEFINE d == Distinct(perms)
           t == Targets(perms)
<1>1. /\ d \in Seq(Permission) /\ t \in Seq(Permission)
      /\ \A m, n \in 1..Len(d) : m < n => ~Ahead(d[n], d[m])
  BY DistinctFacts, TargetsFacts
<1>2. PICK n \in 1..Len(d) : p = d[n]
  BY <1>1 DEF ToSet
<1>3. PICK m \in 1..Len(t) : q = t[m]
  BY <1>1 DEF ToSet
<1>4. m \in 1..Len(d) /\ q = d[m]
  BY <1>3, TargetsFacts
<1>5. m < n
  <2>1. n \in 1..Len(t) \/ n > Len(t)
    BY TargetsFacts
  <2>2. CASE n \in 1..Len(t)
    <3>1. p = t[n] /\ n \in DOMAIN t
      BY <1>1, <1>2, <2>2, TargetsFacts
    <3> QED
      BY <3>1 DEF ToSet
  <2>3. CASE n > Len(t)
    BY <1>1, <2>3
  <2> QED
    BY <2>1, <2>2, <2>3
<1>6. ~Ahead(p, q)
  BY <1>1, <1>2, <1>4, <1>5
<1>7. p \in Permission /\ q \in Permission
  BY <1>1, <1>2, <1>3
<1>8. /\ RoleRank[p.role] = 0 /\ StateRank[p.state] = 0
      /\ RoleRank[q.role] \in Nat /\ (RoleRank[q.role] = 0 <=> q.role = "sender")
      /\ StateRank[q.state] \in Nat /\ (StateRank[q.state] = 0 <=> q.state = "live")
  BY <1>7, RankTypes DEF Permission
<1> QED
  BY <1>6, <1>8 DEF Ahead

(* The ids the model may act on.                                           *)
LEMMA ActionableFacts ==
  ASSUME NEW t \in Seq(Permission)
  PROVE  /\ Revocable(t) \in SUBSET DOMAIN t /\ IsFiniteSet(Revocable(t))
         /\ Actionable(t) \in Seq(Revocable(t))
         /\ ToSet(Actionable(t)) = Revocable(t)
         /\ Actionable(t) = <<>> <=> Revocable(t) = {}
<1> DEFINE I == Revocable(t)
           a == Actionable(t)
<1>1. I \in SUBSET DOMAIN t /\ DOMAIN t = 1..Len(t) /\ Len(t) \in Nat
  BY DEF Revocable
<1> HIDE DEF I
<1>2. IsFiniteSet(I) /\ I \in SUBSET Nat
  <2>1. IsFiniteSet(1..Len(t)) /\ I \in SUBSET (1..Len(t))
    BY <1>1, FS_Interval
  <2> QED
    BY <1>1, <2>1, FS_Subset
<1>3. /\ a \in Seq(I) /\ Len(a) = Cardinality(I) /\ Cardinality(I) \in Nat
      /\ DOMAIN a = 1..Cardinality(I)
      /\ \A n \in 1..Cardinality(I) : a[n] \in I
      /\ \A x \in I : \E n \in 1..Cardinality(I) : a[n] = x
  BY <1>2, AscendingFacts DEF Actionable, I
<1>4. ToSet(a) = I
  BY <1>3 DEF ToSet
<1>5. a = <<>> <=> I = {}
  <2>1. a = <<>> <=> Len(a) = 0
    BY <1>3
  <2> QED
    BY <1>2, <1>3, <2>1, FS_EmptySet
<1> QED
  BY <1>1, <1>2, <1>3, <1>4, <1>5 DEF I

---------------------------------------------------------------------------
(* The briefing and its validator.                                         *)

(* A claim id is the permission it is about and a kind.                    *)
LEMMA ClaimType ==
  ASSUME NEW pid \in Nat, NEW kind \in ClaimKind
  PROVE  /\ Claim(pid, kind) \in ClaimId
         /\ Claim(pid, kind).of = pid /\ Claim(pid, kind).kind = kind
BY DEF Claim, ClaimId

(* Repetitions are dropped, nothing else.                                  *)
LEMMA UniqueFacts ==
  ASSUME NEW S, NEW s \in Seq(S)
  PROVE  /\ Unique(s) \in Seq(S)
         /\ ToSet(Unique(s)) \subseteq ToSet(s)
         /\ s # <<>> => Unique(s) # <<>>
<1> DEFINE I == {i \in DOMAIN s : \A j \in 1..(i - 1) : s[j] # s[i]}
<1>1. Unique(s) = At(s, I) /\ I \in SUBSET DOMAIN s
  BY DEF Unique
<1>2. s # <<>> => I # {}
  <2>1. s # <<>> => 1 \in I
    OBVIOUS
  <2> QED
    BY <2>1
<1> HIDE DEF I
<1>3. At(s, I) \in Seq(S) /\ ToSet(At(s, I)) = {s[i] : i \in I} /\ (At(s, I) = <<>> <=> I = {})
  BY <1>1, AtFacts
<1> QED
  BY <1>1, <1>2, <1>3 DEF ToSet

(* Reasons are cut to three, and are gone only if none were given.         *)
LEMMA BecauseFacts ==
  ASSUME NEW S, NEW pick, pick.because \in Seq(S)
  PROVE  /\ Because(pick) \in Seq(S)
         /\ ToSet(Because(pick)) \subseteq ToSet(pick.because)
         /\ Len(Because(pick)) <= 3
         /\ pick.because # <<>> => Because(pick) # <<>>
<1> DEFINE u == Unique(pick.because)
<1>1. u \in Seq(S) /\ ToSet(u) \subseteq ToSet(pick.because) /\ (pick.because # <<>> => u # <<>>)
  BY UniqueFacts
<1>2. Because(pick) = Take(3, u)
  BY DEF Because
<1> HIDE DEF u
<1>3. /\ Take(3, u) \in Seq(S) /\ ToSet(Take(3, u)) \subseteq ToSet(u)
      /\ Len(Take(3, u)) <= 3
      /\ 3 > 0 /\ u # <<>> => Take(3, u) # <<>>
  <2>1. 3 \in Nat
    OBVIOUS
  <2> QED
    BY <1>1, <2>1, TakeFacts
<1>5. u # <<>> => Take(3, u) # <<>>
  <2>1. 3 > 0
    OBVIOUS
  <2> QED
    BY <1>3, <2>1
<1> QED
  BY <1>1, <1>2, <1>3, <1>5

Pick == [pid : Nat, action : ActionKind, because : Seq(ClaimId)]

(* Every action that is kept is one of the picks, with the reasons of it.  *)
LEMMA ActionsFacts ==
  ASSUME NEW picks \in Seq(Pick)
  PROVE  /\ Actions(picks) \in Seq(Pick)
         /\ \A n \in DOMAIN Actions(picks) : \E i \in DOMAIN picks :
              /\ Actions(picks)[n].pid = picks[i].pid
              /\ Actions(picks)[n].because = Because(picks[i])
<1> DEFINE I == {i \in DOMAIN picks : \A j \in 1..(i - 1) :
                   <<picks[j].pid, picks[j].action>> # <<picks[i].pid, picks[i].action>>}
           firsts == At(picks, I)
           k == Cardinality(I)
           act(n) == [pid |-> firsts[n].pid, action |-> firsts[n].action,
                      because |-> Because(firsts[n])]
<1>1. I \in SUBSET DOMAIN picks
  OBVIOUS
<1>2. Actions(picks) = [n \in DOMAIN firsts |-> act(n)]
  BY DEF Actions
<1> HIDE DEF I
<1>3. /\ k \in Nat /\ DOMAIN firsts = 1..k
      /\ \A n \in 1..k : \E i \in I : firsts[n] = picks[i]
  BY <1>1, AtFacts
<1> HIDE DEF firsts, k
<1>4. ASSUME NEW n \in 1..k
      PROVE  /\ act(n) \in Pick
             /\ \E i \in DOMAIN picks : act(n).pid = picks[i].pid /\ act(n).because = Because(picks[i])
  <2>1. PICK i \in DOMAIN picks : firsts[n] = picks[i]
    BY <1>1, <1>3
  <2>2. picks[i] \in Pick
    OBVIOUS
  <2>3. Because(picks[i]) \in Seq(ClaimId)
    BY <2>2, BecauseFacts DEF Pick
  <2>4. act(n) = [pid |-> picks[i].pid, action |-> picks[i].action, because |-> Because(picks[i])]
    BY <2>1
  <2> HIDE DEF act
  <2> QED
    BY <2>2, <2>3, <2>4 DEF Pick
<1>5. Actions(picks) \in Seq(Pick) /\ DOMAIN Actions(picks) = 1..k
      /\ \A n \in 1..k : Actions(picks)[n] = act(n)
  <2> HIDE DEF act
  <2>1. Actions(picks) = [n \in 1..k |-> act(n)]
    BY <1>2, <1>3
  <2> QED
    BY <1>3, <1>4, <2>1
<1> HIDE DEF act
<1> QED
  BY <1>4, <1>5

(* What the validator lets through cites the catalog, says something and   *)
(* gives each action a permission of the sender's and a reason about it.   *)
WellFounded(sel, t, allowed) ==
  /\ ToSet(sel.summary) \subseteq allowed
  /\ ToSet(sel.findings) \subseteq allowed
  /\ ToSet(sel.uncertainties) \subseteq allowed
  /\ sel.summary # <<>>
  /\ \A i \in DOMAIN sel.actions :
       /\ sel.actions[i].pid \in Revocable(t)
       /\ ToSet(sel.actions[i].because) \subseteq allowed
       /\ \E claim \in ToSet(sel.actions[i].because) : claim.of = sel.actions[i].pid

(* A draft the validator does not refuse becomes such a selection.         *)
LEMMA ValidatedIsWellFounded ==
  ASSUME NEW draft \in ReportDraft, NEW t \in Seq(Permission), NEW allowed,
         ~Rejected(draft, t, allowed)
  PROVE  /\ Selection(draft) \in AgentSelection
         /\ WellFounded(Selection(draft), t, allowed)
<1> DEFINE sel == Selection(draft)
           acts == Actions(draft.actions)
<1>1. /\ draft.summary \in Seq(ClaimId) /\ draft.findings \in Seq(ClaimId)
      /\ draft.uncertainties \in Seq(ClaimId) /\ draft.actions \in Seq(Pick)
  BY DEF ReportDraft, Pick
<1>2. ASSUME NEW s \in Seq(ClaimId), NEW n \in Nat
      PROVE  /\ Take(n, Unique(s)) \in Seq(ClaimId)
             /\ Len(Take(n, Unique(s))) <= n
             /\ ToSet(Take(n, Unique(s))) \subseteq ToSet(s)
             /\ n > 0 /\ s # <<>> => Take(n, Unique(s)) # <<>>
  <2> DEFINE u == Unique(s)
  <2>1. u \in Seq(ClaimId) /\ ToSet(u) \subseteq ToSet(s) /\ (s # <<>> => u # <<>>)
    BY UniqueFacts
  <2> HIDE DEF u
  <2>2. /\ Take(n, u) \in Seq(ClaimId) /\ ToSet(Take(n, u)) \subseteq ToSet(u)
        /\ Len(Take(n, u)) <= n
        /\ n > 0 /\ u # <<>> => Take(n, u) # <<>>
    BY <2>1, TakeFacts
  <2> QED
    BY <2>1, <2>2 DEF u
<1>3. /\ acts \in Seq(Pick)
      /\ \A n \in DOMAIN acts : \E i \in DOMAIN draft.actions :
           acts[n].pid = draft.actions[i].pid /\ acts[n].because = Because(draft.actions[i])
  BY <1>1, ActionsFacts
<1>4. ASSUME NEW n \in DOMAIN acts
      PROVE  /\ acts[n] \in PermissionAction
             /\ acts[n].pid \in Revocable(t)
             /\ ToSet(acts[n].because) \subseteq allowed
             /\ \E claim \in ToSet(acts[n].because) : claim.of = acts[n].pid
  <2>1. PICK i \in DOMAIN draft.actions :
          acts[n].pid = draft.actions[i].pid /\ acts[n].because = Because(draft.actions[i])
    BY <1>3
  <2> DEFINE pick == draft.actions[i]
  <2>2. pick \in Pick /\ pick \in ToSet(draft.actions)
    BY <1>1 DEF ToSet
  <2>3. /\ pick.pid \in Revocable(t)
        /\ ToSet(pick.because) \subseteq allowed
        /\ \E claim \in ToSet(Because(pick)) : claim.of = pick.pid
    BY <2>2 DEF Rejected, BadPick, Belongs
  <2> HIDE DEF pick
  <2>4. /\ Because(pick) \in Seq(ClaimId)
        /\ ToSet(Because(pick)) \subseteq ToSet(pick.because) /\ Len(Because(pick)) <= 3
    BY <2>2, BecauseFacts DEF Pick
  <2>5. Len(Because(pick)) \in 1..4
    <3>1. Because(pick) # <<>>
      BY <2>3 DEF ToSet
    <3> DEFINE len == Len(Because(pick))
    <3>2. len \in Nat /\ len # 0
      BY <2>4, <3>1
    <3>3. len <= 3
      BY <2>4
    <3> HIDE DEF len
    <3>4. len \in 1..4
      BY <3>2, <3>3
    <3> QED
      BY <3>4 DEF len
  <2>6. acts[n] \in Pick
    BY <1>3
  <2>7. acts[n].pid = pick.pid /\ acts[n].because = Because(pick)
    BY <2>1 DEF pick
  <2>8. acts[n] \in PermissionAction
    BY <2>5, <2>6, <2>7 DEF PermissionAction, Pick
  <2> QED
    BY <2>3, <2>4, <2>7, <2>8
<1>5. acts \in Seq(PermissionAction)
  <2> HIDE DEF acts
  <2>1. Len(acts) \in Nat /\ acts = [n \in 1..Len(acts) |-> acts[n]] /\ DOMAIN acts = 1..Len(acts)
    BY <1>3
  <2> QED
    BY <1>4, <2>1
<1> HIDE DEF acts
<1>6. /\ Take(6, acts) \in Seq(PermissionAction)
      /\ Len(Take(6, acts)) <= 6
      /\ \A n \in DOMAIN Take(6, acts) : n \in DOMAIN acts /\ Take(6, acts)[n] = acts[n]
  <2>1. /\ Take(6, acts) \in Seq(PermissionAction)
        /\ Len(Take(6, acts)) = (IF 6 < Len(acts) THEN 6 ELSE Len(acts))
        /\ \A i \in 1..Len(Take(6, acts)) : Take(6, acts)[i] = acts[i]
    BY <1>5, TakeFacts
  <2>2. /\ Len(acts) \in Nat /\ DOMAIN acts = 1..Len(acts)
        /\ DOMAIN Take(6, acts) = 1..Len(Take(6, acts))
    BY <1>5, <2>1
  <2>3. Len(Take(6, acts)) <= 6 /\ Len(Take(6, acts)) <= Len(acts) /\ Len(Take(6, acts)) \in Nat
    BY <2>1, <2>2
  <2> QED
    BY <2>1, <2>2, <2>3
<1>7. sel = [summary |-> Take(2, Unique(draft.summary)), findings |-> Take(4, Unique(draft.findings)),
             uncertainties |-> Take(3, Unique(draft.uncertainties)), actions |-> Take(6, acts)]
  BY DEF Selection, acts
<1>8. /\ ToSet(draft.summary) \subseteq allowed /\ ToSet(draft.findings) \subseteq allowed
      /\ ToSet(draft.uncertainties) \subseteq allowed /\ draft.summary # <<>>
  BY DEF Rejected
<1> HIDE DEF sel
<1>9. sel \in AgentSelection
  <2>1. /\ sel.summary = Take(2, Unique(draft.summary))
        /\ sel.findings = Take(4, Unique(draft.findings))
        /\ sel.uncertainties = Take(3, Unique(draft.uncertainties))
        /\ sel.actions = Take(6, acts)
    BY <1>7
  <2>2. ASSUME NEW S, NEW r \in Seq(S), NEW k \in Nat, Len(r) <= k, NEW m \in Nat, k <= m
        PROVE  Len(r) <= m
    <3> DEFINE len == Len(r)
    <3>1. len \in Nat /\ len <= k
      BY <2>2
    <3> HIDE DEF len
    <3>2. len <= m
      BY <2>2, <3>1
    <3> QED
      BY <3>2 DEF len
  <2>3. sel.summary \in Seq(ClaimId) /\ Len(sel.summary) <= 5
    <3>1. 2 \in Nat /\ 5 \in Nat /\ 2 <= 5
      OBVIOUS
    <3>2. sel.summary \in Seq(ClaimId) /\ Len(sel.summary) <= 2
      BY <1>1, <1>2, <2>1, <3>1
    <3> QED
      BY <2>2, <3>1, <3>2
  <2>4. sel.findings \in Seq(ClaimId) /\ Len(sel.findings) <= 12
    <3>1. 4 \in Nat /\ 12 \in Nat /\ 4 <= 12
      OBVIOUS
    <3>2. sel.findings \in Seq(ClaimId) /\ Len(sel.findings) <= 4
      BY <1>1, <1>2, <2>1, <3>1
    <3> QED
      BY <2>2, <3>1, <3>2
  <2>5. sel.uncertainties \in Seq(ClaimId) /\ Len(sel.uncertainties) <= 12
    <3>1. 3 \in Nat /\ 12 \in Nat /\ 3 <= 12
      OBVIOUS
    <3>2. sel.uncertainties \in Seq(ClaimId) /\ Len(sel.uncertainties) <= 3
      BY <1>1, <1>2, <2>1, <3>1
    <3> QED
      BY <2>2, <3>1, <3>2
  <2>6. sel.actions \in Seq(PermissionAction) /\ Len(sel.actions) <= 8
    BY <1>6, <2>1, <2>2, 6 \in Nat, 8 \in Nat, 6 <= 8
  <2>7. sel = [summary |-> sel.summary, findings |-> sel.findings,
               uncertainties |-> sel.uncertainties, actions |-> sel.actions]
    BY <1>7
  <2> QED
    BY <2>3, <2>4, <2>5, <2>6, <2>7 DEF AgentSelection
<1>10. WellFounded(sel, t, allowed)
  <2>1. /\ ToSet(sel.summary) \subseteq allowed /\ ToSet(sel.findings) \subseteq allowed
        /\ ToSet(sel.uncertainties) \subseteq allowed
    BY <1>1, <1>2, <1>7, <1>8
  <2>2. sel.summary # <<>>
    <3>1. 2 > 0 /\ 2 \in Nat
      OBVIOUS
    <3> QED
      BY <1>1, <1>2, <1>7, <1>8, <3>1
  <2>3. sel.actions = Take(6, acts)
    BY <1>7
  <2> QED
    BY <1>4, <1>6, <2>1, <2>2, <2>3 DEF WellFounded
<1> QED
  BY <1>9, <1>10 DEF sel

---------------------------------------------------------------------------
(* The briefing the rules write.                                           *)

(* One or two elements in order are a sequence.                            *)
LEMMA TuplesAreSequences ==
  ASSUME NEW S
  PROVE  /\ <<>> \in Seq(S)
         /\ \A a \in S : <<a>> \in Seq(S)
         /\ \A a, b \in S : /\ <<a, b>> \in Seq(S)
                           /\ 1 \in DOMAIN <<a, b>> /\ 2 \in DOMAIN <<a, b>>
OBVIOUS

(* The kinds the rules look for are kinds of claims.                       *)
LEMMA ClaimKinds ==
  /\ "self" \in ClaimKind /\ "reach" \in ClaimKind /\ "control" \in ClaimKind /\ "spender" \in ClaimKind
  /\ "known" \in ClaimKind /\ "drift" \in ClaimKind /\ "status" \in ClaimKind /\ "approvals" \in ClaimKind
  /\ "risk" \in ClaimKind /\ "note" \in ClaimKind /\ "gap" \in ClaimKind
BY DEF ClaimKind

(* The claims a permission has are about it; some are cited if it has any. *)
LEMMA PresentFacts ==
  ASSUME NEW pid \in Nat, NEW kinds \in Seq(ClaimKind), NEW allowed
  PROVE  /\ Present(pid, kinds, allowed) \in Seq({c \in allowed \cap ClaimId : c.of = pid})
         /\ (\E i \in DOMAIN kinds : Claim(pid, kinds[i]) \in allowed)
              => Present(pid, kinds, allowed) # <<>>
<1> DEFINE I == {i \in DOMAIN kinds : Claim(pid, kinds[i]) \in allowed}
           have == At(kinds, I)
           k == Cardinality(I)
           T == {c \in allowed \cap ClaimId : c.of = pid}
<1>1. I \in SUBSET DOMAIN kinds
  OBVIOUS
<1>2. Present(pid, kinds, allowed) = [n \in DOMAIN have |-> Claim(pid, have[n])]
  BY DEF Present
<1>3. \A i \in I : kinds[i] \in ClaimKind /\ Claim(pid, kinds[i]) \in T
  <2>1. ASSUME NEW i \in I PROVE kinds[i] \in ClaimKind /\ Claim(pid, kinds[i]) \in allowed
    OBVIOUS
  <2> QED
    BY <2>1, ClaimType
<1>4. (\E i \in DOMAIN kinds : Claim(pid, kinds[i]) \in allowed) => I # {}
  OBVIOUS
<1> HIDE DEF I
<1>5. /\ k \in Nat /\ DOMAIN have = 1..k
      /\ \A n \in 1..k : \E i \in I : have[n] = kinds[i]
      /\ have = <<>> <=> I = {}
  BY <1>1, AtFacts
<1> HIDE DEF have, k, T
<1>6. \A n \in 1..k : Claim(pid, have[n]) \in T
  BY <1>3, <1>5
<1>7. Present(pid, kinds, allowed) = [n \in 1..k |-> Claim(pid, have[n])]
  BY <1>2, <1>5
<1>8. have # <<>> => k # 0
  BY <1>5
<1>9. Present(pid, kinds, allowed) \in Seq(T) /\ (k # 0 => Present(pid, kinds, allowed) # <<>>)
  BY <1>5, <1>6, <1>7
<1> QED
  BY <1>4, <1>5, <1>8, <1>9 DEF T

(* The reasons are claims about the permission, its own among them.        *)
LEMMA ReasonsFacts ==
  ASSUME NEW pid \in Nat, NEW allowed, Claim(pid, "self") \in allowed, NEW seen,
         NEW advice \in {"revoke_risky", "revoke_unlimited", "verify", "review"}
  PROVE  /\ Reasons(pid, advice, seen, allowed) \in Seq({c \in allowed \cap ClaimId : c.of = pid})
         /\ Reasons(pid, advice, seen, allowed) # <<>>
<1> DEFINE kinds == CASE advice = "revoke_risky" ->
                           VerifiedDrift(pid, seen, allowed) \o <<"control", "spender">>
                      [] advice = "revoke_unlimited" -> <<"reach", "known">>
                      [] advice = "verify" -> <<"known", "drift">>
                      [] advice = "review" -> <<"control", "spender">>
           T == {c \in allowed \cap ClaimId : c.of = pid}
           cited == Present(pid, kinds, allowed)
           all == <<Claim(pid, "self")>> \o cited
<1>1. kinds \in Seq(ClaimKind)
  <2>1. VerifiedDrift(pid, seen, allowed) \in Seq(ClaimKind)
    BY TuplesAreSequences, ClaimKinds DEF VerifiedDrift
  <2>2. /\ <<"control", "spender">> \in Seq(ClaimKind) /\ <<"reach", "known">> \in Seq(ClaimKind)
        /\ <<"known", "drift">> \in Seq(ClaimKind)
    BY TuplesAreSequences, ClaimKinds
  <2> DEFINE v == VerifiedDrift(pid, seen, allowed)
             c == <<"control", "spender">>
             both == v \o c
  <2> HIDE DEF v, c
  <2>3. both \in Seq(ClaimKind)
    BY <2>1, <2>2 DEF v, c
  <2> USE DEF v, c
  <2>4. CASE advice = "revoke_risky"
    BY <2>3, <2>4
  <2>5. CASE advice = "revoke_unlimited"
    BY <2>2, <2>5
  <2>6. CASE advice = "verify"
    BY <2>2, <2>6
  <2>7. CASE advice = "review"
    BY <2>2, <2>7
  <2> QED
    BY <2>4, <2>5, <2>6, <2>7
<1>2. Reasons(pid, advice, seen, allowed) = Take(3, all)
  BY DEF Reasons
<1> HIDE DEF kinds
<1>3. cited \in Seq(T)
  BY <1>1, PresentFacts
<1>4. Claim(pid, "self") \in T
  BY ClaimType, ClaimKinds
<1> HIDE DEF cited, T
<1>5. all \in Seq(T) /\ all # <<>>
  BY <1>3, <1>4
<1> HIDE DEF all
<1>6. Take(3, all) \in Seq(T) /\ (3 > 0 /\ all # <<>> => Take(3, all) # <<>>)
  <2>1. 3 \in Nat
    OBVIOUS
  <2> QED
    BY <1>5, <2>1, TakeFacts
<1>7. 3 > 0
  OBVIOUS
<1> QED
  BY <1>2, <1>5, <1>6, <1>7 DEF T

(* There is one advice, or none, for every permission.                     *)
LEMMA AdviceType ==
  ASSUME NEW permission, NEW seen
  PROVE  AdviceFor(permission, seen)
           \in {"revoke_risky", "revoke_unlimited", "verify", "review", "none"}
<1>1. CASE IsRisky(seen)
  BY <1>1 DEF AdviceFor
<1>2. CASE ~IsRisky(seen) /\ (permission.unlimited \/ permission.unlimitedNow)
  BY <1>2 DEF AdviceFor
<1>3. CASE ~IsRisky(seen) /\ ~(permission.unlimited \/ permission.unlimitedNow)
  <2>1. AdviceFor(permission, seen) =
          IF ~seen.known THEN "verify"
          ELSE IF seen.proxy /\ seen.control # "contract" THEN "review" ELSE "none"
    BY <1>3 DEF AdviceFor
  <2> QED
    BY <2>1
<1> QED
  BY <1>1, <1>2, <1>3

(* Every pick of the rules is one the validator lets through.              *)
LEMMA PicksFacts ==
  ASSUME NEW t \in Seq(Permission), NEW allowed, NEW learnt,
         \A i \in DOMAIN t : Claim(i, "self") \in allowed
  PROVE  /\ Picks(t, allowed, learnt) \in Seq(Pick)
         /\ \A n \in DOMAIN Picks(t, allowed, learnt) : ~BadPick(Picks(t, allowed, learnt)[n], t, allowed)
<1> DEFINE live == Actionable(t)
           advice(pid) == AdviceFor(t[pid], learnt[pid])
           I == {n \in DOMAIN live : advice(live[n]) # "none"}
           advised == At(live, I)
           k == Cardinality(I)
           because(pid) == Reasons(pid, advice(pid), learnt[pid], allowed)
           pick(n) == [pid |-> advised[n], action |-> ActionOf[advice(advised[n])],
                       because |-> because(advised[n])]
<1>1. live \in Seq(Revocable(t)) /\ Revocable(t) \in SUBSET DOMAIN t
  BY ActionableFacts
<1>2. Picks(t, allowed, learnt) = [n \in DOMAIN advised |-> pick(n)]
  BY DEF Picks
<1>3. I \in SUBSET DOMAIN live /\ \A i \in I : advice(live[i]) # "none"
  OBVIOUS
<1> HIDE DEF I, live
<1>4. /\ k \in Nat /\ DOMAIN advised = 1..k
      /\ \A n \in 1..k : \E i \in I : advised[n] = live[i]
  BY <1>1, <1>3, AtFacts
<1> HIDE DEF advised, k
<1>5. ASSUME NEW n \in 1..k PROVE pick(n) \in Pick /\ ~BadPick(pick(n), t, allowed)
  <2> DEFINE pid == advised[n]
             T == {c \in allowed \cap ClaimId : c.of = pid}
  <2>1. pid \in Revocable(t) /\ advice(pid) # "none"
    BY <1>1, <1>3, <1>4
  <2>2. pid \in DOMAIN t /\ pid \in Nat
    BY <1>1, <2>1
  <2>3. advice(pid) \in {"revoke_risky", "revoke_unlimited", "verify", "review"}
    BY <2>1, AdviceType
  <2>4. ActionOf[advice(pid)] \in ActionKind
    <3> HIDE DEF advice
    <3> QED
      BY <2>3 DEF ActionOf, ActionKind
  <2>5. pick(n) = [pid |-> pid, action |-> ActionOf[advice(pid)], because |-> because(pid)]
    OBVIOUS
  <2> HIDE DEF pid, advice
  <2>6. because(pid) \in Seq(T) /\ because(pid) # <<>>
    BY <2>2, <2>3, ReasonsFacts
  <2>7. because(pid) \in Seq(ClaimId) /\ \A c \in ToSet(because(pid)) : c \in allowed /\ c.of = pid
    <3> HIDE DEF because
    <3> QED
      BY <2>6 DEF ToSet
  <2> HIDE DEF because, T
  <2>8. pick(n) \in Pick
    BY <2>2, <2>4, <2>5, <2>7 DEF Pick
  <2> DEFINE p == pick(n)
  <2>9. p.pid = pid /\ p.because = because(pid)
    BY <2>5
  <2> HIDE DEF p, pick
  <2>10. /\ Because(p) \in Seq(ClaimId) /\ ToSet(Because(p)) \subseteq ToSet(p.because)
         /\ Because(p) # <<>>
    BY <2>6, <2>7, <2>9, BecauseFacts
  <2>11. PICK c \in ToSet(Because(p)) : TRUE
    BY <2>10 DEF ToSet
  <2>12. Belongs(c, p.pid)
    BY <2>7, <2>9, <2>10, <2>11 DEF Belongs
  <2>13. ~BadPick(p, t, allowed)
    BY <2>1, <2>7, <2>9, <2>12 DEF BadPick
  <2> QED
    BY <2>8, <2>13 DEF p
<1> HIDE DEF pick
<1>6. Picks(t, allowed, learnt) = [n \in 1..k |-> pick(n)]
  BY <1>2, <1>4
<1> QED
  BY <1>4, <1>5, <1>6

(* What the tools found out is listed by permission, then by kind.         *)
LEMMA ByPermissionType ==
  ASSUME NEW S \in SUBSET [of : Nat, kind : {"known", "drift", "control", "spender"}],
         IsFiniteSet(S)
  PROVE  ByPermission(S) \in Seq(S)
<1> DEFINE R == {p \in S \X S :
                   \/ p[1].of < p[2].of
                   \/ p[1].of = p[2].of /\ FindingKinds[p[1].kind] < FindingKinds[p[2].kind]}
<1>1. ByPermission(S) = InOrder(S, R)
  BY DEF ByPermission
<1>2. \A x \in S : x.of \in Nat /\ FindingKinds[x.kind] \in Nat
  BY DEF FindingKinds
<1>3. \A x, y \in S : x.of = y.of /\ FindingKinds[x.kind] = FindingKinds[y.kind] => x = y
  BY DEF FindingKinds
<1>4. \A x, y \in S :
        <<x, y>> \in R <=> (x.of < y.of \/ (x.of = y.of /\ FindingKinds[x.kind] < FindingKinds[y.kind]))
  OBVIOUS
<1> HIDE DEF R
<1>5. \A x \in S : <<x, x>> \notin R
  BY <1>2, <1>4
<1>6. \A x, y, z \in S : <<x, y>> \in R /\ <<y, z>> \in R => <<x, z>> \in R
  BY <1>2, <1>4
<1>7. ASSUME NEW x \in S, NEW y \in S PROVE x = y \/ <<x, y>> \in R \/ <<y, x>> \in R
  <2> DEFINE a == FindingKinds[x.kind]
             b == FindingKinds[y.kind]
  <2>1. x.of \in Nat /\ y.of \in Nat /\ a \in Nat /\ b \in Nat
    BY <1>2
  <2>2. x.of = y.of /\ a = b => x = y
    BY <1>3
  <2>3. /\ x.of < y.of \/ (x.of = y.of /\ a < b) => <<x, y>> \in R
        /\ y.of < x.of \/ (y.of = x.of /\ b < a) => <<y, x>> \in R
    BY <1>4
  <2> HIDE DEF a, b
  <2>4. x.of < y.of \/ y.of < x.of \/ x.of = y.of
    BY <2>1
  <2>5. a < b \/ b < a \/ a = b
    BY <2>1
  <2> QED
    BY <2>2, <2>3, <2>4, <2>5
<1>8. StrictTotal(R, S)
  BY <1>5, <1>6, <1>7 DEF StrictTotal
<1> QED
  BY <1>1, <1>8, InOrderFacts

(* The findings are claims of the catalog.                                 *)
LEMMA FindingsFacts ==
  ASSUME NEW t \in Seq(Permission), NEW allowed, NEW learnt
  PROVE  Findings(t, allowed, learnt) \in Seq(allowed \cap ClaimId)
<1> DEFINE kinds == {"known", "drift", "control", "spender"}
           P == Revocable(t) \X kinds
           f == [p \in P |-> Claim(p[1], p[2])]
           C == {Claim(pid, kind) : pid \in Revocable(t), kind \in kinds}
           risky == RiskyFindings(t, allowed, learnt)
           rest == ContextFindings(t, allowed, learnt) \ risky
<1>1. IsFiniteSet(Revocable(t)) /\ Revocable(t) \in SUBSET Nat
  BY ActionableFacts
<1>2. IsFiniteSet(C)
  <2>1. IsFiniteSet(kinds)
    <3>1. IsFiniteSet({"known", "drift", "control"} \cup {"spender"})
      <4>1. IsFiniteSet({"known"})
        BY FS_Singleton
      <4>2. IsFiniteSet({"known"} \cup {"drift"})
        BY <4>1, FS_AddElement
      <4>3. IsFiniteSet(({"known"} \cup {"drift"}) \cup {"control"})
        BY <4>2, FS_AddElement
      <4>4. IsFiniteSet((({"known"} \cup {"drift"}) \cup {"control"}) \cup {"spender"})
        BY <4>3, FS_AddElement
      <4>5. (({"known"} \cup {"drift"}) \cup {"control"}) \cup {"spender"}
              = {"known", "drift", "control"} \cup {"spender"}
        OBVIOUS
      <4> QED
        BY <4>4, <4>5
    <3>2. kinds = {"known", "drift", "control"} \cup {"spender"}
      OBVIOUS
    <3> QED
      BY <3>1, <3>2
  <2>2. IsFiniteSet(P)
    BY <1>1, <2>1, FS_Product
  <2>3. f \in Surjection(P, C)
    <3>1. \A p \in P : f[p] \in C
      OBVIOUS
    <3>2. ASSUME NEW c \in C PROVE \E p \in P : f[p] = c
      <4>1. PICK pid \in Revocable(t), kind \in kinds : c = Claim(pid, kind)
        OBVIOUS
      <4>2. <<pid, kind>> \in P /\ f[<<pid, kind>>] = c
        BY <4>1
      <4> QED
        BY <4>2
    <3>3. f \in [P -> C]
      BY <3>1
    <3> HIDE DEF f, P, C
    <3> QED
      BY <3>2, <3>3 DEF Surjection
  <2> QED
    BY <2>2, <2>3, FS_Surjection
<1>3. C \in SUBSET [of : Nat, kind : kinds]
  BY <1>1 DEF Claim
<1>4. risky \in SUBSET (C \cap allowed) /\ rest \in SUBSET (C \cap allowed)
  BY DEF RiskyFindings, ContextFindings
<1> HIDE DEF C, risky, rest
<1>5. ASSUME NEW S \in SUBSET (C \cap allowed)
      PROVE  ByPermission(S) \in Seq(allowed \cap ClaimId)
  <2>1. IsFiniteSet(S) /\ S \in SUBSET [of : Nat, kind : kinds]
    BY <1>2, <1>3, FS_Subset
  <2>2. ByPermission(S) \in Seq(S)
    BY <2>1, ByPermissionType
  <2>3. S \subseteq allowed \cap ClaimId
    <3>1. kinds \subseteq ClaimKind
      BY ClaimKinds
    <3> QED
      BY <2>1, <3>1 DEF ClaimId
  <2> QED
    BY <2>2, <2>3
<1>6. Present(0, <<"risk", "note">>, allowed) \in Seq(allowed \cap ClaimId)
  <2>1. <<"risk", "note">> \in Seq(ClaimKind) /\ 0 \in Nat
    BY TuplesAreSequences, ClaimKinds
  <2>2. Present(0, <<"risk", "note">>, allowed) \in Seq({c \in allowed \cap ClaimId : c.of = 0})
    BY <2>1, PresentFacts
  <2> QED
    BY <2>2
<1>7. Findings(t, allowed, learnt)
        = ByPermission(risky) \o ByPermission(rest) \o Present(0, <<"risk", "note">>, allowed)
  BY DEF Findings, risky, rest
<1>8. ByPermission(risky) \in Seq(allowed \cap ClaimId) /\ ByPermission(rest) \in Seq(allowed \cap ClaimId)
  BY <1>4, <1>5
<1> QED
  BY <1>6, <1>7, <1>8

(* The uncertainties are claims of the catalog.                            *)
LEMMA UncertaintiesFacts ==
  ASSUME NEW t \in Seq(Permission), NEW allowed \in SUBSET ClaimId, NEW learnt
  PROVE  Uncertainties(t, allowed, learnt) \in Seq(allowed)
<1> DEFINE live == Actionable(t)
           I == {n \in DOMAIN live : Unverifiable(live[n], learnt[live[n]], allowed)}
           drifted == At(live, I)
           k == Cardinality(I)
           first == [n \in DOMAIN drifted |-> Claim(drifted[n], "drift")]
           gap == Present(0, <<"gap">>, allowed)
<1>1. live \in Seq(Revocable(t))
  BY ActionableFacts
<1>2. I \in SUBSET DOMAIN live /\ \A i \in I : Claim(live[i], "drift") \in allowed
  BY DEF Unverifiable
<1>3. Uncertainties(t, allowed, learnt) = first \o gap
  BY DEF Uncertainties
<1> HIDE DEF I, live
<1>4. /\ k \in Nat /\ DOMAIN drifted = 1..k
      /\ \A n \in 1..k : \E i \in I : drifted[n] = live[i]
  BY <1>1, <1>2, AtFacts
<1> HIDE DEF drifted, k
<1>5. \A n \in 1..k : Claim(drifted[n], "drift") \in allowed
  BY <1>2, <1>4
<1>6. first = [n \in 1..k |-> Claim(drifted[n], "drift")]
  BY <1>4
<1>7. first \in Seq(allowed)
  BY <1>4, <1>5, <1>6
<1>8. gap \in Seq(allowed)
  <2>1. <<"gap">> \in Seq(ClaimKind) /\ 0 \in Nat
    BY TuplesAreSequences, ClaimKinds
  <2>2. gap \in Seq({c \in allowed \cap ClaimId : c.of = 0})
    BY <2>1, PresentFacts
  <2> QED
    BY <2>2
<1> HIDE DEF first, gap
<1> QED
  BY <1>3, <1>7, <1>8

(* The catalog always has something the briefing can lead with.            *)
LEMMA SummaryFacts ==
  ASSUME NEW t \in Seq(Permission), NEW allowed \in SUBSET ClaimId,
         \A i \in DOMAIN t : Claim(i, "self") \in allowed,
         TxWide("status") \in allowed
  PROVE  Summary(t, allowed) \in Seq(allowed) /\ Summary(t, allowed) # <<>>
<1> DEFINE live == Actionable(t)
           I == {i \in DOMAIN t : t[i].role # "other"}
           owned == Ascending(I)
           lead == IF live # <<>> THEN live ELSE owned
           focus == Take(1, lead)
           tx == Present(0, <<"approvals", "status">>, allowed)
<1>1. live \in Seq(DOMAIN t)
  <2>1. live \in Seq(Revocable(t)) /\ Revocable(t) \in SUBSET DOMAIN t
    BY ActionableFacts
  <2> HIDE DEF live
  <2> QED
    BY <2>1
<1>2. owned \in Seq(DOMAIN t)
  <2>1. DOMAIN t = 1..Len(t) /\ Len(t) \in Nat /\ I \in SUBSET DOMAIN t
    OBVIOUS
  <2> HIDE DEF I
  <2>2. IsFiniteSet(I) /\ I \in SUBSET Nat
    <3>1. IsFiniteSet(1..Len(t))
      BY <2>1, FS_Interval
    <3> QED
      BY <2>1, <3>1, FS_Subset
  <2>3. owned \in Seq(I)
    BY <2>2, AscendingFacts
  <2> HIDE DEF owned
  <2> QED
    BY <2>1, <2>3
<1>3. Summary(t, allowed) = IF focus # <<>> THEN Present(focus[1], <<"self", "reach">>, allowed)
                           ELSE Take(1, tx)
  BY DEF Summary
<1> HIDE DEF live, owned
<1>4. lead \in Seq(DOMAIN t)
  BY <1>1, <1>2
<1> HIDE DEF lead
<1>5. focus \in Seq(DOMAIN t)
  <2>1. 1 \in Nat
    OBVIOUS
  <2> QED
    BY <1>4, <2>1, TakeFacts
<1> HIDE DEF focus
<1>6. CASE focus # <<>>
  <2> DEFINE pid == focus[1]
             kinds == <<"self", "reach">>
             p == Present(pid, kinds, allowed)
  <2>1. pid \in DOMAIN t /\ pid \in Nat
    BY <1>5, <1>6
  <2>2. kinds \in Seq(ClaimKind) /\ 1 \in DOMAIN kinds /\ Claim(pid, kinds[1]) \in allowed
    BY <2>1, TuplesAreSequences, ClaimKinds
  <2> HIDE DEF pid, kinds
  <2>3. p \in Seq({c \in allowed \cap ClaimId : c.of = pid}) /\ p # <<>>
    BY <2>1, <2>2, PresentFacts
  <2>4. Summary(t, allowed) = p
    BY <1>3, <1>6 DEF pid, kinds
  <2> HIDE DEF p
  <2> QED
    BY <2>3, <2>4
<1>7. CASE focus = <<>>
  <2> DEFINE kinds == <<"approvals", "status">>
  <2>1. kinds \in Seq(ClaimKind) /\ 2 \in DOMAIN kinds /\ Claim(0, kinds[2]) \in allowed /\ 0 \in Nat
    BY TuplesAreSequences, ClaimKinds DEF TxWide
  <2> HIDE DEF kinds
  <2>2. /\ Present(0, kinds, allowed) \in Seq({c \in allowed \cap ClaimId : c.of = 0})
        /\ Present(0, kinds, allowed) # <<>>
    BY <2>1, PresentFacts
  <2>3. tx \in Seq(allowed) /\ tx # <<>>
    BY <2>2 DEF kinds
  <2> HIDE DEF tx
  <2>4. Take(1, tx) \in Seq(allowed) /\ (1 > 0 /\ tx # <<>> => Take(1, tx) # <<>>)
    <3>1. 1 \in Nat
      OBVIOUS
    <3> QED
      BY <2>3, <3>1, TakeFacts
  <2>5. 1 > 0
    OBVIOUS
  <2> QED
    BY <1>3, <1>7, <2>3, <2>4, <2>5
<1> QED
  BY <1>6, <1>7

(* The fallback cannot fail: the validator has nothing to refuse.          *)
LEMMA BaselineIsAccepted ==
  ASSUME NEW t \in Seq(Permission), NEW allowed \in SUBSET ClaimId, NEW learnt,
         \A i \in DOMAIN t : Claim(i, "self") \in allowed,
         TxWide("status") \in allowed
  PROVE  /\ BaselineBrief(t, allowed, learnt) \in ReportDraft
         /\ ~Rejected(BaselineBrief(t, allowed, learnt), t, allowed)
<1> DEFINE brief == BaselineBrief(t, allowed, learnt)
           summary == Summary(t, allowed)
           findings == Findings(t, allowed, learnt)
           unsure == Uncertainties(t, allowed, learnt)
           picks == Picks(t, allowed, learnt)
<1>1. 2 \in Nat /\ 4 \in Nat /\ 3 \in Nat /\ 6 \in Nat /\ 2 > 0
  OBVIOUS
<1>2. ASSUME NEW s \in Seq(allowed), NEW n \in Nat
      PROVE  Take(n, s) \in Seq(ClaimId) /\ ToSet(Take(n, s)) \subseteq allowed
  <2>1. Take(n, s) \in Seq(allowed)
    BY TakeFacts
  <2> HIDE DEF brief
  <2> QED
    BY <2>1 DEF ToSet
<1>3. summary \in Seq(allowed) /\ summary # <<>>
  BY SummaryFacts
<1>4. findings \in Seq(allowed)
  <2>1. findings \in Seq(allowed \cap ClaimId) /\ allowed \cap ClaimId = allowed
    BY FindingsFacts
  <2> QED
    BY <2>1
<1>5. unsure \in Seq(allowed)
  BY UncertaintiesFacts
<1>6. picks \in Seq(Pick) /\ \A n \in DOMAIN picks : ~BadPick(picks[n], t, allowed)
  BY PicksFacts
<1>7. brief = [summary |-> Take(2, summary), findings |-> Take(4, findings),
               uncertainties |-> Take(3, unsure), actions |-> Take(6, picks)]
  BY DEF BaselineBrief
<1> HIDE DEF brief, summary, findings, unsure, picks
<1>8. /\ brief.summary = Take(2, summary) /\ brief.findings = Take(4, findings)
      /\ brief.uncertainties = Take(3, unsure) /\ brief.actions = Take(6, picks)
  BY <1>7
<1>9. /\ brief.summary \in Seq(ClaimId) /\ ToSet(brief.summary) \subseteq allowed
      /\ brief.findings \in Seq(ClaimId) /\ ToSet(brief.findings) \subseteq allowed
      /\ brief.uncertainties \in Seq(ClaimId) /\ ToSet(brief.uncertainties) \subseteq allowed
  BY <1>1, <1>2, <1>3, <1>4, <1>5, <1>8
<1>10. brief.summary # <<>>
  BY <1>1, <1>3, <1>8, TakeFacts
<1>11. brief.actions \in Seq(Pick) /\ ToSet(brief.actions) \subseteq ToSet(picks)
  BY <1>1, <1>6, <1>8, TakeFacts
<1>12. \A p \in ToSet(picks) : ~BadPick(p, t, allowed)
  BY <1>6 DEF ToSet
<1>13. brief \in ReportDraft
  <2>1. brief = [summary |-> brief.summary, findings |-> brief.findings,
                 uncertainties |-> brief.uncertainties, actions |-> brief.actions]
    BY <1>7
  <2> QED
    BY <1>9, <1>11, <2>1 DEF ReportDraft, Pick
<1>14. ~Rejected(brief, t, allowed)
  BY <1>9, <1>10, <1>11, <1>12 DEF Rejected
<1> QED
  BY <1>13, <1>14 DEF brief


---------------------------------------------------------------------------
(* The investigation: its budgets.                                         *)

Counted ==
  /\ callsLeft \in Nat
  /\ roundsLeft \in Nat
  /\ modelCalls \in Nat
  /\ pc \in {"plan", "screen", "tools", "done"}
  /\ planner \in {"model", "baseline"}
  /\ IsFiniteSet(ran)
  /\ \E S : accepted \in Seq(S)

(* What was accepted in a round is new, and is paid for once.              *)
Fresh ==
  /\ \A i, j \in 1..Len(accepted) : accepted[i] = accepted[j] => i = j
  /\ \A i \in 1..Len(accepted) : accepted[i] \notin ran

(* A round costs the model one request, and a failure takes the model out. *)
ModelRoundsLeft ==
  /\ planner = "model" => modelCalls + roundsLeft = ModelRounds
  /\ modelCalls <= ModelRounds
  /\ pc = "plan" => roundsLeft > 0

IInv == Counted /\ Fresh /\ WithinBudget /\ ModelRoundsLeft

(* The initial state satisfies the invariant.                              *)
LEMMA InitIInv == Init => IInv
<1> SUFFICES ASSUME NEW by \in {"model", "baseline"}, InvestigationInit(by)
             PROVE  IInv
  BY DEF Init
<1>1. Counted
  BY InvestigationAssumption, FS_EmptySet DEF InvestigationInit, Counted
<1>2. Fresh
  BY DEF InvestigationInit, Fresh
<1>3. WithinBudget
  BY InvestigationAssumption, FS_EmptySet DEF InvestigationInit, WithinBudget
<1>4. ModelRoundsLeft
  BY InvestigationAssumption DEF InvestigationInit, ModelRoundsLeft
<1> QED
  BY <1>1, <1>2, <1>3, <1>4 DEF IInv

---------------------------------------------------------------------------

(* A plan, whoever makes it, opens a round with nothing accepted.          *)
LEMMA PlanIInv ==
  ASSUME IInv, NEW calls, NEW end, Plan(calls, end),
         \/ planner = "baseline" /\ UNCHANGED modelCalls
         \/ planner = "model" /\ modelCalls' = modelCalls + 1
  PROVE  IInv'
<1>1. roundsLeft > 0 /\ roundsLeft' = roundsLeft - 1 /\ planner' = planner
  BY DEF Plan, IInv, ModelRoundsLeft
<1>2. Counted'
  <2>1. accepted' \in Seq({})
    BY DEF Plan
  <2> QED
    BY <1>1, <2>1 DEF Plan, IInv, Counted
<1>3. Fresh'
  BY DEF Plan, Fresh
<1>4. WithinBudget'
  BY DEF Plan, IInv, Counted, WithinBudget
<1>5. ModelRoundsLeft'
  BY <1>1, InvestigationAssumption DEF Plan, IInv, Counted, ModelRoundsLeft
<1> QED
  BY <1>2, <1>3, <1>4, <1>5 DEF IInv

(* Screening accepts a call only while the round can still pay for it.     *)
LEMMA ScreenIInv == ASSUME IInv, Screen PROVE IInv'
<1>1. CASE ~MayRun(Head(requested))
  BY <1>1 DEF Screen, progress, IInv, Counted, Fresh, WithinBudget, ModelRoundsLeft
<1>2. CASE MayRun(Head(requested))
  <2> DEFINE call == Head(requested)
  <2>1. PICK S : accepted \in Seq(S)
    BY DEF IInv, Counted
  <2>2. /\ accepted' = Append(accepted, call)
        /\ UNCHANGED <<pc, planner, roundsLeft, callsLeft, ran, modelCalls>>
    BY <1>2 DEF Screen, progress
  <2>3. /\ accepted' \in Seq(S \cup {call})
        /\ Len(accepted) \in Nat /\ Len(accepted') = Len(accepted) + 1
        /\ \A i \in 1..Len(accepted) : accepted'[i] = accepted[i]
        /\ accepted'[Len(accepted) + 1] = call
    <3>1. accepted \in Seq(S \cup {call}) /\ call \in S \cup {call}
      BY <2>1
    <3> QED
      BY <2>2, <3>1
  <2>4. /\ Len(accepted) < RoundBudget
        /\ call \notin ran
        /\ \A i \in 1..Len(accepted) : accepted[i] # call
    BY <1>2, <2>1 DEF MayRun, ToSet
  <2>5. Counted'
    BY <2>2, <2>3 DEF IInv, Counted
  <2>6. Fresh'
    <3>1. \A i \in 1..Len(accepted') : i \in 1..Len(accepted) \/ i = Len(accepted) + 1
      BY <2>3
    <3> QED
      BY <2>2, <2>3, <2>4, <3>1 DEF IInv, Fresh
  <2>7. WithinBudget'
    <3>1. Len(accepted) < callsLeft
      BY <2>3, <2>4, InvestigationAssumption DEF RoundBudget, IInv, Counted
    <3> QED
      BY <2>2, <2>3, <3>1 DEF IInv, Counted, WithinBudget
  <2>8. ModelRoundsLeft'
    BY <2>2 DEF IInv, ModelRoundsLeft
  <2> QED
    BY <2>5, <2>6, <2>7, <2>8 DEF IInv
<1> QED
  BY <1>1, <1>2

(* A tool's result is recorded as one more call, the first of the accepted. *)
LEMMA RecordIInv ==
  ASSUME IInv, NEW call, Record(call)
  PROVE  IInv'
<1>1. PICK S : accepted \in Seq(S)
  BY DEF IInv, Counted
<1>2. /\ accepted # <<>> /\ call = accepted[1]
      /\ Len(accepted) \in Nat /\ Len(accepted) >= 1
  BY <1>1 DEF Record
<1>3. /\ accepted' \in Seq(S) /\ Len(accepted') = Len(accepted) - 1
      /\ \A i \in 1..Len(accepted') : accepted'[i] = accepted[i + 1]
  BY <1>1, <1>2 DEF Record
<1>4. /\ ran' = ran \cup {call} /\ callsLeft' = callsLeft - 1
      /\ UNCHANGED <<pc, planner, roundsLeft, modelCalls>>
      /\ pc = "tools"
  BY DEF Record
<1>5. call \notin ran
  BY <1>2 DEF IInv, Fresh
<1>6. callsLeft >= 1
  BY <1>2, <1>4 DEF IInv, Counted, WithinBudget
<1>7. /\ IsFiniteSet(ran') /\ Cardinality(ran) \in Nat
      /\ Cardinality(ran') = Cardinality(ran) + 1
  BY <1>4, <1>5, FS_AddElement, FS_CardinalityType DEF IInv, Counted
<1>8. Counted'
  BY <1>3, <1>4, <1>6, <1>7 DEF IInv, Counted
<1>9. Fresh'
  <2>1. \A i \in 1..Len(accepted') : i + 1 \in 1..Len(accepted) /\ i + 1 # 1
    BY <1>2, <1>3
  <2>2. ASSUME NEW i \in 1..Len(accepted'), NEW j \in 1..Len(accepted'),
               accepted'[i] = accepted'[j]
        PROVE  i = j
    <3>1. i + 1 = j + 1
      BY <1>3, <2>1, <2>2 DEF IInv, Fresh
    <3> QED
      BY <3>1
  <2>3. ASSUME NEW i \in 1..Len(accepted') PROVE accepted'[i] \notin ran'
    <3>1. accepted'[i] = accepted[i + 1] /\ accepted[i + 1] # accepted[1]
      BY <1>2, <1>3, <2>1 DEF IInv, Fresh
    <3> QED
      BY <1>2, <1>4, <2>1, <3>1 DEF IInv, Fresh
  <2> QED
    BY <2>2, <2>3 DEF Fresh
<1>10. WithinBudget'
  BY <1>2, <1>3, <1>4, <1>6, <1>7, InvestigationAssumption
  DEF IInv, Counted, WithinBudget
<1>11. ModelRoundsLeft'
  BY <1>4 DEF IInv, ModelRoundsLeft
<1> QED
  BY <1>8, <1>9, <1>10, <1>11 DEF IInv

(* Every step preserves the invariant.                                     *)
LEMMA NextIInv == IInv /\ [Next]_iVars => IInv'
<1> SUFFICES ASSUME IInv, [Next]_iVars PROVE IInv'
  OBVIOUS
<1>1. CASE PlanBaseline
  BY <1>1, PlanIInv DEF PlanBaseline
<1>2. CASE PlanModel
  BY <1>2, PlanIInv DEF PlanModel
<1>3. CASE PlanFails
  <2>1. Counted' /\ Fresh' /\ WithinBudget'
    BY <1>3 DEF PlanFails, progress, IInv, Counted, Fresh, WithinBudget
  <2>2. ModelRoundsLeft'
    BY <1>3, InvestigationAssumption
    DEF PlanFails, progress, IInv, Counted, ModelRoundsLeft
  <2> QED
    BY <2>1, <2>2 DEF IInv
<1>4. CASE Screen
  BY <1>4, ScreenIInv
<1>5. CASE Screened
  BY <1>5 DEF Screened, progress, IInv, Counted, Fresh, WithinBudget, ModelRoundsLeft
<1>6. CASE ToolFails \/ SpenderProfile \/ UpgradeControl \/ KnownSpender
  BY <1>6, RecordIInv DEF ToolFails, SpenderProfile, UpgradeControl, KnownSpender
<1>7. CASE RoundEnds
  BY <1>7 DEF RoundEnds, progress, IInv, Counted, Fresh, WithinBudget, ModelRoundsLeft
<1>8. CASE UNCHANGED iVars
  BY <1>8 DEF iVars, IInv, Counted, Fresh, WithinBudget, ModelRoundsLeft
<1> QED
  BY <1>1, <1>2, <1>3, <1>4, <1>5, <1>6, <1>7, <1>8
  DEF Next, InvestigationStep, InvestigationOver

(* The investigation keeps the invariant.                                  *)
THEOREM InvestigationInvariant == Spec => []IInv
BY InitIInv, NextIInv, PTL DEF Spec

---------------------------------------------------------------------------

(* Over all rounds the calls made and the calls left are the budget,       *)
(* whatever is requested, and what was accepted can be paid for.           *)
THEOREM BudgetIsKept == Spec => []WithinBudget
<1>1. IInv => WithinBudget
  BY DEF IInv
<1> QED
  BY <1>1, InvestigationInvariant, PTL

(* No more than MaxCalls tools ever run.                                   *)
THEOREM CallsAreBounded == Spec => [](Cardinality(ran) <= MaxCalls)
<1>1. IInv => Cardinality(ran) <= MaxCalls
  BY FS_CardinalityType, InvestigationAssumption DEF IInv, Counted, WithinBudget
<1> QED
  BY <1>1, InvestigationInvariant, PTL

(* The model is asked at most once per round, failures included.           *)
THEOREM ModelIsAskedRarely == Spec => []ModelCallsBounded
<1>1. IInv => ModelCallsBounded
  BY DEF IInv, ModelRoundsLeft, ModelCallsBounded
<1> QED
  BY <1>1, InvestigationInvariant, PTL

---------------------------------------------------------------------------
(* The investigation: types, and what the catalog promises.                *)

RevocableCall == [tool : ToolNames, pid : Revocable(targets)]

(* Every permission has its claim, and the transaction has its status.     *)
CatalogComplete ==
  /\ \A i \in DOMAIN targets : Claim(i, "self") \in claims
  /\ TxWide("status") \in claims

TInv == TypeOK /\ accepted \in Seq(RevocableCall) /\ CatalogComplete

(* Revocable permissions are ids of the catalog, and finitely many.        *)
LEMMA RevocableType ==
  ASSUME TypeOK
  PROVE  /\ Revocable(targets) \in SUBSET DOMAIN targets /\ IsFiniteSet(Revocable(targets))
         /\ DOMAIN targets \in SUBSET Nat
         /\ DOMAIN targets \in SUBSET (0..Len(targets))
<1>1. targets \in Seq(Permission)
  BY DEF TypeOK
<1>2. DOMAIN targets = 1..Len(targets) /\ Len(targets) \in Nat
  BY <1>1
<1> QED
  BY <1>1, <1>2, ActionableFacts

(* What is pending is a finite set, requested once each.                   *)
LEMMA PendingFacts ==
  ASSUME TypeOK
  PROVE  /\ PendingCalls \in SUBSET RevocableCall /\ IsFiniteSet(PendingCalls)
         /\ Cardinality(PendingCalls) \in Nat
         /\ Pending \in Seq(PendingCalls)
         /\ Len(Pending) = Cardinality(PendingCalls)
         /\ \A call \in PendingCalls : \E n \in 1..Len(Pending) : Pending[n] = call
         /\ \A m, n \in 1..Len(Pending) : Pending[m] = Pending[n] => m = n
         /\ Pending = <<>> <=> PendingCalls = {}
<1> DEFINE S == PendingCalls
           P == ToolNames \X Revocable(targets)
           f == [p \in P |-> Call(p[1], p[2])]
           R == {p \in S \X S :
                   \/ p[1].pid < p[2].pid
                   \/ p[1].pid = p[2].pid /\ ToolRank[p[1].tool] < ToolRank[p[2].tool]}
<1>1. Revocable(targets) \in SUBSET Nat /\ IsFiniteSet(Revocable(targets))
  BY RevocableType
<1>2. S \in SUBSET RevocableCall
  BY DEF PendingCalls, Wanted, Call, RevocableCall, ToolNames
<1>3. IsFiniteSet(RevocableCall)
  <2>1. IsFiniteSet(ToolNames)
    <3>1. IsFiniteSet({"spender_profile", "upgrade_control"})
      <4>1. IsFiniteSet({"spender_profile"})
        BY FS_Singleton
      <4>2. IsFiniteSet({"spender_profile"} \cup {"upgrade_control"})
        BY <4>1, FS_AddElement
      <4>3. {"spender_profile"} \cup {"upgrade_control"} = {"spender_profile", "upgrade_control"}
        OBVIOUS
      <4> QED
        BY <4>2, <4>3
    <3>2. ToolNames = {"spender_profile", "upgrade_control"} \cup {"known_spender"}
      BY DEF ToolNames
    <3> QED
      BY <3>1, <3>2, FS_AddElement
  <2>2. IsFiniteSet(P)
    BY <1>1, <2>1, FS_Product
  <2>3. f \in Surjection(P, RevocableCall)
    <3>1. \A p \in P : f[p] \in RevocableCall
      BY DEF Call, RevocableCall
    <3>2. ASSUME NEW c \in RevocableCall PROVE \E p \in P : f[p] = c
      <4>1. <<c.tool, c.pid>> \in P /\ f[<<c.tool, c.pid>>] = c
        BY DEF Call, RevocableCall
      <4> QED
        BY <4>1
    <3>3. f \in [P -> RevocableCall]
      BY <3>1
    <3> HIDE DEF f, P
    <3> QED
      BY <3>2, <3>3 DEF Surjection
  <2> QED
    BY <2>2, <2>3, FS_Surjection
<1>4. IsFiniteSet(S)
  BY <1>2, <1>3, FS_Subset
<1>5. Pending = InOrder(S, R)
  BY DEF Pending
<1> HIDE DEF S
<1>6. \A x \in S : x.pid \in Nat /\ ToolRank[x.tool] \in Nat
  BY <1>1, <1>2 DEF RevocableCall, ToolRank, ToolNames
<1>7. \A x, y \in S : x.pid = y.pid /\ ToolRank[x.tool] = ToolRank[y.tool] => x = y
  BY <1>2 DEF RevocableCall, ToolRank, ToolNames
<1>8. \A x, y \in S :
        <<x, y>> \in R <=> (x.pid < y.pid \/ (x.pid = y.pid /\ ToolRank[x.tool] < ToolRank[y.tool]))
  OBVIOUS
<1> HIDE DEF R
<1>9. \A x \in S : <<x, x>> \notin R
  BY <1>6, <1>8
<1>10. \A x, y, z \in S : <<x, y>> \in R /\ <<y, z>> \in R => <<x, z>> \in R
  BY <1>6, <1>8
<1>11. ASSUME NEW x \in S, NEW y \in S PROVE x = y \/ <<x, y>> \in R \/ <<y, x>> \in R
  <2> DEFINE a == ToolRank[x.tool]
             b == ToolRank[y.tool]
  <2>1. x.pid \in Nat /\ y.pid \in Nat /\ a \in Nat /\ b \in Nat
    BY <1>6
  <2>2. x.pid = y.pid /\ a = b => x = y
    BY <1>7
  <2>3. /\ x.pid < y.pid \/ (x.pid = y.pid /\ a < b) => <<x, y>> \in R
        /\ y.pid < x.pid \/ (y.pid = x.pid /\ b < a) => <<y, x>> \in R
    BY <1>8
  <2> HIDE DEF a, b
  <2>4. x.pid < y.pid \/ y.pid < x.pid \/ x.pid = y.pid
    BY <2>1
  <2>5. a < b \/ b < a \/ a = b
    BY <2>1
  <2> QED
    BY <2>2, <2>3, <2>4, <2>5
<1>12. StrictTotal(R, S)
  BY <1>9, <1>10, <1>11 DEF StrictTotal
<1>13. /\ Cardinality(S) \in Nat
       /\ InOrder(S, R) \in Seq(S)
       /\ Len(InOrder(S, R)) = Cardinality(S)
       /\ \A n \in 1..Cardinality(S) : InOrder(S, R)[n] \in S
       /\ \A x \in S : \E n \in 1..Cardinality(S) : InOrder(S, R)[n] = x
       /\ \A m, n \in 1..Cardinality(S) :
            m < n => <<InOrder(S, R)[m], InOrder(S, R)[n]>> \in R
  BY <1>4, <1>12, InOrderFacts
<1>14. \A m, n \in 1..Len(Pending) : Pending[m] = Pending[n] => m = n
  <2> SUFFICES ASSUME NEW m \in 1..Len(Pending), NEW n \in 1..Len(Pending),
                      Pending[m] = Pending[n], m # n
               PROVE  FALSE
    OBVIOUS
  <2>1. Pending[m] \in S
    BY <1>5, <1>13
  <2>2. m \in Nat /\ n \in Nat /\ (m < n \/ n < m)
    BY <1>5, <1>13
  <2>3. <<Pending[m], Pending[m]>> \in R
    BY <1>5, <1>13, <2>2
  <2> QED
    BY <1>9, <2>1, <2>3
<1>15. Pending \in Seq(S) /\ Len(Pending) = Cardinality(S)
  BY <1>5, <1>13
<1>16. Pending = <<>> <=> Cardinality(S) = 0
  BY <1>13, <1>15
<1>17. Cardinality(S) = 0 <=> S = {}
  BY <1>4, FS_EmptySet
<1> QED
  BY <1>2, <1>4, <1>5, <1>13, <1>14, <1>15, <1>16, <1>17 DEF S

(* A round has PerRound calls, or what is left of them.                    *)
LEMMA RoundBudgetType ==
  ASSUME TypeOK
  PROVE  /\ RoundBudget \in Nat /\ RoundBudget <= PerRound /\ RoundBudget <= callsLeft
         /\ RoundBudget = PerRound \/ RoundBudget = callsLeft
BY InvestigationAssumption DEF TypeOK, RoundBudget

(* A sequence over a set is one over any larger set.                       *)
LEMMA SeqOfMore ==
  ASSUME NEW S, NEW T, S \subseteq T, NEW s \in Seq(S)
  PROVE  s \in Seq(T)
OBVIOUS

(* What a queue holds, and what remains of it.                             *)
LEMMA HeadAndTail ==
  ASSUME NEW S, NEW s \in Seq(S), s # <<>>
  PROVE  /\ Head(s) \in S /\ Tail(s) \in Seq(S)
         /\ Len(Tail(s)) = Len(s) - 1
         /\ \A i \in 1..Len(Tail(s)) : Tail(s)[i] = s[i + 1]
OBVIOUS

(* The catalog is built with the claims of its permissions.                *)
LEMMA InitTInv == Init => TInv
<1> SUFFICES ASSUME NEW e \in Exposures, targets = Targets(e),
                    NEW by \in {"model", "baseline"}, InvestigationInit(by)
             PROVE  TInv
  BY DEF Init
<1>1. targets \in Seq(Permission)
  BY TargetsFacts, InvestigationAssumption
<1>2. PICK notes \in Notes : claims = CatalogClaims(targets, notes)
  BY DEF InvestigationInit
<1>3. DOMAIN targets = 1..Len(targets) /\ Len(targets) \in Nat
  BY <1>1
<1>4. claims \subseteq [of : 0..Len(targets), kind : ClaimKind]
  <2>1. notes \subseteq ClaimKind
    BY InvestigationAssumption
  <2>2. ASSUME NEW i \in 0..Len(targets), NEW k \in ClaimKind
        PROVE  Claim(i, k) \in [of : 0..Len(targets), kind : ClaimKind]
    BY DEF Claim
  <2>3. 0 \in 0..Len(targets) /\ \A i \in DOMAIN targets : i \in 0..Len(targets)
    BY <1>3
  <2> QED
    BY <1>2, <2>1, <2>2, <2>3, ClaimKinds DEF CatalogClaims, PermissionClaims, TxWide
<1>5. CatalogComplete
  BY <1>2 DEF CatalogComplete, CatalogClaims, PermissionClaims
<1>6. requested = <<>> /\ accepted = <<>> /\ ran = {}
  BY DEF InvestigationInit
<1>7. facts \in [DOMAIN targets -> Facts]
  <2>1. NoFacts \in Facts
    BY DEF NoFacts, Facts, Controls
  <2> QED
    BY <2>1 DEF InvestigationInit
<1>8. /\ pc \in {"plan", "screen", "tools", "done"} /\ planner \in {"model", "baseline"}
      /\ roundsLeft \in Nat /\ callsLeft \in Nat /\ stepDone \in BOOLEAN /\ modelCalls \in Nat
  BY InvestigationAssumption DEF InvestigationInit
<1>9. TypeOK
  BY <1>1, <1>4, <1>6, <1>7, <1>8 DEF TypeOK
<1> QED
  BY <1>5, <1>6, <1>9 DEF TInv

(* A round's requests are calls, of the planner's or of the model's.       *)
LEMMA PlanTInv ==
  ASSUME TInv, IInv, NEW end \in BOOLEAN, NEW calls \in Seq([tool : ToolNames, pid : Nat]),
         Plan(calls, end), modelCalls' \in Nat
  PROVE  TInv'
<1>1. /\ requested' = calls /\ stepDone' = end /\ accepted' = <<>> /\ pc' = "screen"
      /\ roundsLeft' = roundsLeft - 1 /\ roundsLeft > 0
      /\ UNCHANGED <<targets, claims, planner, callsLeft, ran, facts>>
  BY DEF Plan, catalog, IInv, ModelRoundsLeft
<1>2. TypeOK'
  BY <1>1 DEF TInv, TypeOK
<1>3. (accepted \in Seq(RevocableCall))' /\ CatalogComplete'
  BY <1>1 DEF TInv, CatalogComplete
<1> QED
  BY <1>2, <1>3 DEF TInv

(* Only calls about revocable permissions are accepted.                    *)
LEMMA ScreenTInv == ASSUME TInv, Screen PROVE TInv'
<1> DEFINE Calls == [tool : ToolNames, pid : Nat]
<1>1. /\ requested \in Seq(Calls) /\ requested # <<>> /\ requested' = Tail(requested)
      /\ accepted \in Seq(Calls)
      /\ UNCHANGED <<targets, claims, pc, planner, roundsLeft, callsLeft, ran, facts, stepDone, modelCalls>>
  BY DEF Screen, TInv, TypeOK, catalog, progress
<1> DEFINE call == Head(requested)
<1>2. Tail(requested) \in Seq(Calls) /\ call \in Calls
  <2> HIDE DEF Calls
  <2> QED
    BY <1>1, HeadAndTail
<1>3. accepted \in Seq(RevocableCall)
  BY DEF TInv
<1>4. /\ accepted' \in Seq(RevocableCall) /\ accepted' \in Seq(Calls)
  <2>1. CASE ~MayRun(call)
    BY <1>1, <1>3, <2>1 DEF Screen
  <2>2. CASE MayRun(call)
    <3>1. call \in RevocableCall
      BY <1>2, <2>2 DEF MayRun, RevocableCall
    <3>2. accepted' = Append(accepted, call)
      BY <2>2 DEF Screen
    <3> HIDE DEF call
    <3> QED
      BY <1>1, <1>2, <1>3, <3>1, <3>2
  <2> QED
    BY <2>1, <2>2
<1>5. TypeOK'
  BY <1>1, <1>2, <1>4 DEF TInv, TypeOK
<1> QED
  BY <1>1, <1>4, <1>5 DEF TInv, CatalogComplete, RevocableCall

(* A recorded call was a permission's, and was paid for.                   *)
LEMMA RecordTypes ==
  ASSUME TInv, IInv, NEW call, Record(call)
  PROVE  /\ call \in RevocableCall /\ call.pid \in DOMAIN targets
         /\ accepted' \in Seq(RevocableCall)
         /\ callsLeft' \in Nat
         /\ ran' \subseteq [tool : ToolNames, pid : DOMAIN targets]
<1>1. /\ accepted \in Seq(RevocableCall) /\ accepted # <<>> /\ call = Head(accepted)
      /\ accepted' = Tail(accepted) /\ ran' = ran \cup {call} /\ callsLeft' = callsLeft - 1
  BY DEF TInv, Record
<1>2. call \in RevocableCall /\ accepted' \in Seq(RevocableCall)
  BY <1>1
<1>3. call.pid \in DOMAIN targets /\ call \in [tool : ToolNames, pid : DOMAIN targets]
  BY <1>2, RevocableType DEF TInv, RevocableCall
<1>4. IInv'
  BY RecordIInv
<1> QED
  BY <1>1, <1>2, <1>3, <1>4 DEF TInv, TypeOK, IInv, Counted

(* A result adds claims of kinds there are, and takes none away.           *)
LEMMA ToolTInv ==
  ASSUME TInv, IInv, NEW call, Record(call),
         \/ UNCHANGED claims
         \/ \E kinds \in SUBSET ClaimKind : AddClaims(call.pid, kinds),
         facts' \in [DOMAIN targets -> Facts]
  PROVE  TInv'
<1>1. /\ call.pid \in DOMAIN targets /\ accepted' \in Seq(RevocableCall) /\ callsLeft' \in Nat
      /\ ran' \subseteq [tool : ToolNames, pid : DOMAIN targets]
  BY RecordTypes
<1>2. UNCHANGED <<targets, pc, planner, roundsLeft, requested, stepDone, modelCalls>>
  BY DEF Record
<1>3. call.pid \in 0..Len(targets)
  BY <1>1, RevocableType DEF TInv
<1>4. claims' \subseteq [of : 0..Len(targets), kind : ClaimKind] /\ claims \subseteq claims'
  BY <1>3 DEF AddClaims, Claim, TInv, TypeOK
<1>5. RevocableCall \subseteq [tool : ToolNames, pid : Nat]
  BY RevocableType DEF RevocableCall, TInv
<1>6. accepted' \in Seq([tool : ToolNames, pid : Nat])
  BY <1>1, <1>5, SeqOfMore
<1>7. TypeOK'
  BY <1>1, <1>2, <1>4, <1>6 DEF TInv, TypeOK
<1>8. CatalogComplete'
  BY <1>2, <1>4 DEF TInv, CatalogComplete
<1>9. (accepted \in Seq(RevocableCall))'
  BY <1>1, <1>2 DEF RevocableCall
<1> QED
  BY <1>7, <1>8, <1>9 DEF TInv

(* What a tool found out is one of the facts about its permission.         *)
LEMMA FactsUpdates ==
  ASSUME facts \in [DOMAIN targets -> Facts], NEW pid \in DOMAIN targets
  PROVE  /\ \A p \in AllProfiles :
              /\ [facts EXCEPT ![pid].kind = p.kind, ![pid].proxy = p.proxy, ![pid].drift = p.drift]
                   \in [DOMAIN targets -> Facts]
         /\ \A control \in Controls :
              /\ [facts EXCEPT ![pid].control = control] \in [DOMAIN targets -> Facts]
              /\ \A q \in DOMAIN targets : [facts EXCEPT ![pid].control = control][q].proxy = facts[q].proxy
         /\ \A known \in BOOLEAN :
              /\ [facts EXCEPT ![pid].known = known] \in [DOMAIN targets -> Facts]
              /\ \A q \in DOMAIN targets : [facts EXCEPT ![pid].known = known][q].proxy = facts[q].proxy
<1>1. facts[pid] \in Facts
  OBVIOUS
<1>2. ASSUME NEW p \in AllProfiles
      PROVE  [facts EXCEPT ![pid].kind = p.kind, ![pid].proxy = p.proxy, ![pid].drift = p.drift]
               \in [DOMAIN targets -> Facts]
  BY <1>1 DEF AllProfiles, Facts
<1>3. ASSUME NEW control \in Controls
      PROVE  /\ [facts EXCEPT ![pid].control = control] \in [DOMAIN targets -> Facts]
             /\ \A q \in DOMAIN targets : [facts EXCEPT ![pid].control = control][q].proxy = facts[q].proxy
  BY <1>1 DEF Facts
<1>4. ASSUME NEW known \in BOOLEAN
      PROVE  /\ [facts EXCEPT ![pid].known = known] \in [DOMAIN targets -> Facts]
             /\ \A q \in DOMAIN targets : [facts EXCEPT ![pid].known = known][q].proxy = facts[q].proxy
  BY <1>1 DEF Facts
<1> QED
  BY <1>2, <1>3, <1>4

(* Every step keeps the types and the catalog.                             *)
LEMMA NextTInv == IInv /\ TInv /\ [Next]_iVars => TInv'
<1> SUFFICES ASSUME IInv, TInv, [Next]_iVars PROVE TInv'
  OBVIOUS
<1> USE DEF TInv
<1>1. CASE PlanBaseline
  <2>1. PICK end \in BOOLEAN, calls \in {Take(RoundBudget, Pending)} : Plan(calls, end)
    BY <1>1 DEF PlanBaseline
  <2>2. calls \in Seq([tool : ToolNames, pid : Nat])
    <3>1. PendingCalls \subseteq [tool : ToolNames, pid : Nat]
      BY PendingFacts, RevocableType DEF RevocableCall
    <3>2. Pending \in Seq([tool : ToolNames, pid : Nat])
      BY <3>1, PendingFacts, SeqOfMore
    <3> QED
      BY <2>1, <3>2, RoundBudgetType, TakeFacts
  <2>3. modelCalls' \in Nat
    BY <1>1 DEF PlanBaseline, TypeOK
  <2> QED
    BY <2>1, <2>2, <2>3, PlanTInv
<1>2. CASE PlanModel
  <2>1. modelCalls' \in Nat
    BY <1>2 DEF PlanModel, TypeOK
  <2> QED
    BY <1>2, <2>1, PlanTInv, InvestigationAssumption DEF PlanModel
<1>3. CASE PlanFails
  BY <1>3 DEF PlanFails, TypeOK, CatalogComplete, RevocableCall, catalog, progress
<1>4. CASE Screen
  BY <1>4, ScreenTInv
<1>5. CASE Screened
  BY <1>5 DEF Screened, TypeOK, CatalogComplete, RevocableCall, catalog, progress
<1>6. CASE ToolFails
  BY <1>6, ToolTInv DEF ToolFails, TypeOK
<1>7. CASE SpenderProfile
  <2>1. PICK call \in ToSet(accepted), p \in Profiles :
          /\ Record(call)
          /\ facts' = [facts EXCEPT ![call.pid].kind = p.kind, ![call.pid].proxy = p.proxy,
                                    ![call.pid].drift = p.drift]
          /\ AddClaims(call.pid, {"spender", "drift"})
    BY <1>7 DEF SpenderProfile
  <2>2. p \in AllProfiles /\ call.pid \in DOMAIN targets
    BY <2>1, RecordTypes, InvestigationAssumption
  <2>3. facts' \in [DOMAIN targets -> Facts]
    BY <2>1, <2>2, FactsUpdates DEF TypeOK
  <2>4. {"spender", "drift"} \in SUBSET ClaimKind
    BY ClaimKinds
  <2> QED
    BY <2>1, <2>3, <2>4, ToolTInv
<1>8. CASE UpgradeControl
  <2>1. PICK call \in ToSet(accepted), control \in Controls :
          /\ Record(call)
          /\ facts' = [facts EXCEPT ![call.pid].control = control]
          /\ AddClaims(call.pid, {"control"})
    BY <1>8 DEF UpgradeControl
  <2>2. call.pid \in DOMAIN targets
    BY <2>1, RecordTypes
  <2>3. facts' \in [DOMAIN targets -> Facts]
    BY <2>1, <2>2, FactsUpdates DEF TypeOK
  <2>4. {"control"} \in SUBSET ClaimKind
    BY ClaimKinds
  <2> QED
    BY <2>1, <2>3, <2>4, ToolTInv
<1>9. CASE KnownSpender
  <2>1. PICK call \in ToSet(accepted), match \in BOOLEAN :
          /\ Record(call)
          /\ facts' = [facts EXCEPT ![call.pid].known = match]
          /\ AddClaims(call.pid, {"known"})
    BY <1>9 DEF KnownSpender
  <2>2. call.pid \in DOMAIN targets
    BY <2>1, RecordTypes
  <2>3. facts' \in [DOMAIN targets -> Facts]
    BY <2>1, <2>2, FactsUpdates DEF TypeOK
  <2>4. {"known"} \in SUBSET ClaimKind
    BY ClaimKinds
  <2> QED
    BY <2>1, <2>3, <2>4, ToolTInv
<1>10. CASE RoundEnds
  BY <1>10 DEF RoundEnds, TypeOK, CatalogComplete, RevocableCall, catalog, progress
<1>11. CASE UNCHANGED iVars
  BY <1>11 DEF iVars, TypeOK, CatalogComplete, RevocableCall
<1> QED
  BY <1>1, <1>2, <1>3, <1>4, <1>5, <1>6, <1>7, <1>8, <1>9, <1>10, <1>11
  DEF Next, InvestigationStep, InvestigationOver

(* The investigation keeps its types and the catalog's claims.             *)
THEOREM InvestigationTypes == Spec => []TInv
BY InitTInv, NextTInv, InvestigationInvariant, PTL, InitIInv, NextIInv DEF Spec

(* Whatever is cut off the report, no live permission of the sender's is   *)
(* while anything else stays (distinct_permissions, MAX_TARGETS).          *)
THEOREM SendersFirst == Spec => []SendersLiveKept
<1>1. SendersLiveKept
  BY SendersLiveFirst, InvestigationAssumption DEF SendersLiveKept
<1> QED
  BY <1>1, PTL

---------------------------------------------------------------------------
(* The investigation: the rules leave nothing out.                         *)

(* The calls of this round still to be made, and what will be left.        *)
InRound == ToSet(requested) \cup ToSet(accepted)
Size == Len(requested) + Len(accepted)
LeftOver == PendingCalls \ InRound

(* The calls of the round pass the screen, all of them.                    *)
RoundFits ==
  /\ Size <= RoundBudget
  /\ \A i \in 1..Len(requested) :
       requested[i] \in RevocableCall /\ requested[i] \notin ran \cup ToSet(accepted)
  /\ \A i, j \in 1..Len(requested) : requested[i] = requested[j] => i = j

(* The rounds left are enough: to make all the calls; to do what the       *)
(* profiles of this round may still turn up; or nothing can turn up.       *)
RoundsSuffice ==
  \/ callsLeft - Size <= (roundsLeft - 1) * PerRound
  \/ callsLeft = Size
  \/ /\ roundsLeft >= 1
     /\ \A call \in LeftOver : call.tool = "upgrade_control"
     /\ Cardinality(LeftOver) + Size <= PerRound
  \/ /\ LeftOver = {}
     /\ \A call \in InRound : call.tool # "spender_profile"

ThoroughSoFar ==
  /\ pc = "plan" => callsLeft > 0 /\ accepted = <<>>
  /\ pc # "screen" => requested = <<>>
  /\ pc = "screen" => RoundFits /\ (Size = 0 => PendingCalls = {})
  /\ stepDone /\ pc # "done" => Size = 0 /\ PendingCalls = {}
  /\ pc # "done" => RoundsSuffice
  /\ pc = "done" => PendingCalls = {} \/ callsLeft = 0

ByRules == planner = "baseline" /\ modelCalls = 0
ThInv == ByRules => ThoroughSoFar

(* The numbers the argument below compares.                                *)
LEMMA SizeTypes ==
  ASSUME TInv
  PROVE  /\ Len(requested) \in Nat /\ Len(accepted) \in Nat /\ Size \in Nat
         /\ callsLeft \in Nat /\ roundsLeft \in Nat /\ PerRound \in Nat /\ PerRound > 0
         /\ IsFiniteSet(LeftOver) /\ Cardinality(LeftOver) \in Nat
<1>1. Len(requested) \in Nat /\ Len(accepted) \in Nat
  BY DEF TInv, TypeOK
<1>2. IsFiniteSet(LeftOver)
  BY PendingFacts, FS_Subset DEF TInv, LeftOver
<1>3. PerRound \in Nat /\ PerRound > 0
  BY InvestigationAssumption
<1> QED
  BY <1>1, <1>2, <1>3, FS_CardinalityType DEF TInv, TypeOK, Size

(* One full round less, and one round less to make the calls in.           *)
LEMMA RoundsArithmetic ==
  ASSUME NEW c \in Nat, NEW r \in Nat, NEW p \in Nat, p > 0, c <= (r - 1) * p
  PROVE  /\ r > 0
         /\ c > 0 => r - 1 >= 1
         /\ c - p <= ((r - 1) - 1) * p
<1>1. ((r - 1) - 1) * p = (r - 1) * p - p
  BY Z3
<1>2. r = 0 => (r - 1) * p = -p
  BY Z3
<1>3. r = 1 => (r - 1) * p = 0
  BY Z3
<1>4. (r - 1) * p \in Int
  BY Z3
<1>5. r > 0
  BY <1>2
<1>6. c > 0 => r - 1 >= 1
  BY <1>3, <1>5
<1>7. c - p <= ((r - 1) - 1) * p
  BY <1>1, <1>4
<1> QED
  BY <1>5, <1>6, <1>7

(* At first the rounds suffice to make all the calls.                      *)
LEMMA InitThInv == Init => ThInv
<1> SUFFICES ASSUME NEW by \in {"model", "baseline"}, InvestigationInit(by), TInv, ByRules
             PROVE  ThoroughSoFar
  BY InitTInv DEF Init, ThInv
<1>1. /\ pc = (IF Revocable(targets) = {} THEN "done" ELSE "plan")
      /\ roundsLeft = BaselineRounds /\ callsLeft = MaxCalls
      /\ requested = <<>> /\ accepted = <<>> /\ stepDone = FALSE
  BY DEF InvestigationInit, ByRules
<1>2. Revocable(targets) = {} => PendingCalls = {}
  BY DEF PendingCalls
<1>3. Size = 0
  BY <1>1 DEF Size
<1>4. RoundsSuffice
  BY <1>1, <1>3, InvestigationAssumption, BaselineBudgetAssumption DEF RoundsSuffice
<1> QED
  BY <1>1, <1>2, <1>4, InvestigationAssumption DEF ThoroughSoFar

(* A round of the rules has what is pending, as far as the budget goes.    *)
LEMMA PlanThInv ==
  ASSUME TInv, ThInv, ByRules, TInv',
         NEW end \in BOOLEAN, NEW calls, BaselineStep(calls, end), Plan(calls, end)
  PROVE  ThoroughSoFar'
<1> DEFINE n == Len(calls)
<1>1. /\ pc = "plan" /\ pc' = "screen"
      /\ requested' = calls /\ accepted' = <<>> /\ stepDone' = end
      /\ roundsLeft' = roundsLeft - 1
      /\ UNCHANGED <<targets, ran, facts, callsLeft>>
  BY DEF Plan, catalog
<1>2. callsLeft > 0 /\ accepted = <<>> /\ requested = <<>> /\ RoundsSuffice
  BY <1>1 DEF ThInv, ThoroughSoFar
<1>3. /\ PendingCalls' = PendingCalls /\ RoundBudget' = RoundBudget
      /\ RevocableCall' = RevocableCall
  BY <1>1 DEF PendingCalls, Wanted, RoundBudget, RevocableCall
<1>4. calls = Take(RoundBudget, Pending) /\ end = (Pending = <<>>)
  BY DEF BaselineStep
<1>5. /\ RoundBudget \in Nat /\ RoundBudget > 0
      /\ RoundBudget <= PerRound /\ RoundBudget <= callsLeft
      /\ RoundBudget = PerRound \/ RoundBudget = callsLeft
  BY <1>2, RoundBudgetType, SizeTypes DEF TInv
<1>6. /\ Pending \in Seq(PendingCalls) /\ Len(Pending) = Cardinality(PendingCalls)
      /\ Cardinality(PendingCalls) \in Nat
      /\ PendingCalls \in SUBSET RevocableCall
      /\ \A call \in PendingCalls : \E i \in 1..Len(Pending) : Pending[i] = call
      /\ \A i, j \in 1..Len(Pending) : Pending[i] = Pending[j] => i = j
      /\ Pending = <<>> <=> PendingCalls = {}
  BY PendingFacts DEF TInv
<1>7. /\ n = IF RoundBudget < Len(Pending) THEN RoundBudget ELSE Len(Pending)
      /\ calls \in Seq(PendingCalls)
      /\ \A i \in 1..n : calls[i] = Pending[i]
  BY <1>4, <1>5, <1>6, TakeFacts
<1>8. n \in Nat /\ n <= RoundBudget /\ n <= Len(Pending)
  BY <1>5, <1>6, <1>7
<1>9. Size' = n
  BY <1>1, <1>8 DEF Size
<1>10. InRound' = ToSet(calls)
  BY <1>1 DEF InRound, ToSet
<1> HIDE DEF n
<1>11. n = 0 => PendingCalls = {}
  BY <1>5, <1>6, <1>7
<1>12. Pending = <<>> => n = 0
  BY <1>6, <1>8
<1>13. RoundFits'
  <2>1. ASSUME NEW i \in 1..n
        PROVE  calls[i] \in RevocableCall /\ calls[i] \notin ran
    <3>1. calls[i] \in PendingCalls
      BY <1>7 DEF n
    <3> QED
      BY <1>6, <3>1 DEF PendingCalls
  <2>2. \A i, j \in 1..n : calls[i] = calls[j] => i = j
    <3>1. \A i \in 1..n : i \in 1..Len(Pending)
      BY <1>6, <1>8
    <3> QED
      BY <1>6, <1>7, <3>1
  <2>3. ToSet(accepted') = {}
    BY <1>1 DEF ToSet
  <2> QED
    BY <1>1, <1>3, <1>8, <1>9, <2>1, <2>2, <2>3 DEF RoundFits, n
<1>14. n = Len(Pending) => LeftOver' = {}
  <2> SUFFICES ASSUME n = Len(Pending), NEW call \in PendingCalls PROVE call \in ToSet(calls)
    BY <1>3, <1>10 DEF LeftOver
  <2>1. PICK i \in 1..Len(Pending) : Pending[i] = call
    BY <1>6
  <2>2. i \in DOMAIN calls /\ calls[i] = call
    BY <1>7, <2>1 DEF n
  <2> QED
    BY <2>2 DEF ToSet
<1>15. RoundsSuffice'
  <2>1. /\ callsLeft \in Nat /\ roundsLeft \in Nat /\ PerRound \in Nat /\ PerRound > 0
        /\ callsLeft' = callsLeft /\ roundsLeft' = roundsLeft - 1 /\ roundsLeft' \in Nat
    BY <1>1, SizeTypes DEF TInv, TypeOK
  <2>2. Size = 0 /\ InRound = {} /\ LeftOver = PendingCalls
    BY <1>2 DEF Size, InRound, LeftOver, ToSet
  <2>3. CASE n = callsLeft
    BY <1>9, <2>1, <2>3 DEF RoundsSuffice
  <2>4. CASE n # callsLeft /\ callsLeft <= (roundsLeft - 1) * PerRound
    <3>1. /\ roundsLeft - 1 >= 1
          /\ callsLeft - PerRound <= ((roundsLeft - 1) - 1) * PerRound
      BY <1>2, <2>1, <2>4, RoundsArithmetic
    <3>2. CASE n = PerRound
      BY <1>9, <2>1, <3>1, <3>2 DEF RoundsSuffice
    <3>3. CASE n # PerRound
      <4>1. n = Len(Pending)
        BY <1>5, <1>7, <2>4, <3>3
      <4>2. LeftOver' = {} /\ Cardinality({}) = 0
        BY <1>14, <4>1, FS_EmptySet
      <4>3. n <= PerRound
        BY <1>5, <1>8, <2>1
      <4>4. /\ roundsLeft' >= 1
            /\ \A call \in LeftOver' : call.tool = "upgrade_control"
            /\ Cardinality(LeftOver') + Size' <= PerRound
        BY <1>8, <1>9, <2>1, <3>1, <4>2, <4>3
      <4> QED
        BY <4>4 DEF RoundsSuffice
    <3> QED
      BY <3>2, <3>3
  <2>5. CASE /\ n # callsLeft
             /\ \A call \in PendingCalls : call.tool = "upgrade_control"
             /\ Cardinality(PendingCalls) <= PerRound
    <3>1. n = Len(Pending)
      BY <1>5, <1>6, <1>7, <2>1, <2>5
    <3>2. \A call \in ToSet(calls) : call.tool # "spender_profile"
      BY <1>7, <2>5 DEF ToSet
    <3>3. LeftOver' = {}
      BY <1>14, <3>1
    <3> QED
      BY <1>10, <3>2, <3>3 DEF RoundsSuffice
  <2>6. CASE PendingCalls = {}
    <3>1. calls = <<>>
      BY <1>7, <2>6
    <3>2. InRound' = {} /\ LeftOver' = {}
      BY <1>3, <1>10, <2>6, <3>1 DEF LeftOver, ToSet
    <3> QED
      BY <3>2 DEF RoundsSuffice
  <2>7. \/ callsLeft <= (roundsLeft - 1) * PerRound
        \/ /\ \A call \in PendingCalls : call.tool = "upgrade_control"
           /\ Cardinality(PendingCalls) <= PerRound
        \/ PendingCalls = {}
    <3>1. callsLeft - Size = callsLeft /\ callsLeft # Size
      BY <1>2, <2>1, <2>2
    <3>2. Cardinality(LeftOver) + Size = Cardinality(PendingCalls)
      BY <1>6, <2>2
    <3> QED
      BY <1>2, <2>2, <3>1, <3>2 DEF RoundsSuffice
  <2> QED
    BY <2>3, <2>4, <2>5, <2>6, <2>7
<1> QED
  BY <1>1, <1>3, <1>4, <1>6, <1>9, <1>11, <1>12, <1>13, <1>15 DEF ThoroughSoFar

(* Every call of the rules passes the screen.                              *)
LEMMA ScreenThInv ==
  ASSUME TInv, ThInv, ByRules, Screen, TInv'
  PROVE  ThoroughSoFar'
<1> DEFINE call == Head(requested)
           Calls == [tool : ToolNames, pid : Nat]
<1>1. /\ pc = "screen" /\ pc' = "screen" /\ requested # <<>> /\ requested' = Tail(requested)
      /\ UNCHANGED <<targets, ran, facts, callsLeft, roundsLeft, stepDone>>
  BY DEF Screen, catalog, progress
<1>2. RoundFits /\ RoundsSuffice /\ (stepDone => Size = 0)
  BY <1>1 DEF ThInv, ThoroughSoFar
<1>3. requested \in Seq(Calls) /\ accepted \in Seq(Calls)
  BY DEF TInv, TypeOK
<1> HIDE DEF Calls
<1>4. /\ Len(requested) \in Nat /\ Len(accepted) \in Nat /\ Len(requested) > 0
      /\ call = requested[1]
      /\ call \in Calls /\ Tail(requested) \in Seq(Calls) /\ Len(Tail(requested)) = Len(requested) - 1
      /\ \A i \in 1..Len(Tail(requested)) : Tail(requested)[i] = requested[i + 1]
  BY <1>1, <1>3, HeadAndTail
<1>5. 1 \in 1..Len(requested) /\ \A i \in 1..Len(Tail(requested)) : i + 1 \in 1..Len(requested) /\ i + 1 # 1
  BY <1>4
<1>6. MayRun(call)
  <2>1. call.pid \in Revocable(targets) /\ call \notin ran /\ call \notin ToSet(accepted)
    BY <1>2, <1>4, <1>5 DEF RoundFits, RevocableCall
  <2>2. Len(accepted) < RoundBudget
    BY <1>2, <1>4, RoundBudgetType DEF RoundFits, Size, TInv
  <2> QED
    BY <2>1, <2>2 DEF MayRun
<1>7. accepted' = Append(accepted, call)
  BY <1>6 DEF Screen
<1> HIDE DEF call
<1>8. /\ Len(accepted') = Len(accepted) + 1
      /\ \A i \in 1..Len(accepted) : accepted'[i] = accepted[i]
      /\ accepted'[Len(accepted) + 1] = call
      /\ DOMAIN accepted' = 1..(Len(accepted) + 1) /\ DOMAIN accepted = 1..Len(accepted)
  BY <1>3, <1>4, <1>7
<1>9. ToSet(accepted') = ToSet(accepted) \cup {call}
  <2>1. \A i \in 1..(Len(accepted) + 1) : i \in 1..Len(accepted) \/ i = Len(accepted) + 1
    BY <1>4
  <2>2. Len(accepted) + 1 \in 1..(Len(accepted) + 1) /\ \A i \in 1..Len(accepted) : i \in 1..(Len(accepted) + 1)
    BY <1>4
  <2> QED
    BY <1>8, <2>1, <2>2 DEF ToSet
<1>10. ToSet(requested) = ToSet(requested') \cup {call}
  <2>1. DOMAIN requested = 1..Len(requested) /\ DOMAIN requested' = 1..Len(requested')
    BY <1>1, <1>3, <1>4
  <2>2. ASSUME NEW i \in 1..Len(requested) PROVE i = 1 \/ (i - 1 \in 1..Len(Tail(requested)) /\ (i - 1) + 1 = i)
    BY <1>4
  <2>3. ASSUME NEW x \in ToSet(requested) PROVE x \in ToSet(requested') \cup {call}
    <3>1. PICK i \in 1..Len(requested) : x = requested[i]
      BY <2>1, <2>3 DEF ToSet
    <3>2. CASE i = 1
      BY <1>4, <3>1, <3>2
    <3>3. CASE i # 1
      <4>1. i - 1 \in 1..Len(Tail(requested)) /\ Tail(requested)[i - 1] = x
        BY <1>4, <2>2, <3>1, <3>3
      <4> QED
        BY <1>1, <2>1, <4>1 DEF ToSet
    <3> QED
      BY <3>2, <3>3
  <2>4. ASSUME NEW x \in ToSet(requested') PROVE x \in ToSet(requested)
    BY <1>1, <1>4, <1>5, <2>1, <2>4 DEF ToSet
  <2>5. call \in ToSet(requested)
    BY <1>4, <1>5, <2>1 DEF ToSet
  <2> QED
    BY <2>3, <2>4, <2>5
<1>11. InRound' = InRound
  BY <1>9, <1>10 DEF InRound
<1>12. Size' = Size /\ Size > 0
  BY <1>1, <1>4, <1>8 DEF Size
<1>13. PendingCalls' = PendingCalls /\ RoundBudget' = RoundBudget /\ RevocableCall' = RevocableCall
  BY <1>1 DEF PendingCalls, Wanted, RoundBudget, RevocableCall
<1>14. RoundFits'
  <2>1. ASSUME NEW i \in 1..Len(Tail(requested))
        PROVE  /\ Tail(requested)[i] \in RevocableCall
               /\ Tail(requested)[i] \notin ran \cup ToSet(accepted) \cup {call}
    BY <1>2, <1>4, <1>5 DEF RoundFits
  <2>2. ASSUME NEW i \in 1..Len(Tail(requested)), NEW j \in 1..Len(Tail(requested)),
               Tail(requested)[i] = Tail(requested)[j]
        PROVE  i = j
    <3>1. i + 1 = j + 1
      BY <1>2, <1>4, <1>5, <2>2 DEF RoundFits
    <3> QED
      BY <3>1
  <2> QED
    BY <1>1, <1>2, <1>9, <1>12, <1>13, <2>1, <2>2 DEF RoundFits
<1>15. RoundsSuffice'
  BY <1>1, <1>2, <1>11, <1>12, <1>13 DEF RoundsSuffice, LeftOver
<1> QED
  BY <1>1, <1>2, <1>12, <1>13, <1>14, <1>15 DEF ThoroughSoFar

(* What becomes pending when a result is recorded: the control of a proxy  *)
(* the profile found.                                                      *)
LEMMA PendingAfter ==
  ASSUME NEW call, Record(call),
         \A q \in Revocable(targets) : facts'[q].proxy =>
           facts[q].proxy \/ (q = call.pid /\ call.tool = "spender_profile")
  PROVE  PendingCalls' \subseteq (PendingCalls \ {call}) \cup
           {c \in {Call("upgrade_control", call.pid)} : call.tool = "spender_profile"}
<1>1. ran' = ran \cup {call} /\ targets' = targets
  BY DEF Record
<1> SUFFICES ASSUME NEW c \in PendingCalls'
             PROVE  c \in (PendingCalls \ {call}) \cup
                      {x \in {Call("upgrade_control", call.pid)} : call.tool = "spender_profile"}
  OBVIOUS
<1>2. PICK pid \in Revocable(targets) : c \in Wanted(pid)' /\ c \notin ran'
  BY <1>1 DEF PendingCalls
<1>3. c \notin ran /\ c # call
  BY <1>1, <1>2
<1>4. CASE c \in Wanted(pid)
  BY <1>3, <1>4 DEF PendingCalls
<1>5. CASE c \notin Wanted(pid)
  <2>1. c = Call("upgrade_control", pid) /\ facts'[pid].proxy /\ ~facts[pid].proxy
    BY <1>2, <1>5 DEF Wanted
  <2> QED
    BY <2>1
<1> QED
  BY <1>4, <1>5

(* A result leaves as much to do as before, or makes one call pending      *)
(* that takes the place of the one just made.                              *)
LEMMA RecordThInv ==
  ASSUME TInv, ThInv, IInv, ByRules, TInv', NEW call, Record(call),
         \A q \in Revocable(targets) : facts'[q].proxy =>
           facts[q].proxy \/ (q = call.pid /\ call.tool = "spender_profile")
  PROVE  ThoroughSoFar'
<1> DEFINE new == {c \in {Call("upgrade_control", call.pid)} : call.tool = "spender_profile"}
<1>1. /\ pc = "tools" /\ pc' = "tools" /\ accepted # <<>> /\ call = Head(accepted)
      /\ accepted' = Tail(accepted) /\ callsLeft' = callsLeft - 1
      /\ UNCHANGED <<roundsLeft, requested, stepDone>>
  BY DEF Record
<1>2. requested = <<>> /\ RoundsSuffice /\ (stepDone => Size = 0)
  BY <1>1 DEF ThInv, ThoroughSoFar
<1>3. accepted \in Seq(RevocableCall)
  BY DEF TInv
<1>4. /\ Len(accepted) \in Nat /\ Len(accepted) > 0
      /\ Len(accepted') = Len(accepted) - 1
      /\ \A i \in 1..Len(accepted') : accepted'[i] = accepted[i + 1]
      /\ call = accepted[1]
      /\ DOMAIN accepted = 1..Len(accepted) /\ DOMAIN accepted' = 1..Len(accepted')
  BY <1>1, <1>3, HeadAndTail
<1>5. Size = Len(accepted) /\ Size' = Size - 1 /\ Size > 0
  BY <1>1, <1>2, <1>4 DEF Size
<1>6. InRound = InRound' \cup {call}
  <2>1. InRound = ToSet(accepted) /\ InRound' = ToSet(accepted')
    BY <1>1, <1>2 DEF InRound, ToSet
  <2>2. ASSUME NEW x \in ToSet(accepted) PROVE x \in ToSet(accepted') \cup {call}
    <3>1. PICK i \in 1..Len(accepted) : x = accepted[i]
      BY <1>4, <2>2 DEF ToSet
    <3>2. CASE i = 1
      BY <1>4, <3>1, <3>2
    <3>3. CASE i # 1
      <4>1. i - 1 \in 1..Len(accepted') /\ (i - 1) + 1 = i
        BY <1>4, <3>3
      <4>2. accepted'[i - 1] = x
        BY <1>4, <3>1, <4>1
      <4> QED
        BY <1>4, <4>1, <4>2 DEF ToSet
    <3> QED
      BY <3>2, <3>3
  <2>3. \A i \in 1..Len(accepted') : i + 1 \in 1..Len(accepted)
    BY <1>4
  <2>4. ToSet(accepted') \cup {call} \subseteq ToSet(accepted)
    <3>1. 1 \in 1..Len(accepted)
      BY <1>4
    <3> QED
      BY <1>4, <2>3, <3>1 DEF ToSet
  <2> QED
    BY <2>1, <2>2, <2>4
<1>7. PendingCalls' \subseteq (PendingCalls \ {call}) \cup new
  BY PendingAfter
<1>8. LeftOver' \subseteq LeftOver \cup new
  BY <1>6, <1>7 DEF LeftOver
<1>9. /\ callsLeft \in Nat /\ roundsLeft \in Nat /\ PerRound \in Nat /\ Size \in Nat
      /\ IsFiniteSet(LeftOver) /\ Cardinality(LeftOver) \in Nat
  BY SizeTypes
<1>10. RoundsSuffice'
  <2>1. CASE callsLeft - Size <= (roundsLeft - 1) * PerRound
    <3>1. callsLeft' - Size' = callsLeft - Size
      BY <1>1, <1>5, <1>9
    <3> QED
      BY <1>1, <2>1, <3>1 DEF RoundsSuffice
  <2>2. CASE callsLeft = Size
    BY <1>1, <1>5, <1>9, <2>2 DEF RoundsSuffice
  <2>3. CASE /\ roundsLeft >= 1
             /\ \A c \in LeftOver : c.tool = "upgrade_control"
             /\ Cardinality(LeftOver) + Size <= PerRound
    <3> DEFINE up == Call("upgrade_control", call.pid)
    <3>1. \A c \in LeftOver' : c.tool = "upgrade_control"
      BY <1>8, <2>3 DEF Call
    <3>2. LeftOver' \subseteq LeftOver \cup {up}
      BY <1>8
    <3>3. /\ IsFiniteSet(LeftOver \cup {up})
          /\ Cardinality(LeftOver \cup {up}) \in Nat
          /\ Cardinality(LeftOver \cup {up}) <= Cardinality(LeftOver) + 1
      <4>1. CASE up \in LeftOver
        <5>1. LeftOver \cup {up} = LeftOver
          BY <4>1
        <5> QED
          BY <1>9, <5>1
      <4>2. CASE up \notin LeftOver
        BY <1>9, <4>2, FS_AddElement
      <4> QED
        BY <4>1, <4>2
    <3>4. /\ Cardinality(LeftOver') \in Nat
          /\ Cardinality(LeftOver') <= Cardinality(LeftOver \cup {up})
      BY <3>2, <3>3, FS_Subset, FS_CardinalityType
    <3>5. Cardinality(LeftOver') + Size' <= PerRound
      BY <1>5, <1>9, <2>3, <3>3, <3>4
    <3> QED
      BY <1>1, <2>3, <3>1, <3>5 DEF RoundsSuffice
  <2>4. CASE LeftOver = {} /\ \A c \in InRound : c.tool # "spender_profile"
    <3>1. new = {}
      BY <1>6, <2>4
    <3>2. LeftOver' = {} /\ \A c \in InRound' : c.tool # "spender_profile"
      BY <1>6, <1>8, <2>4, <3>1
    <3> QED
      BY <3>2 DEF RoundsSuffice
  <2> QED
    BY <1>2, <2>1, <2>2, <2>3, <2>4 DEF RoundsSuffice
<1> QED
  BY <1>1, <1>2, <1>5, <1>9, <1>10 DEF ThoroughSoFar

(* The end of a round: done only when nothing more can be done.            *)
LEMMA EndThInv ==
  ASSUME TInv, ThInv, ByRules, TInv', Screened \/ RoundEnds
  PROVE  ThoroughSoFar'
<1>1. UNCHANGED <<targets, roundsLeft, callsLeft, ran, facts, requested, accepted, stepDone>>
  BY DEF Screened, RoundEnds, catalog, progress
<1>2. requested = <<>> /\ RoundsSuffice /\ pc \in {"screen", "tools"}
  BY DEF Screened, RoundEnds, ThInv, ThoroughSoFar
<1>3. PendingCalls' = PendingCalls /\ Size' = Size /\ LeftOver' = LeftOver /\ InRound' = InRound
  BY <1>1 DEF PendingCalls, Wanted, Size, LeftOver, InRound
<1>4. RoundsSuffice'
  BY <1>1, <1>2, <1>3 DEF RoundsSuffice
<1>5. stepDone => Size = 0 /\ PendingCalls = {}
  BY <1>2 DEF ThInv, ThoroughSoFar
<1>6. accepted = <<>> => Size = 0 /\ InRound = {}
  BY <1>2 DEF Size, InRound, ToSet
<1>7. CASE Screened
  <2>1. pc = "screen" /\ pc' = (IF accepted = <<>> THEN "done" ELSE "tools")
    BY <1>7 DEF Screened
  <2>2. accepted = <<>> => PendingCalls = {}
    BY <1>6, <2>1 DEF ThInv, ThoroughSoFar
  <2> QED
    BY <1>1, <1>2, <1>3, <1>4, <1>5, <2>1, <2>2 DEF ThoroughSoFar
<1>8. CASE RoundEnds
  <2>1. /\ accepted = <<>>
        /\ pc' = IF stepDone \/ roundsLeft = 0 \/ callsLeft = 0 THEN "done" ELSE "plan"
    BY <1>8 DEF RoundEnds
  <2>2. callsLeft \in Nat /\ roundsLeft \in Nat /\ PerRound \in Nat /\ PerRound > 0
    BY SizeTypes
  <2>3. roundsLeft = 0 => PendingCalls = {} \/ callsLeft = 0
    <3>1. callsLeft - Size = callsLeft
      BY <1>6, <2>1, <2>2
    <3>2. roundsLeft = 0 => ~(callsLeft <= (roundsLeft - 1) * PerRound)
      BY <2>2, RoundsArithmetic
    <3> QED
      BY <1>2, <1>6, <2>1, <2>2, <3>1, <3>2 DEF RoundsSuffice, LeftOver
  <2> QED
    BY <1>1, <1>2, <1>3, <1>4, <1>5, <1>6, <2>1, <2>2, <2>3 DEF ThoroughSoFar, TInv, TypeOK
<1> QED
  BY <1>7, <1>8

(* Every step of the rules keeps the rounds sufficient.                    *)
LEMMA NextThInv == IInv /\ TInv /\ ThInv /\ [Next]_iVars => ThInv'
<1> SUFFICES ASSUME IInv, TInv, ThInv, [Next]_iVars, ByRules' PROVE ThoroughSoFar'
  BY DEF ThInv
<1>1. TInv'
  BY NextTInv
<1>2. modelCalls \in Nat
  BY DEF TInv, TypeOK
<1>3. CASE PlanBaseline
  <2>1. ByRules
    BY <1>3 DEF PlanBaseline, ByRules
  <2> QED
    BY <1>1, <1>3, <2>1, PlanThInv DEF PlanBaseline
<1>4. CASE PlanModel \/ PlanFails
  BY <1>2, <1>4 DEF PlanModel, PlanFails, ByRules
<1>5. CASE Screen
  <2>1. ByRules
    BY <1>5 DEF Screen, ByRules
  <2> QED
    BY <1>1, <1>5, <2>1, ScreenThInv
<1>6. CASE Screened \/ RoundEnds
  <2>1. ByRules
    BY <1>6 DEF Screened, RoundEnds, ByRules
  <2> QED
    BY <1>1, <1>6, <2>1, EndThInv
<1>7. ASSUME NEW call, Record(call) PROVE ByRules
  BY <1>7 DEF Record, ByRules
<1>8. Revocable(targets) \subseteq DOMAIN targets /\ facts \in [DOMAIN targets -> Facts]
  BY RevocableType DEF TInv, TypeOK
<1>9. CASE ToolFails
  <2>1. PICK call : Record(call) /\ facts' = facts
    BY <1>9 DEF ToolFails
  <2> QED
    BY <1>1, <1>7, <2>1, RecordThInv
<1>10. CASE SpenderProfile
  <2>1. PICK call \in ToSet(accepted), p \in Profiles :
          /\ call.tool = "spender_profile" /\ Record(call)
          /\ facts' = [facts EXCEPT ![call.pid].kind = p.kind, ![call.pid].proxy = p.proxy,
                                    ![call.pid].drift = p.drift]
    BY <1>10 DEF SpenderProfile
  <2>2. \A q \in Revocable(targets) : facts'[q].proxy =>
          facts[q].proxy \/ (q = call.pid /\ call.tool = "spender_profile")
    BY <1>8, <2>1
  <2> QED
    BY <1>1, <1>7, <2>1, <2>2, RecordThInv
<1>11. CASE UpgradeControl
  <2>1. PICK call \in ToSet(accepted), control \in Controls :
          Record(call) /\ facts' = [facts EXCEPT ![call.pid].control = control]
    BY <1>11 DEF UpgradeControl
  <2>2. call.pid \in DOMAIN targets
    BY <2>1, RecordTypes
  <2>3. \A q \in DOMAIN targets : [facts EXCEPT ![call.pid].control = control][q].proxy = facts[q].proxy
    BY <1>8, <2>2, FactsUpdates
  <2>4. \A q \in Revocable(targets) : facts'[q].proxy = facts[q].proxy
    BY <1>8, <2>1, <2>3
  <2> QED
    BY <1>1, <1>7, <2>1, <2>4, RecordThInv
<1>12. CASE KnownSpender
  <2>1. PICK call \in ToSet(accepted), match \in BOOLEAN :
          Record(call) /\ facts' = [facts EXCEPT ![call.pid].known = match]
    BY <1>12 DEF KnownSpender
  <2>2. call.pid \in DOMAIN targets
    BY <2>1, RecordTypes
  <2>3. \A q \in Revocable(targets) : facts'[q].proxy = facts[q].proxy
    BY <1>8, <2>1, <2>2, FactsUpdates
  <2> QED
    BY <1>1, <1>7, <2>1, <2>3, RecordThInv
<1>13. CASE UNCHANGED iVars
  BY <1>13 DEF iVars, ByRules, ThInv, ThoroughSoFar, RoundFits, RoundsSuffice, PendingCalls, Wanted,
               Size, LeftOver, InRound, RoundBudget, RevocableCall
<1> QED
  BY <1>3, <1>4, <1>5, <1>6, <1>9, <1>10, <1>11, <1>12, <1>13
  DEF Next, InvestigationStep, InvestigationOver

(* An investigation the rules planned from the start stops with nothing    *)
(* left to check that it wants, or with all its calls made.                *)
THEOREM RulesAreThorough == Spec => []Thorough
<1>1. TInv /\ ThInv => Thorough
  BY PendingFacts DEF TInv, ThInv, ByRules, ThoroughSoFar, Thorough
<1>2. Spec => [](IInv /\ TInv /\ ThInv)
  BY InitIInv, InitTInv, InitThInv, NextIInv, NextTInv, NextThInv, PTL DEF Spec
<1> QED
  BY <1>1, <1>2, PTL

---------------------------------------------------------------------------
(* From the catalog to the briefing.                                       *)

(* The interpretation starts an investigation, by either planner.          *)
LEMMA InterpretationInvestigatesInit == InterpretationInit => Init
<1> SUFFICES ASSUME InterpretationInit PROVE Init
  OBVIOUS
<1>1. FirstPlanner \in {"model", "baseline"} /\ InvestigationInit(FirstPlanner)
  BY DEF InterpretationInit, FirstPlanner
<1> HIDE DEF FirstPlanner
<1>2. \E e \in Exposures : targets = Targets(e)
  BY DEF InterpretationInit
<1> QED
  BY <1>1, <1>2 DEF Init

(* Its steps are the investigation's, or leave it alone.                   *)
LEMMA InterpretationInvestigatesStep == [InterpretationNext]_vars => [Next]_iVars
<1> SUFFICES ASSUME [InterpretationNext]_vars PROVE [Next]_iVars
  OBVIOUS
<1>1. CASE Investigate
  BY <1>1 DEF Investigate, Next
<1>2. CASE BriefingStep
  BY <1>2 DEF BriefingStep, Investigated, Accept, Reject, FormatFailure, ProviderFailure, Write, Label
<1>3. CASE UNCHANGED vars
  BY <1>3 DEF vars
<1> QED
  BY <1>1, <1>2, <1>3 DEF InterpretationNext

(* The briefing's steps leave the investigation alone: everything proved   *)
(* of the investigation holds of the whole interpretation.                 *)
THEOREM InterpretationInvestigates == InterpretationSpec => Spec
BY InterpretationInvestigatesInit, InterpretationInvestigatesStep, PTL
DEF InterpretationSpec, Spec

(* The budgets, the order and the thoroughness of an investigation hold    *)
(* also while a briefing is written about it, retried or given up.         *)
THEOREM BriefedInvestigation ==
  InterpretationSpec => [](WithinBudget /\ ModelCallsBounded /\ SendersLiveKept /\ Thorough)
BY InterpretationInvestigates, BudgetIsKept, ModelIsAskedRarely, SendersFirst, RulesAreThorough,
   PTL

(* A model is only asked when it is configured and budgeted for, and only  *)
(* about what a finished investigation found; whoever wrote, what is       *)
(* written is well founded; and without the model there is a reason.       *)
BInvTypes ==
  /\ phase \in {"investigate", "brief", "write", "label", "done"}
  /\ attempt \in 1..3
  /\ author \in {"none", "model", "baseline"}
  /\ llm \in BOOLEAN
  /\ selection \in AgentSelection

WhoWrites ==
  /\ llm => settings.key /\ settings.model /\ reserved /\ useModel
  /\ phase \in {"investigate", "brief"} => author = "none"
  /\ phase = "investigate" => attempt = 1
  /\ phase = "brief" => llm /\ attempt < 3
  /\ phase \in {"label", "done"} => author # "none"
  /\ author = "baseline" => phase \in {"label", "done"}
  /\ author = "model" => llm

WhatIsWritten ==
  author # "none" => WellFounded(selection, targets, claims)

Why ==
  /\ phase = "investigate" /\ ~llm => reason # "none"
  /\ phase = "write" /\ author = "none" => reason # "none"
  /\ phase \in {"label", "done"} => (author = "model" <=> reason = "none")

BInv == BInvTypes /\ WhoWrites /\ WhatIsWritten /\ Why

(* Nothing is written at first, and a missing model has its reason.        *)
LEMMA InitBInv == InterpretationInit => BInv
<1> SUFFICES ASSUME InterpretationInit PROVE BInv
  OBVIOUS
<1>1. NoSelection \in AgentSelection
  BY TuplesAreSequences DEF NoSelection, AgentSelection
<1>2. BInvTypes
  <2>1. phase = "investigate" /\ attempt = 1 /\ author = "none" /\ selection = NoSelection
    BY DEF InterpretationInit
  <2>2. llm \in BOOLEAN
    BY Zenon DEF InterpretationInit
  <2> QED
    BY <1>1, <2>1, <2>2 DEF BInvTypes
<1>3. WhoWrites
  BY DEF InterpretationInit, WhoWrites
<1>4. WhatIsWritten /\ Why
  BY DEF InterpretationInit, WhatIsWritten, Why
<1> QED
  BY <1>2, <1>3, <1>4 DEF BInv

(* The catalog, as the briefing reads it.                                  *)
LEMMA CatalogTypes ==
  ASSUME TInv
  PROVE  /\ targets \in Seq(Permission) /\ claims \in SUBSET ClaimId
         /\ \A i \in DOMAIN targets : Claim(i, "self") \in claims
         /\ TxWide("status") \in claims
<1>1. targets \in Seq(Permission) /\ claims \subseteq [of : 0..Len(targets), kind : ClaimKind]
  BY DEF TInv, TypeOK
<1>2. 0..Len(targets) \subseteq Nat
  BY <1>1
<1> QED
  BY <1>1, <1>2 DEF ClaimId, TInv, CatalogComplete

(* Every step keeps who writes, what and why.                              *)
LEMMA NextBInv == TInv /\ BInv /\ [InterpretationNext]_vars => BInv'
<1> SUFFICES ASSUME TInv, BInv, [InterpretationNext]_vars PROVE BInv'
  OBVIOUS
<1> USE DEF BInv
<1>1. CASE Investigate
  <2>1. phase = "investigate" /\ UNCHANGED bVars
    BY <1>1 DEF Investigate
  <2> QED
    BY <2>1 DEF bVars, BInvTypes, WhoWrites, WhatIsWritten, Why
<1>2. CASE Investigated
  <2>1. /\ phase = "investigate" /\ phase' = (IF llm THEN "brief" ELSE "write")
        /\ UNCHANGED <<targets, claims, settings, reserved, useModel, llm, attempt, reason, author, selection>>
    BY <1>2 DEF Investigated, iVars
  <2> QED
    BY <2>1 DEF BInvTypes, WhoWrites, WhatIsWritten, Why
<1>3. CASE Accept
  <2>1. PICK draft \in Drafts : ~Rejected(draft, targets, claims) /\ selection' = Selection(draft)
    BY <1>3 DEF Accept
  <2>2. /\ phase = "brief" /\ author' = "model" /\ phase' = "write"
        /\ UNCHANGED <<targets, claims, settings, reserved, useModel, llm, attempt, reason>>
    BY <1>3 DEF Accept, iVars
  <2>3. selection' \in AgentSelection /\ WellFounded(selection', targets, claims)
    BY <2>1, InterpretationAssumption, CatalogTypes, ValidatedIsWellFounded
  <2>4. BInvTypes' /\ WhoWrites' /\ Why'
    BY <2>2, <2>3 DEF BInvTypes, WhoWrites, Why
  <2>5. WhatIsWritten'
    BY <2>2, <2>3 DEF WhatIsWritten
  <2> QED
    BY <2>4, <2>5
<1>4. CASE Reject \/ FormatFailure \/ ProviderFailure
  <2>1. /\ phase = "brief" /\ reason' # "none"
        /\ \/ phase' = (IF attempt < 2 THEN "brief" ELSE "write") /\ attempt' = attempt + 1
           \/ phase' = "write" /\ attempt' = attempt
        /\ UNCHANGED <<targets, claims, settings, reserved, useModel, llm, author, selection>>
    BY <1>4 DEF Reject, FormatFailure, ProviderFailure, TryAgain, iVars
  <2> QED
    BY <2>1 DEF BInvTypes, WhoWrites, WhatIsWritten, Why
<1>5. CASE Write
  <2>1. /\ phase = "write" /\ phase' = "label"
        /\ UNCHANGED <<targets, claims, settings, reserved, useModel, llm, attempt>>
    BY <1>5 DEF Write, iVars
  <2>2. CASE author = "model" /\ reason' = "none" /\ UNCHANGED <<author, selection>>
    BY <2>1, <2>2 DEF BInvTypes, WhoWrites, WhatIsWritten, Why
  <2>3. CASE /\ author # "model" /\ author' = "baseline" /\ UNCHANGED reason
             /\ selection' = Selection(BaselineBrief(targets, claims, facts))
    <3> DEFINE brief == BaselineBrief(targets, claims, facts)
    <3>1. brief \in ReportDraft /\ ~Rejected(brief, targets, claims)
      BY CatalogTypes, BaselineIsAccepted
    <3> HIDE DEF brief
    <3>2. selection' \in AgentSelection /\ WellFounded(selection', targets, claims)
      BY <2>3, <3>1, CatalogTypes, ValidatedIsWellFounded DEF brief
    <3>3. BInvTypes' /\ WhoWrites' /\ Why'
      BY <2>1, <2>3, <3>2 DEF BInvTypes, WhoWrites, Why
    <3>4. WhatIsWritten'
      BY <2>1, <3>2 DEF WhatIsWritten
    <3> QED
      BY <3>3, <3>4
  <2> QED
    BY <1>5, <2>2, <2>3 DEF Write
<1>6. CASE Label
  <2>1. /\ phase = "label" /\ phase' = "done"
        /\ reason' = (IF ~useModel /\ settings.key THEN "daily budget" ELSE reason)
        /\ UNCHANGED <<targets, claims, settings, reserved, useModel, llm, attempt, author, selection>>
    BY <1>6 DEF Label, iVars
  <2> QED
    BY <2>1 DEF BInvTypes, WhoWrites, WhatIsWritten, Why
<1>7. CASE UNCHANGED vars
  BY <1>7 DEF vars, iVars, bVars, BInvTypes, WhoWrites, WhatIsWritten, Why
<1> QED
  BY <1>1, <1>2, <1>3, <1>4, <1>5, <1>6, <1>7 DEF InterpretationNext, BriefingStep

(* The interpretation keeps its invariant, and the investigation's.        *)
THEOREM InterpretationInvariant == InterpretationSpec => [](IInv /\ TInv /\ BInv)
<1>1. InterpretationInit => IInv /\ TInv /\ BInv
  BY InterpretationInvestigatesInit, InitIInv, InitTInv, InitBInv
<1>2. IInv /\ TInv /\ BInv /\ [InterpretationNext]_vars => (IInv /\ TInv /\ BInv)'
  BY InterpretationInvestigatesStep, NextIInv, NextTInv, NextBInv
<1> QED
  BY <1>1, <1>2, PTL DEF InterpretationSpec

(* Every variable keeps its type, a published selection that of the        *)
(* report's schema included (AgentSelection, models/interpretation.py).    *)
THEOREM InterpretationTypes == InterpretationSpec => []InterpretationTypeOK
<1>1. TInv /\ BInv => InterpretationTypeOK
  BY DEF TInv, BInv, BInvTypes, InterpretationTypeOK
<1> QED
  BY <1>1, InterpretationInvariant, PTL

(* Whoever wrote it and whatever the model answered: a published briefing  *)
(* cites the catalog only, and every action is about a live permission the *)
(* sender can revoke, with a reason about it (validate_draft).             *)
THEOREM BriefingIsGrounded == InterpretationSpec => []Grounded
<1>1. ASSUME TInv, BInv, phase = "done"
      PROVE  /\ Cited \subseteq claims
             /\ selection.summary # <<>>
             /\ \A i \in DOMAIN selection.actions :
                  /\ targets[selection.actions[i].pid].state = "live"
                  /\ targets[selection.actions[i].pid].role \in {"sender", "called_contract"}
                  /\ \E claim \in ToSet(selection.actions[i].because) : claim.of = selection.actions[i].pid
  <2>1. WellFounded(selection, targets, claims)
    BY <1>1 DEF BInv, WhoWrites, WhatIsWritten
  <2>2. Cited \subseteq claims
    BY <2>1 DEF WellFounded, Cited
  <2>3. ASSUME NEW i \in DOMAIN selection.actions
        PROVE  /\ targets[selection.actions[i].pid].state = "live"
               /\ targets[selection.actions[i].pid].role \in {"sender", "called_contract"}
    <3> DEFINE pid == selection.actions[i].pid
    <3>1. pid \in Revocable(targets)
      BY <2>1 DEF WellFounded
    <3> HIDE DEF pid
    <3>2. pid \in DOMAIN targets /\ IsActionable(targets[pid])
      BY <3>1 DEF Revocable
    <3>3. targets[pid] \in Permission
      BY <1>1, <3>2, CatalogTypes
    <3> QED
      BY <3>2, <3>3 DEF IsActionable, Permission, Roles, pid
  <2> QED
    BY <2>1, <2>2, <2>3 DEF WellFounded
<1>2. TInv /\ BInv => Grounded
  BY <1>1 DEF Grounded
<1> QED
  BY <1>2, InterpretationInvariant, PTL

(* The fallback never fails: whatever the tools found, the rules' briefing *)
(* passes the validator.                                                   *)
THEOREM FallbackNeverFails == InterpretationSpec => []BaselineIsValid
<1>1. TInv => BaselineIsValid
  BY CatalogTypes, BaselineIsAccepted DEF BaselineIsValid
<1> QED
  BY <1>1, InterpretationInvariant, PTL

(* A report without the model's briefing says why, one with it does not,   *)
(* and the model writes only when configured and budgeted for.             *)
THEOREM ReportSaysWhy == InterpretationSpec => []BaselineSaysWhy
<1>1. BInv => BaselineSaysWhy
  BY DEF BInv, WhoWrites, Why, BaselineSaysWhy
<1> QED
  BY <1>1, InterpretationInvariant, PTL
================================================================================
