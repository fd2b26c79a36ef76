----------------------------- MODULE Relay_proof -----------------------------
(***************************************************************************)
(* Proofs about Relay: RAM, disk, byte counts and the cached list agree    *)
(* (StoreConsistentAlways), a sender gets what it signed for               *)
(* (SenderTreatedRightAlways), budgets hold (BudgetAlways) and evidence    *)
(* stays for the whole retention (EvidenceAlways), for any number of       *)
(* threads, requests, crashes and ticks of the clock.                      *)
(***************************************************************************)
EXTENDS Relay, Sums_proof, SequenceTheorems

EntryRecord == [key : Keys, body : DOMAIN Cost, ts : Nat]
Costs(s)    == [i \in DOMAIN s |-> Cost[s[i].body]]
Distinct(s) == \A i, j \in DOMAIN s : s[i].key = s[j].key => i = j

-----------------------------------------------------------------------------
(* Finite sets of positions and their ascending enumeration                  *)

LEMMA HasLast ==
  ASSUME NEW S, IsFiniteSet(S), S \subseteq Int, S # {}
  PROVE  \E x \in S : \A y \in S : y <= x
<1> DEFINE bad == {T \in SUBSET S : T # {} /\ ~ \E x \in T : \A y \in T : y <= x}
<1>1. SUFFICES ASSUME bad # {} PROVE FALSE
  <2>1. S \notin bad
    BY <1>1
  <2> QED BY <2>1
<1>2. PICK T \in bad : \A U \in bad : U \subseteq T => U = T
  <2>1. bad \subseteq SUBSET S /\ IsFiniteSet(S)
    OBVIOUS
  <2> HIDE DEF bad
  <2> QED BY ONLY <1>1, <2>1, SmallestSet
<1> DEFINE p == Pick(T)
           V == T \ {p}
<1>3. p \in T /\ p \in Int /\ V \subseteq T /\ V # T /\ V \in SUBSET S
  <2>1. T # {} /\ T \subseteq S
    OBVIOUS
  <2>2. p \in T /\ V \subseteq T /\ V # T
    BY <2>1, PickOK
  <2> QED BY <2>1, <2>2
<1>4. CASE V = {}
  <2>1. \A y \in T : y <= p
    BY <1>3, <1>4
  <2> QED BY <1>3, <2>1
<1>5. CASE V # {}
  <2>1. PICK x \in V : \A y \in V : y <= x
    BY <1>2, <1>3, <1>5
  <2>2. x \in T /\ x \in Int
    BY <1>3
  <2>3. \A y \in T : y \in V \/ y = p
    OBVIOUS
  <2> HIDE DEF p, V
  <2>4. CASE x <= p
    <3>1. \A y \in T : y <= p
      BY <1>3, <2>1, <2>2, <2>3, <2>4
    <3> QED BY <1>3, <3>1
  <2>5. CASE p <= x
    <3>1. \A y \in T : y <= x
      BY <1>3, <2>1, <2>2, <2>3, <2>5
    <3> QED BY <2>2, <3>1
  <2> QED BY <1>3, <2>2, <2>4, <2>5
<1> QED BY <1>4, <1>5

Ascends(f, I) ==
  /\ f \in [1..Cardinality(I) -> I]
  /\ \A m, n \in 1..Cardinality(I) : m < n => f[m] < f[n]

LEMMA AscentExists ==
  ASSUME NEW I, IsFiniteSet(I), I \subseteq Int
  PROVE  \E f : Ascends(f, I)
<1> DEFINE bad == {T \in SUBSET I : ~ \E f : Ascends(f, T)}
<1>1. SUFFICES ASSUME bad # {} PROVE FALSE
  OBVIOUS
<1>2. PICK T \in bad : \A U \in bad : U \subseteq T => U = T
  <2>1. bad \subseteq SUBSET I /\ IsFiniteSet(I)
    OBVIOUS
  <2> HIDE DEF bad
  <2> QED BY ONLY <1>1, <2>1, SmallestSet
<1>3. IsFiniteSet(T) /\ T \subseteq Int
  BY FS_Subset
<1>4. T # {}
  <2> DEFINE none == [n \in 1..0 |-> n]
  <2>1. none \in [1..0 -> {}]
    OBVIOUS
  <2>2. \A n \in 1..0 : FALSE
    OBVIOUS
  <2>3. Ascends(none, {})
    BY <2>1, <2>2, FS_EmptySet DEF Ascends
  <2> QED BY <2>3
<1>5. PICK x \in T : \A y \in T : y <= x
  BY <1>3, <1>4, HasLast
<1> DEFINE V == T \ {x}
           c == Cardinality(V)
<1>6. V \in SUBSET I /\ V \subseteq T /\ V # T /\ IsFiniteSet(V)
  BY <1>3, FS_Subset
<1>7. c \in Nat /\ Cardinality(T) = c + 1
  BY <1>3, <1>6, FS_RemoveElement, FS_CardinalityType
<1>8. PICK f : Ascends(f, V)
  BY <1>2, <1>6
<1> DEFINE g == [n \in 1..(c + 1) |-> IF n = c + 1 THEN x ELSE f[n]]
<1>9. \A n \in 1..c : f[n] \in V
  BY <1>8 DEF Ascends
<1>10. \A v \in V : v \in Int /\ x \in Int /\ v < x /\ v \in T
  BY <1>3, <1>5
<1>11. \A m, n \in 1..c : m < n => f[m] < f[n]
  BY <1>8 DEF Ascends
<1> HIDE DEF V, c
<1>12. \A n \in 1..(c + 1) : n = c + 1 \/ n \in 1..c
  BY <1>7
<1>13. g \in [1..(c + 1) -> T]
  BY <1>9, <1>10, <1>12
<1>14. ASSUME NEW m \in 1..(c + 1), NEW n \in 1..(c + 1), m < n PROVE g[m] < g[n]
  <2>1. m \in 1..c
    BY <1>7, <1>14
  <2>2. CASE n = c + 1
    BY <1>7, <1>9, <1>10, <2>1, <2>2
  <2>3. CASE n \in 1..c
    BY <1>7, <1>11, <1>14, <2>1, <2>3
  <2> QED BY <1>12, <2>2, <2>3
<1> HIDE DEF g
<1>15. Ascends(g, T)
  BY <1>7, <1>13, <1>14 DEF Ascends
<1> QED BY <1>15

(* InOrder lists every position of I once, in ascending order.               *)
LEMMA Ordered ==
  ASSUME NEW I, IsFiniteSet(I), I \subseteq Int
  PROVE  /\ Cardinality(I) \in Nat
         /\ InOrder(I) \in [1..Cardinality(I) -> I]
         /\ \A m, n \in 1..Cardinality(I) : InOrder(I)[m] = InOrder(I)[n] => m = n
         /\ {InOrder(I)[n] : n \in 1..Cardinality(I)} = I
<1> DEFINE c == Cardinality(I)
           f == InOrder(I)
<1>1. c \in Nat
  BY FS_CardinalityType
<1>2. Ascends(f, I)
  <2>1. PICK g : Ascends(g, I)
    BY AscentExists
  <2>2. g \in [1..c -> I] /\ \A m, n \in DOMAIN g : m < n => g[m] < g[n]
    BY <2>1 DEF Ascends
  <2>3. f \in [1..c -> I] /\ \A m, n \in DOMAIN f : m < n => f[m] < f[n]
    BY <2>2 DEF InOrder
  <2> QED BY <2>3 DEF Ascends
<1> HIDE DEF f, c
<1>3. f \in [1..c -> I] /\ \A m, n \in 1..c : m < n => f[m] < f[n]
  BY <1>2 DEF Ascends, c
<1>4. ASSUME NEW m \in 1..c, NEW n \in 1..c, f[m] = f[n] PROVE m = n
  <2>1. f[m] \in Int /\ f[n] \in Int
    BY <1>3
  <2>2. m \in Int /\ n \in Int
    BY <1>1
  <2> QED BY <1>3, <1>4, <2>1, <2>2
<1>5. f \in Injection(1..c, I)
  BY <1>3, <1>4 DEF Injection, IsInjective
<1>6. Cardinality(1..c) = c
  BY <1>1, FS_Interval
<1>7. f \in Surjection(1..c, I)
  BY <1>5, <1>6, FS_Injection DEF c
<1>8. {f[n] : n \in 1..c} = I
  BY <1>3, <1>7 DEF Surjection
<1> QED BY <1>1, <1>3, <1>4, <1>8 DEF f, c

-----------------------------------------------------------------------------
(* Tables of deposits                                                        *)

LEMMA KeptOK ==
  ASSUME NEW E, NEW s \in Seq(E), NEW I \in SUBSET DOMAIN s
  PROVE  /\ IsFiniteSet(I) /\ I \subseteq Int
         /\ Kept(s, I) \in Seq(E) /\ DOMAIN Kept(s, I) = 1..Cardinality(I)
         /\ \A n \in DOMAIN Kept(s, I) : InOrder(I)[n] \in I /\ Kept(s, I)[n] = s[InOrder(I)[n]]
         /\ \A i \in I : \E n \in DOMAIN Kept(s, I) : Kept(s, I)[n] = s[i]
         /\ Distinct(s) => Distinct(Kept(s, I))
<1> DEFINE c == Cardinality(I)
           f == InOrder(I)
           k == Kept(s, I)
<1>1. DOMAIN s = 1..Len(s) /\ Len(s) \in Nat /\ IsFiniteSet(I) /\ I \subseteq Int
  <2>1. DOMAIN s = 1..Len(s) /\ Len(s) \in Nat
    OBVIOUS
  <2>2. IsFiniteSet(1..Len(s))
    BY <2>1, FS_Interval
  <2> QED BY <2>1, <2>2, FS_Subset
<1>2. /\ c \in Nat /\ f \in [1..c -> I]
      /\ \A m, n \in 1..c : f[m] = f[n] => m = n
      /\ {f[n] : n \in 1..c} = I
  BY <1>1, Ordered
<1>3. k = [n \in 1..c |-> s[f[n]]]
  BY DEF Kept
<1> HIDE DEF c, f, k
<1>4. \A i \in I : s[i] \in E
  BY <1>1
<1>5. k \in Seq(E) /\ DOMAIN k = 1..c
  BY <1>2, <1>3, <1>4
<1>6. \A n \in 1..c : f[n] \in I /\ k[n] = s[f[n]]
  BY <1>2, <1>3
<1>7. \A i \in I : \E n \in 1..c : k[n] = s[i]
  BY <1>2, <1>6
<1>8. ASSUME Distinct(s), NEW m \in 1..c, NEW n \in 1..c, k[m].key = k[n].key PROVE m = n
  BY <1>2, <1>6, <1>8 DEF Distinct
<1> QED BY <1>1, <1>5, <1>6, <1>7, <1>8 DEF Distinct, c, f, k

LEMMA CostType ==
  ASSUME NEW s \in Seq(EntryRecord)
  PROVE  /\ IsFiniteSet(DOMAIN s) /\ \A i \in DOMAIN s : Costs(s)[i] \in Nat /\ Costs(s)[i] \in Int
         /\ SumCost(s) = SumOf(Costs(s), DOMAIN s) /\ SumCost(s) \in Nat
<1>1. DOMAIN s = 1..Len(s) /\ Len(s) \in Nat /\ \A i \in DOMAIN s : s[i] \in EntryRecord
  OBVIOUS
<1>2. IsFiniteSet(DOMAIN s)
  BY <1>1, FS_Interval
<1>3. \A i \in DOMAIN s : Costs(s)[i] \in Nat
  BY <1>1, RelayAssumption DEF Costs, EntryRecord
<1>4. SumCost(s) = SumOf(Costs(s), DOMAIN s)
  BY DEF SumCost, Costs, FoldSeq, FoldFunction, FoldFunctionOnSet, MapThenFoldSet, SumOf, SumsTo, Pick
<1>5. SumOf(Costs(s), DOMAIN s) \in Nat
  BY <1>2, <1>3, SumOfType
<1> QED BY <1>2, <1>3, <1>4, <1>5

(* What is kept costs the sum over the positions kept.                       *)
LEMMA SumKept ==
  ASSUME NEW s \in Seq(EntryRecord), NEW I \in SUBSET DOMAIN s
  PROVE  SumCost(Kept(s, I)) = SumOf(Costs(s), I)
<1> DEFINE c == Cardinality(I)
           f == InOrder(I)
           k == Kept(s, I)
<1>1. /\ IsFiniteSet(I) /\ k \in Seq(EntryRecord) /\ DOMAIN k = 1..c
      /\ \A n \in 1..c : f[n] \in I /\ k[n] = s[f[n]]
  <2>1. /\ IsFiniteSet(I) /\ k \in Seq(EntryRecord) /\ DOMAIN k = 1..c
        /\ \A n \in DOMAIN k : f[n] \in I /\ k[n] = s[f[n]]
    BY KeptOK
  <2> QED BY <2>1
<1>2. /\ f \in [1..c -> I] /\ {f[n] : n \in 1..c} = I
      /\ \A m, n \in 1..c : f[m] = f[n] => m = n
  <2>1. I \subseteq Int
    BY KeptOK
  <2> QED BY <1>1, <2>1, Ordered
<1>3. \A i \in I : Costs(s)[i] \in Int
  BY CostType
<1>4. IsFiniteSet(1..c)
  BY <1>1, FS_CardinalityType, FS_Interval
<1> HIDE DEF c, f, k
<1>5. \A n \in 1..c : Costs(k)[n] = Costs(s)[f[n]]
  BY <1>1 DEF Costs
<1>6. SumOf(Costs(k), 1..c) = SumOf(Costs(s), {f[n] : n \in 1..c})
  <2> DEFINE cs == Costs(s)
             ck == Costs(k)
             D == 1..c
  <2>1. /\ IsFiniteSet(I) /\ IsFiniteSet(D) /\ f \in [D -> I]
        /\ \A i \in I : cs[i] \in Int
        /\ \A n \in D : ck[n] = cs[f[n]]
        /\ \A m, n \in D : f[m] = f[n] => m = n
    BY <1>1, <1>2, <1>3, <1>4, <1>5
  <2> HIDE DEF cs, ck, D
  <2>2. SumOf(ck, D) = SumOf(cs, {f[n] : n \in D})
    BY ONLY <2>1, SumOfRenumbered
  <2> QED BY <2>2 DEF cs, ck, D
<1>7. SumCost(k) = SumOf(Costs(k), 1..c)
  BY <1>1, CostType
<1> QED BY <1>2, <1>6, <1>7 DEF k

(* The charge of a table is that of what leaves and of what stays.           *)
LEMMA SumWithout ==
  ASSUME NEW s \in Seq(EntryRecord), NEW ks
  PROVE  /\ SumCost(s) = SumCost(Only(s, ks)) + SumCost(Without(s, ks))
         /\ SumCost(Only(s, ks)) \in Nat /\ SumCost(Without(s, ks)) \in Nat
<1> DEFINE I == {i \in DOMAIN s : s[i].key \in ks}
           J == {i \in DOMAIN s : s[i].key \notin ks}
<1>1. I \in SUBSET DOMAIN s /\ J \in SUBSET DOMAIN s /\ J = (DOMAIN s) \ I
  OBVIOUS
<1>2. Only(s, ks) = Kept(s, I) /\ Without(s, ks) = Kept(s, J)
  BY DEF Only, Without
<1> HIDE DEF I, J
<1>3. IsFiniteSet(DOMAIN s) /\ \A i \in DOMAIN s : Costs(s)[i] \in Int
  BY CostType
<1>4. SumOf(Costs(s), DOMAIN s) = SumOf(Costs(s), I) + SumOf(Costs(s), J)
  BY <1>1, <1>3, SumOfSplit
<1>5. SumCost(Kept(s, I)) = SumOf(Costs(s), I) /\ SumCost(Kept(s, J)) = SumOf(Costs(s), J)
  BY <1>1, SumKept
<1>6. Kept(s, I) \in Seq(EntryRecord) /\ Kept(s, J) \in Seq(EntryRecord)
  BY <1>1, KeptOK
<1> QED BY <1>2, <1>4, <1>5, <1>6, CostType

(* Without keeps the other entries, and nothing else.                        *)
LEMMA WithoutOK ==
  ASSUME NEW E, NEW s \in Seq(E), NEW ks
  PROVE  /\ Without(s, ks) \in Seq(E)
         /\ \A n \in DOMAIN Without(s, ks) :
              \E i \in DOMAIN s : Without(s, ks)[n] = s[i] /\ s[i].key \notin ks
         /\ \A i \in DOMAIN s : s[i].key \notin ks =>
              \E n \in DOMAIN Without(s, ks) : Without(s, ks)[n] = s[i]
         /\ Distinct(s) => Distinct(Without(s, ks))
<1> DEFINE J == {i \in DOMAIN s : s[i].key \notin ks}
<1>1. J \in SUBSET DOMAIN s
  OBVIOUS
<1>2. Without(s, ks) = Kept(s, J) /\ \A i \in DOMAIN s : i \in J <=> s[i].key \notin ks
  BY DEF Without
<1> HIDE DEF J
<1>3. /\ Kept(s, J) \in Seq(E)
      /\ \A n \in DOMAIN Kept(s, J) : InOrder(J)[n] \in J /\ Kept(s, J)[n] = s[InOrder(J)[n]]
      /\ \A i \in J : \E n \in DOMAIN Kept(s, J) : Kept(s, J)[n] = s[i]
      /\ Distinct(s) => Distinct(Kept(s, J))
  BY <1>1, KeptOK
<1>4. \A n \in DOMAIN Kept(s, J) : InOrder(J)[n] \in DOMAIN s /\ s[InOrder(J)[n]].key \notin ks
  BY <1>1, <1>2, <1>3
<1>5. \A n \in DOMAIN Kept(s, J) : \E i \in DOMAIN s : Kept(s, J)[n] = s[i] /\ s[i].key \notin ks
  BY <1>3, <1>4
<1> QED BY <1>2, <1>3, <1>5

LEMMA StaysWithout ==
  ASSUME NEW s \in Seq(EntryRecord), NEW ks, NEW i \in DOMAIN s, s[i].key \notin ks
  PROVE  s[i] \in Range(Without(s, ks))
<1>1. \E n \in DOMAIN Without(s, ks) : Without(s, ks)[n] = s[i]
  BY WithoutOK
<1> QED BY <1>1 DEF Range

LEMMA KeysWithout ==
  ASSUME NEW E, NEW s \in Seq(E), NEW ks
  PROVE  KeysOf(Without(s, ks)) = KeysOf(s) \ ks
BY WithoutOK DEF KeysOf

(* An append costs what is appended.                                         *)
LEMMA SumAppend ==
  ASSUME NEW s \in Seq(EntryRecord), NEW e \in EntryRecord
  PROVE  SumCost(Append(s, e)) = SumCost(s) + Cost[e.body]
<1> DEFINE a == Append(s, e)
           n == Len(s) + 1
<1>1. /\ a \in Seq(EntryRecord) /\ DOMAIN a = 1..n /\ DOMAIN s = 1..Len(s) /\ Len(s) \in Nat
      /\ a[n] = e /\ \A i \in DOMAIN s : a[i] = s[i]
  OBVIOUS
<1>2. n \in DOMAIN a /\ (DOMAIN a) \ {n} = DOMAIN s
  BY <1>1
<1> HIDE DEF a, n
<1>3. /\ IsFiniteSet(DOMAIN a) /\ \A i \in DOMAIN a : Costs(a)[i] \in Int
      /\ SumCost(a) = SumOf(Costs(a), DOMAIN a)
  BY <1>1, CostType
<1>4. SumOf(Costs(a), DOMAIN a) = Costs(a)[n] + SumOf(Costs(a), DOMAIN s)
  BY <1>2, <1>3, SumOfRemove
<1>5. Costs(a)[n] = Cost[e.body]
  BY <1>1, <1>2 DEF Costs
<1>6. \A i \in DOMAIN s : Costs(a)[i] = Costs(s)[i]
  BY <1>1, <1>2 DEF Costs
<1>7. SumOf(Costs(a), DOMAIN s) = SumOf(Costs(s), DOMAIN s)
  <2>1. IsFiniteSet(DOMAIN s)
    BY CostType
  <2> QED BY <1>6, <2>1, SumOfSame
<1>8. SumCost(s) = SumOf(Costs(s), DOMAIN s) /\ SumCost(s) \in Nat /\ Cost[e.body] \in Nat
  BY CostType, RelayAssumption DEF EntryRecord
<1> QED BY <1>3, <1>4, <1>5, <1>7, <1>8 DEF a

LEMMA HasFirst ==
  ASSUME NEW S, IsFiniteSet(S), S \subseteq Int, S # {}
  PROVE  Min(S) \in S /\ \A y \in S : Min(S) <= y
<1> DEFINE bad == {T \in SUBSET S : T # {} /\ ~ \E x \in T : \A y \in T : x <= y}
<1>1. SUFFICES ASSUME bad # {} PROVE FALSE
  <2>1. S \notin bad
    BY <1>1
  <2>2. \E x \in S : \A y \in S : x <= y
    BY <2>1
  <2> QED BY <2>2 DEF Min
<1>2. PICK T \in bad : \A U \in bad : U \subseteq T => U = T
  <2>1. bad \subseteq SUBSET S /\ IsFiniteSet(S)
    OBVIOUS
  <2> HIDE DEF bad
  <2> QED BY ONLY <1>1, <2>1, SmallestSet
<1> DEFINE p == Pick(T)
           V == T \ {p}
<1>3. p \in T /\ p \in Int /\ V \subseteq T /\ V # T /\ V \in SUBSET S
  <2>1. T # {} /\ T \subseteq S
    OBVIOUS
  <2>2. p \in T /\ V \subseteq T /\ V # T
    BY <2>1, PickOK
  <2> QED BY <2>1, <2>2
<1>4. CASE V = {}
  <2>1. \A y \in T : p <= y
    BY <1>3, <1>4
  <2> QED BY <1>3, <2>1
<1>5. CASE V # {}
  <2>1. PICK x \in V : \A y \in V : x <= y
    BY <1>2, <1>3, <1>5
  <2>2. x \in T /\ x \in Int
    BY <1>3
  <2>3. \A y \in T : y \in V \/ y = p
    OBVIOUS
  <2> HIDE DEF p, V
  <2>4. CASE p <= x
    <3>1. \A y \in T : p <= y
      BY <1>3, <2>1, <2>2, <2>3, <2>4
    <3> QED BY <1>3, <3>1
  <2>5. CASE x <= p
    <3>1. \A y \in T : x <= y
      BY <1>3, <2>1, <2>2, <2>3, <2>5
    <3> QED BY <2>2, <3>1
  <2> QED BY <1>3, <2>2, <2>4, <2>5
<1> QED BY <1>4, <1>5

(* A deposit replaces the entry of its key and leaves the others.            *)
LEMMA ReplaceOK ==
  ASSUME NEW E, NEW s \in Seq(E), NEW e \in E
  PROVE  /\ Replace(s, e) \in Seq(E)
         /\ KeysOf(Replace(s, e)) = KeysOf(s) \cup {e.key}
         /\ \A n \in DOMAIN Replace(s, e) : Replace(s, e)[n] = e \/ \E i \in DOMAIN s : Replace(s, e)[n] = s[i]
         /\ \E n \in DOMAIN Replace(s, e) : Replace(s, e)[n] = e
         /\ \A i \in DOMAIN s : s[i].key # e.key =>
              \E n \in DOMAIN Replace(s, e) : Replace(s, e)[n] = s[i]
         /\ Distinct(s) => Distinct(Replace(s, e))
<1> DEFINE ks == {e.key}
           w == Without(s, ks)
           r == Replace(s, e)
           n0 == Len(w) + 1
<1>1. \A x : x \in ks <=> x = e.key
  OBVIOUS
<1>2. r = Append(w, e)
  BY DEF Replace
<1> HIDE DEF ks
<1>3. /\ w \in Seq(E)
      /\ \A n \in DOMAIN w : \E i \in DOMAIN s : w[n] = s[i] /\ s[i].key # e.key
      /\ \A i \in DOMAIN s : s[i].key # e.key => \E n \in DOMAIN w : w[n] = s[i]
      /\ Distinct(s) => Distinct(w)
  <2>1. /\ w \in Seq(E)
        /\ \A n \in DOMAIN w : \E i \in DOMAIN s : w[n] = s[i] /\ s[i].key \notin ks
        /\ \A i \in DOMAIN s : s[i].key \notin ks => \E n \in DOMAIN w : w[n] = s[i]
        /\ Distinct(s) => Distinct(w)
    BY WithoutOK
  <2> HIDE DEF w
  <2> QED BY <1>1, <2>1
<1> HIDE DEF w, r
<1>4. /\ r \in Seq(E) /\ DOMAIN r = 1..n0 /\ DOMAIN w = 1..Len(w) /\ Len(w) \in Nat
      /\ r[n0] = e /\ \A i \in DOMAIN w : r[i] = w[i]
  BY <1>3, <1>2
<1> HIDE DEF n0
<1>5. \A n \in DOMAIN r : n = n0 \/ n \in DOMAIN w
  BY <1>4 DEF n0
<1>6. n0 \in DOMAIN r /\ DOMAIN w \subseteq DOMAIN r
  BY <1>4 DEF n0
<1>7. \A n \in DOMAIN r : r[n] = e \/ \E i \in DOMAIN s : r[n] = s[i]
  BY <1>3, <1>4, <1>5
<1>8. \A i \in DOMAIN s : s[i].key # e.key => \E n \in DOMAIN r : r[n] = s[i]
  BY <1>3, <1>4, <1>6
<1>9. ASSUME Distinct(s), NEW m \in DOMAIN r, NEW n \in DOMAIN r, r[m].key = r[n].key PROVE m = n
  <2>1. \A i \in DOMAIN w : w[i].key # e.key
    BY <1>3
  <2> QED BY <1>3, <1>4, <1>5, <1>9, <2>1 DEF Distinct
<1>10. KeysOf(r) = KeysOf(s) \cup {e.key}
  <2>1. KeysOf(r) \subseteq KeysOf(s) \cup {e.key}
    BY <1>7 DEF KeysOf
  <2>2. KeysOf(s) \subseteq KeysOf(r) \cup {e.key}
    BY <1>8 DEF KeysOf
  <2>3. e.key \in KeysOf(r)
    BY <1>4, <1>6 DEF KeysOf
  <2> QED BY <2>1, <2>2, <2>3
<1> QED BY <1>4, <1>6, <1>7, <1>8, <1>9, <1>10 DEF Distinct, r

(* ... and costs the difference of the two bodies (After).                   *)
LEMMA SumReplace ==
  ASSUME NEW s \in Seq(EntryRecord), Distinct(s), NEW e \in EntryRecord
  PROVE  SumCost(Replace(s, e)) =
           SumCost(s) - (IF e.key \in KeysOf(s) THEN Cost[At(s, e.key).body] ELSE 0) + Cost[e.body]
<1> DEFINE ks == {e.key}
           I == {i \in DOMAIN s : s[i].key \in ks}
           gone == IF e.key \in KeysOf(s) THEN Cost[At(s, e.key).body] ELSE 0
<1>1. /\ SumCost(s) = SumCost(Only(s, ks)) + SumCost(Without(s, ks))
      /\ SumCost(Only(s, ks)) \in Nat /\ SumCost(Without(s, ks)) \in Nat
  BY SumWithout
<1>2. SumCost(Replace(s, e)) = SumCost(Without(s, ks)) + Cost[e.body]
  <2>1. Without(s, ks) \in Seq(EntryRecord)
    BY WithoutOK
  <2> QED BY <2>1, SumAppend DEF Replace
<1>3. I \in SUBSET DOMAIN s /\ SumCost(Only(s, ks)) = SumOf(Costs(s), I)
  BY SumKept DEF Only
<1>4. SumOf(Costs(s), I) = gone
  <2>1. CASE e.key \in KeysOf(s)
    <3>1. PICK i \in DOMAIN s : s[i].key = e.key
      BY <2>1 DEF KeysOf
    <3>2. I = {i}
      BY <3>1 DEF Distinct
    <3>3. At(s, e.key) = s[i]
      BY <3>1 DEF At, Distinct, Range
    <3> DEFINE u == {i}
    <3>4. IsFiniteSet(u) /\ i \in u /\ u \ {i} = {} /\ \A x \in u : Costs(s)[x] \in Int
      BY <3>1, CostType, FS_Singleton
    <3>5. Costs(s)[i] = Cost[s[i].body] /\ Costs(s)[i] \in Nat
      BY <3>1, CostType DEF Costs
    <3>6. SumOf(Costs(s), {}) = 0
      BY SumOfStep, FS_EmptySet
    <3>7. I = u
      BY <3>2
    <3> HIDE DEF u, I
    <3>8. SumOf(Costs(s), u) = Costs(s)[i] + SumOf(Costs(s), u \ {i})
      BY <3>4, SumOfRemove
    <3>9. SumOf(Costs(s), I) = Cost[s[i].body]
      <4>1. SumOf(Costs(s), u \ {i}) = SumOf(Costs(s), {})
        BY <3>4, Zenon
      <4>2. SumOf(Costs(s), I) = SumOf(Costs(s), u)
        BY <3>7, Zenon
      <4> QED BY <3>5, <3>6, <3>8, <4>1, <4>2
    <3>10. gone = Cost[s[i].body]
      BY <2>1, <3>3
    <3> HIDE DEF gone
    <3> QED BY <3>9, <3>10
  <2>2. CASE e.key \notin KeysOf(s)
    <3>1. I = {}
      BY <2>2 DEF KeysOf
    <3> QED BY <2>2, <3>1, SumOfStep, FS_EmptySet
  <2> QED BY <2>1, <2>2
<1>5. Cost[e.body] \in Nat
  BY RelayAssumption DEF EntryRecord
<1> HIDE DEF I, gone
<1>6. SumCost(Replace(s, e)) = SumCost(s) - gone + Cost[e.body]
  BY <1>1, <1>2, <1>3, <1>4, <1>5
<1> QED BY <1>6 DEF gone

LEMMA CardKeys ==
  ASSUME NEW E, NEW s \in Seq(E), Distinct(s)
  PROVE  Cardinality(KeysOf(s)) = Len(s)
<1> DEFINE f == [i \in 1..Len(s) |-> s[i].key]
           ks == KeysOf(s)
<1>1. DOMAIN s = 1..Len(s) /\ Len(s) \in Nat
  OBVIOUS
<1>2. ks = {s[i].key : i \in 1..Len(s)}
  BY <1>1 DEF KeysOf
<1>3. f \in [1..Len(s) -> ks] /\ \A k \in ks : \E i \in 1..Len(s) : f[i] = k
  BY <1>2
<1>4. \A i, j \in 1..Len(s) : f[i] = f[j] => i = j
  BY <1>1 DEF Distinct
<1> HIDE DEF f, ks
<1>5. f \in Bijection(1..Len(s), ks)
  BY <1>3, <1>4 DEF Bijection, Injection, Surjection, IsInjective
<1>6. ExistsBijection(1..Len(s), ks)
  BY <1>5 DEF ExistsBijection
<1> QED BY <1>1, <1>6, FS_CountingElements DEF ks

-----------------------------------------------------------------------------
(* The types of the relay, threads included.                                 *)

Digests == {Digest(r) : r \in RequestType}

(* The address a deposit belongs to: the payer of the job its key names, or  *)
(* the operator of the miner its key names.                                  *)
Owner(r) == IF r.kind = "req" THEN Payer[r.key[1]] ELSE Operator[r.key[2]]

Signed  == {r \in RequestType : Verifiable(r)}
Owned   == {r \in Signed : r.signer = Owner(r)}
Writers == Addresses \cup {Nobody}

(* A thread on each stage of a deposit, or copying the queue.                *)
Verifying == [pc : {"refresh", "attribute"}, req : Signed, reread : BOOLEAN, mark : {-1} \cup Nat]
Admitting == [pc : {"paid", "check", "record"}, req : Owned, reread : BOOLEAN, mark : {-1} \cup Nat]
Evicting  == {x \in [pc : {"evict"}, req : RequestType, writer : Writers] :
                x.writer \in {Nobody, Owner(x.req)}}
Putting   == {x \in [pc : {"remove", "write"}, req : RequestType, writer : Writers,
                     evicted : SUBSET Keys, clock : Nat] :
                x.writer \in {Nobody, Owner(x.req)} /\ x.clock <= now}
Listing   == [pc : {"list"}, version : Nat, keys : [Kinds -> SUBSET Keys]]
ThreadRecord == {Idle} \cup Verifying \cup Admitting \cup Evicting \cup Putting \cup Listing

Dated(S) == \A k \in Kinds : \A i \in DOMAIN S[k] : S[k][i].ts <= now

StoreType ==
  /\ store \in [Kinds -> Seq(EntryRecord)] /\ Dated(store)
  /\ disk \in [Kinds -> Seq(EntryRecord)] /\ Dated(disk)
  /\ used \in [Kinds -> Int] /\ version \in Nat
  /\ listing \in [version : {-1} \cup Nat, keys : [Kinds -> SUBSET Keys]]

ThreadType == thread \in [Threads -> ThreadRecord]

GuardType ==
  /\ seen \in Seq([dig : Digests, at : Nat])
  /\ high \in [Addresses -> {-1} \cup Nat]
  /\ accepted \subseteq [dig : Digests, at : Nat]

(* The registry knows a miner under its own operator or not at all.          *)
ChainType ==
  /\ offered \subseteq RequestType /\ now \in Nat
  /\ registry.at \in {-1} \cup Nat /\ registry.at <= now
  /\ \A m \in Miners : registry.ops[m] \in {Nobody, Operator[m]}

Types == StoreType /\ ThreadType /\ GuardType /\ ChainType

-----------------------------------------------------------------------------
(* Replay guard's memory                                                     *)

LEMMA SuffixOK ==
  ASSUME NEW E, NEW s \in Seq(E), NEW m \in 1..Len(s)
  PROVE  /\ SubSeq(s, m, Len(s)) \in Seq(E)
         /\ DOMAIN SubSeq(s, m, Len(s)) = 1..(Len(s) - m + 1)
         /\ \A n \in 1..(Len(s) - m + 1) : SubSeq(s, m, Len(s))[n] = s[n + m - 1]
<1>1. Len(s) \in Nat /\ m \in Nat /\ m <= Len(s) /\ 1 <= m
  OBVIOUS
<1>2. SubSeq(s, m, Len(s)) = [n \in 1..(Len(s) - m + 1) |-> s[n + m - 1]]
  BY <1>1
<1>3. \A n \in 1..(Len(s) - m + 1) : n + m - 1 \in 1..Len(s) /\ s[n + m - 1] \in E
  BY <1>1
<1> DEFINE c == SubSeq(s, m, Len(s))
           k == Len(s) - m + 1
<1>4. /\ k \in Nat /\ c = [n \in 1..k |-> s[n + m - 1]]
      /\ \A n \in 1..k : s[n + m - 1] \in E
  BY <1>1, <1>2, <1>3
<1> HIDE DEF c, k
<1>5. DOMAIN c = 1..k /\ \A n \in 1..k : c[n] = s[n + m - 1]
  BY <1>4
<1>6. c \in [1..k -> E]
  BY <1>4
<1>7. c \in Seq(E)
  BY <1>4, <1>6
<1> QED BY <1>5, <1>7 DEF c, k

(* What the purge keeps is the end of what was remembered, and all that is   *)
(* young enough.                                                             *)
LEMMA PurgeOK ==
  ASSUME Types
  PROVE  /\ Purged \in Seq([dig : Digests, at : Nat])
         /\ \A n \in DOMAIN Purged : \E i \in DOMAIN seen : Purged[n] = seen[i]
         /\ \A i \in DOMAIN seen : now - seen[i].at <= Retention =>
              \E n \in DOMAIN Purged : Purged[n] = seen[i]
<1> DEFINE R == [dig : Digests, at : Nat]
           young == {i \in DOMAIN seen : seen[i].at >= now - Retention}
           m == Min(young)
           cut == SubSeq(seen, m, Len(seen))
<1>1. /\ seen \in Seq(R) /\ DOMAIN seen = 1..Len(seen) /\ Len(seen) \in Nat
      /\ \A i \in DOMAIN seen : seen[i].at \in Nat
  <2>1. seen \in Seq(R)
    BY DEF Types, GuardType
  <2>2. \A r \in R : r.at \in Nat
    OBVIOUS
  <2> HIDE DEF R
  <2> QED BY <2>1, <2>2
<1> HIDE DEF R
<1>2. Purged = IF young = {} THEN <<>> ELSE cut
  BY DEF Purged
<1>3. \A i \in DOMAIN seen : now - seen[i].at <= Retention => i \in young
  BY <1>1, RelayAssumption DEF Types, ChainType
<1>4. CASE young = {}
  <2>1. Purged = <<>> /\ \A i \in DOMAIN seen : ~ (now - seen[i].at <= Retention)
    BY <1>2, <1>3, <1>4
  <2> QED BY <2>1 DEF R
<1>5. CASE young # {}
  <2>1. young \subseteq DOMAIN seen /\ IsFiniteSet(young) /\ young \subseteq Int
    <3>1. young \subseteq DOMAIN seen
      OBVIOUS
    <3>2. IsFiniteSet(1..Len(seen))
      BY <1>1, FS_Interval
    <3> HIDE DEF young
    <3>3. young \in SUBSET (1..Len(seen))
      BY <1>1, <3>1
    <3>4. IsFiniteSet(young)
      BY <3>2, <3>3, FS_Subset
    <3> QED BY <1>1, <3>1, <3>3, <3>4
  <2>2. m \in young /\ \A i \in young : m <= i
    <3> HIDE DEF young
    <3> QED BY <1>5, <2>1, HasFirst
  <2> HIDE DEF young, m
  <2>3. m \in 1..Len(seen)
    BY <1>1, <2>1, <2>2
  <2>4. /\ cut \in Seq(R) /\ DOMAIN cut = 1..(Len(seen) - m + 1)
        /\ \A n \in 1..(Len(seen) - m + 1) : cut[n] = seen[n + m - 1]
    BY <1>1, <2>3, SuffixOK
  <2> HIDE DEF cut
  <2>5. \A n \in DOMAIN cut : n + m - 1 \in DOMAIN seen /\ cut[n] = seen[n + m - 1]
    BY <1>1, <2>3, <2>4
  <2>6. \A i \in young : i - m + 1 \in DOMAIN cut /\ cut[i - m + 1] = seen[i]
    <3> SUFFICES ASSUME NEW i \in young PROVE i - m + 1 \in DOMAIN cut /\ cut[i - m + 1] = seen[i]
      OBVIOUS
    <3>1. i \in 1..Len(seen) /\ m <= i
      BY <1>1, <2>1, <2>2
    <3>2. i - m + 1 \in 1..(Len(seen) - m + 1) /\ (i - m + 1) + m - 1 = i
      BY <1>1, <2>3, <3>1
    <3> QED BY <2>4, <3>2
  <2>7. Purged = cut
    BY <1>2, <1>5
  <2> QED BY <1>3, <2>4, <2>5, <2>6, <2>7 DEF R
<1> QED BY <1>4, <1>5

(* Remembering a digest forgets none and makes none older.                   *)
LEMMA RememberOK ==
  ASSUME NEW R, NEW s \in Seq([dig : R, at : Nat]), NEW d \in R, now \in Nat,
         \A i \in DOMAIN s : s[i].at <= now
  PROVE  /\ Remember(s, d) \in Seq([dig : R, at : Nat])
         /\ \A n \in DOMAIN Remember(s, d) :
              \/ Remember(s, d)[n] = [dig |-> d, at |-> now]
              \/ \E i \in DOMAIN s : Remember(s, d)[n] = s[i]
         /\ \E n \in DOMAIN Remember(s, d) : Remember(s, d)[n] = [dig |-> d, at |-> now]
         /\ \A i \in DOMAIN s : \E n \in DOMAIN Remember(s, d) :
              Remember(s, d)[n].dig = s[i].dig /\ Remember(s, d)[n].at >= s[i].at
<1> DEFINE e == [dig |-> d, at |-> now]
           E == [dig : R, at : Nat]
           m == Remember(s, d)
<1>1. e \in E /\ s \in Seq(E) /\ DOMAIN s = 1..Len(s) /\ Len(s) \in Nat
  OBVIOUS
<1>2. \A x \in E : x.at \in Nat /\ [x EXCEPT !.at = now] = [dig |-> x.dig, at |-> now]
  OBVIOUS
<1>3. e.dig = d /\ e.at = now
  OBVIOUS
<1> HIDE DEF E
<1>4. \A i \in DOMAIN s : s[i] \in E /\ s[i].at \in Nat /\ s[i].at <= now
  <2>1. \A i \in DOMAIN s : s[i] \in E
    BY <1>1
  <2>2. \A i \in DOMAIN s : s[i].at <= now
    OBVIOUS
  <2> QED BY <1>2, <2>1, <2>2
<1>5. CASE \E i \in DOMAIN s : s[i].dig = d
  <2>1. m = [i \in DOMAIN s |-> IF s[i].dig = d THEN [s[i] EXCEPT !.at = now] ELSE s[i]]
    BY <1>5 DEF Remember
  <2>2. \A i \in DOMAIN s : s[i].dig = d => [s[i] EXCEPT !.at = now] = e
    BY <1>4, <1>2
  <2> HIDE DEF m, e
  <2>3. DOMAIN m = DOMAIN s /\ \A i \in DOMAIN s : m[i] = IF s[i].dig = d THEN e ELSE s[i]
    BY <2>1, <2>2
  <2>4. m \in [1..Len(s) -> E]
    BY <1>1, <1>4, <2>1, <2>2, <2>3
  <2>5. m \in Seq(E)
    BY <1>1, <2>4
  <2>6. \A n \in DOMAIN m : m[n] = e \/ \E i \in DOMAIN s : m[n] = s[i]
    BY <2>3
  <2>7. \E n \in DOMAIN m : m[n] = e
    BY <1>5, <2>3
  <2>8. \A i \in DOMAIN s : m[i].dig = s[i].dig /\ m[i].at >= s[i].at
    BY <1>4, <1>3, <2>3
  <2> QED BY <2>3, <2>5, <2>6, <2>7, <2>8 DEF m, e, E
<1>6. CASE ~ \E i \in DOMAIN s : s[i].dig = d
  <2>1. m = Append(s, e)
    BY <1>6 DEF Remember
  <2> HIDE DEF m, e
  <2>2. /\ m \in Seq(E) /\ DOMAIN m = 1..(Len(s) + 1) /\ m[Len(s) + 1] = e
        /\ \A i \in DOMAIN s : i \in DOMAIN m /\ m[i] = s[i]
    BY <1>1, <2>1
  <2>3. \A n \in DOMAIN m : n = Len(s) + 1 \/ n \in DOMAIN s
    BY <1>1, <2>2
  <2>4. Len(s) + 1 \in DOMAIN m
    BY <1>1, <2>2
  <2>5. \A n \in DOMAIN m : m[n] = e \/ \E i \in DOMAIN s : m[n] = s[i]
    BY <2>2, <2>3
  <2>6. \A i \in DOMAIN s : \E n \in DOMAIN m : m[n].dig = s[i].dig /\ m[n].at >= s[i].at
    BY <1>4, <2>2
  <2> QED BY <2>2, <2>4, <2>5, <2>6 DEF m, e, E
<1> QED BY <1>5, <1>6

-----------------------------------------------------------------------------
(* Every step keeps the types.                                               *)

LEMMA TypesInit == Init => Types
<1> SUFFICES ASSUME Init PROVE Types
  OBVIOUS
<1>1. StoreType
  BY DEF Init, StoreType, Dated
<1>2. ThreadType
  BY DEF Init, ThreadType, ThreadRecord, Idle
<1>3. GuardType
  BY DEF Init, GuardType
<1>4. ChainType
  BY RelayAssumption DEF Init, ChainType
<1> QED BY <1>1, <1>2, <1>3, <1>4 DEF Types

LEMMA ClockStep ==
  ASSUME Types, [Next]_vars
  PROVE  now \in Nat /\ now' \in Nat /\ now <= now' /\ (UNCHANGED now \/ Tick)
<1>1. UNCHANGED now \/ Tick
  BY DEF Next, vars, Receive, Refresh, Attribute, Paid, CheckReplay, RecordReplay, Evict,
         RemoveEvicted, WriteUnchanged, WriteFails, Write, ListBuild, ListFile, Crash, Boot,
         Register, CloseJob
<1>2. Tick => now' = now + 1
  BY DEF Tick
<1>3. now \in Nat
  BY DEF Types, ChainType
<1> QED BY <1>1, <1>2, <1>3

(* The steps that read or drop the registry.                                 *)
LEMMA RegistryStep ==
  ASSUME [Next]_vars
  PROVE  UNCHANGED offered /\ (UNCHANGED registry \/ refresh \/ Crash)
<1>1. UNCHANGED offered
  BY DEF Next, vars, Receive, Refresh, Attribute, Paid, CheckReplay, RecordReplay, Evict,
         RemoveEvicted, WriteUnchanged, WriteFails, Write, ListBuild, ListFile, Crash, Boot, Tick,
         Register, CloseJob, chain
<1>2. UNCHANGED registry \/ refresh \/ Crash
  BY DEF Next, vars, Receive, Refresh, Attribute, Paid, CheckReplay, RecordReplay, Evict,
         RemoveEvicted, WriteUnchanged, WriteFails, Write, ListBuild, ListFile, Boot, Tick,
         Register, CloseJob
<1> QED BY <1>1, <1>2

LEMMA ChainTypeStep == ASSUME Types, [Next]_vars PROVE ChainType'
<1>1. now' \in Nat /\ now <= now' /\ now \in Nat
  BY ClockStep
<1>2. offered' \subseteq RequestType
  BY RegistryStep DEF Types, ChainType
<1>3. CASE UNCHANGED registry
  BY <1>1, <1>2, <1>3 DEF Types, ChainType
<1>4. CASE refresh /\ ~ UNCHANGED registry
  <2>1. registry' = [ops |-> [m \in Miners |-> IF m \in registered THEN Operator[m] ELSE Nobody],
                     at |-> now]
    BY <1>4 DEF refresh
  <2> QED BY <1>1, <1>2, <2>1 DEF ChainType
<1>5. CASE Crash
  <2>1. registry' = [ops |-> [m \in Miners |-> Nobody], at |-> -1]
    BY <1>5 DEF Crash
  <2> QED BY <1>1, <1>2, <2>1 DEF ChainType
<1> QED BY <1>3, <1>4, <1>5, RegistryStep

(* A thread at a stage has the record of that stage.                         *)
LEMMA Stages ==
  ASSUME ThreadType, NEW t \in Threads
  PROVE  /\ thread[t].pc \in {"refresh", "attribute"} => thread[t] \in Verifying
         /\ thread[t].pc \in {"paid", "check", "record"} => thread[t] \in Admitting
         /\ thread[t].pc = "evict" => thread[t] \in Evicting
         /\ thread[t].pc \in {"remove", "write"} => thread[t] \in Putting
         /\ thread[t].pc = "list" => thread[t] \in Listing
<1>1. thread[t] \in ThreadRecord
  BY DEF ThreadType
<1>2. \A x \in ThreadRecord :
        /\ x.pc \in {"refresh", "attribute"} => x \in Verifying
        /\ x.pc \in {"paid", "check", "record"} => x \in Admitting
        /\ x.pc = "evict" => x \in Evicting
        /\ x.pc \in {"remove", "write"} => x \in Putting
        /\ x.pc = "list" => x \in Listing
  BY DEF ThreadRecord, Idle, Verifying, Admitting, Evicting, Putting, Listing
<1> QED BY <1>1, <1>2

(* A record of the current clock's types is one of a later clock's.          *)
LEMMA RecordsLast ==
  ASSUME Types, [Next]_vars, NEW x \in ThreadRecord
  PROVE  x \in ThreadRecord'
<1>1. now \in Nat /\ now' \in Nat /\ now <= now'
  BY ClockStep
<1>2. CASE x \in Putting
  <2>1. x \in [pc : {"remove", "write"}, req : RequestType, writer : Writers,
               evicted : SUBSET Keys, clock : Nat]
        /\ x.writer \in {Nobody, Owner(x.req)} /\ x.clock <= now
    BY <1>2 DEF Putting
  <2>2. x.clock \in Nat /\ x.clock <= now'
    BY <1>1, <2>1
  <2> QED BY <2>1, <2>2 DEF Putting, ThreadRecord
<1>3. CASE x \notin Putting
  BY <1>3 DEF ThreadRecord, Verifying, Admitting, Evicting, Listing
<1> QED BY <1>2, <1>3

LEMMA ThreadMoves ==
  ASSUME Types, [Next]_vars, NEW t \in Threads, NEW x \in ThreadRecord,
         thread' = [thread EXCEPT ![t] = x]
  PROVE  ThreadType'
<1>1. \A u \in Threads : thread'[u] \in ThreadRecord
  BY DEF Types, ThreadType
<1>2. \A u \in Threads : thread'[u] \in ThreadRecord'
  BY <1>1, RecordsLast
<1>3. thread' = [u \in Threads |-> thread'[u]]
  BY DEF Types, ThreadType
<1> HIDE DEF ThreadRecord
<1> QED BY <1>2, <1>3 DEF ThreadType

(* A refused or accepted deposit goes on under Nobody or its owner.          *)
LEMMA DecideType ==
  ASSUME Types, [Next]_vars, NEW t \in Threads, NEW r \in RequestType,
         NEW w \in Writers, w \in {Nobody, Owner(r)}, Decide(t, r, w)
  PROVE  ThreadType'
<1> DEFINE x == [pc |-> "evict", req |-> r, writer |-> w]
<1>1. x \in ThreadRecord /\ Idle \in ThreadRecord
  BY DEF ThreadRecord, Evicting
<1>2. thread' = [thread EXCEPT ![t] = IF Authorised(r, w) THEN x ELSE Idle]
  BY DEF Decide
<1> HIDE DEF x
<1> QED BY <1>1, <1>2, ThreadMoves

LEMMA FinishType ==
  ASSUME Types, [Next]_vars, NEW t \in Threads, Finish(t)
  PROVE  ThreadType'
<1>1. Idle \in ThreadRecord
  BY DEF ThreadRecord
<1> QED BY <1>1, ThreadMoves DEF Finish

(* A deposit of the authority the verdict found is its owner's.              *)
LEMMA AttributedOwned ==
  ASSUME Types, NEW r \in Signed, Attributed(r)
  PROVE  r \in Owned
<1>1. r \in RequestType /\ r.key[2] = r.miner /\ r.miner \in Miners
  BY DEF Signed, Verifiable, NamedByKey, RequestType
<1>2. Authority(r) # Nobody /\ r.signer = Authority(r)
  BY DEF Attributed
<1>3. CASE r.kind = "req"
  BY <1>2, <1>3 DEF Owned, Owner, Authority, RoleOf
<1>4. CASE r.kind # "req"
  <2>1. registry.ops[r.miner] = Operator[r.miner]
    BY <1>1, <1>2, <1>4 DEF Authority, RoleOf, Types, ChainType
  <2> QED BY <1>1, <1>2, <1>4, <2>1 DEF Owned, Owner, Authority, RoleOf
<1> QED BY <1>3, <1>4

LEMMA ReceiveType ==
  ASSUME Types, [Next]_vars, NEW t \in Threads, NEW r \in UNION RequestSets, Receive(t, r)
  PROVE  ThreadType'
<1>1. r \in RequestType
  BY RelayAssumption
<1>2. CASE Verifiable(r)
  <2> DEFINE x == [pc |-> "refresh", req |-> r, reread |-> FALSE, mark |-> -1]
  <2>1. r \in Signed
    BY <1>1, <1>2 DEF Signed
  <2>2. x \in ThreadRecord
    BY <2>1 DEF ThreadRecord, Verifying
  <2>3. thread' = [thread EXCEPT ![t] = x]
    BY <1>2 DEF Receive
  <2> HIDE DEF x
  <2> QED BY <2>2, <2>3, ThreadMoves
<1>3. CASE ~ Verifiable(r)
  BY <1>1, <1>3, DecideType DEF Receive, Writers
<1> QED BY <1>2, <1>3

LEMMA RefreshType ==
  ASSUME Types, [Next]_vars, NEW t \in Threads, Refresh(t)
  PROVE  ThreadType'
<1> DEFINE x == [thread[t] EXCEPT !.pc = "attribute"]
<1>1. thread[t] \in Verifying
  BY Stages DEF Refresh, Serving, Types
<1>2. x \in ThreadRecord
  BY <1>1 DEF Verifying, ThreadRecord
<1>3. thread' = [thread EXCEPT ![t] = x]
  BY DEF Refresh, Step
<1> HIDE DEF x
<1> QED BY <1>2, <1>3, ThreadMoves

LEMMA AttributeType ==
  ASSUME Types, [Next]_vars, NEW t \in Threads, Attribute(t)
  PROVE  ThreadType'
<1>1. thread[t] \in Verifying
  BY Stages DEF Attribute, Serving, Types
<1>2. Req(t) \in Signed /\ Req(t) \in RequestType
  BY <1>1 DEF Verifying, Req, Signed
<1>3. CASE thread' = [thread EXCEPT ![t].reread = TRUE]
  <2> DEFINE x == [thread[t] EXCEPT !.reread = TRUE]
  <2>1. x \in ThreadRecord
    BY <1>1 DEF Verifying, ThreadRecord
  <2>2. thread' = [thread EXCEPT ![t] = x]
    BY <1>3
  <2> HIDE DEF x
  <2> QED BY <2>1, <2>2, ThreadMoves
<1>4. ASSUME NEW p \in {"paid", "check"}, Attributed(Req(t)), Step(t, p) PROVE ThreadType'
  <2> DEFINE x == [thread[t] EXCEPT !.pc = p]
  <2>1. Req(t) \in Owned
    BY <1>2, <1>4, AttributedOwned
  <2>2. x \in ThreadRecord
    BY <1>1, <2>1 DEF Verifying, Admitting, ThreadRecord, Req
  <2>3. thread' = [thread EXCEPT ![t] = x]
    BY <1>4 DEF Step
  <2> HIDE DEF x
  <2> QED BY <2>2, <2>3, ThreadMoves
<1>5. CASE Decide(t, Req(t), Nobody)
  BY <1>2, <1>5, DecideType DEF Writers
<1> QED BY <1>3, <1>4, <1>5 DEF Attribute

LEMMA AdmitType ==
  ASSUME Types, [Next]_vars, NEW t \in Threads, Paid(t) \/ CheckReplay(t) \/ RecordReplay(t)
  PROVE  ThreadType'
<1>1. thread[t] \in Admitting
  BY Stages DEF Paid, CheckReplay, RecordReplay, Serving, Types
<1>2. Req(t) \in Owned /\ Req(t) \in RequestType /\ Req(t).signer = Owner(Req(t))
      /\ Req(t).signer \in Addresses
  BY <1>1 DEF Admitting, Req, Owned, Signed, Verifiable, RequestType
<1>3. ASSUME NEW w \in {Nobody, Owner(Req(t))}, Decide(t, Req(t), w) PROVE ThreadType'
  BY <1>2, <1>3, DecideType DEF Writers
<1>4. CASE Step(t, "check")
  <2> DEFINE x == [thread[t] EXCEPT !.pc = "check"]
  <2>1. x \in ThreadRecord
    BY <1>1 DEF Admitting, ThreadRecord
  <2>2. thread' = [thread EXCEPT ![t] = x]
    BY <1>4 DEF Step
  <2> HIDE DEF x
  <2> QED BY <2>1, <2>2, ThreadMoves
<1>5. CASE thread' = [thread EXCEPT ![t].pc = "record", ![t].mark = high[Req(t).signer]]
  <2> DEFINE mark == high[Req(t).signer]
             x == [thread[t] EXCEPT !.pc = "record", !.mark = mark]
  <2>1. mark \in {-1} \cup Nat
    BY <1>2 DEF Types, GuardType
  <2>2. thread' = [thread EXCEPT ![t] = x]
    BY <1>5 DEF Types, ThreadType
  <2> HIDE DEF mark
  <2>3. x \in ThreadRecord
    BY <1>1, <2>1 DEF Admitting, ThreadRecord
  <2> HIDE DEF x
  <2> QED BY <2>2, <2>3, ThreadMoves
<1>6. CASE Paid(t)
  BY <1>3, <1>4, <1>6 DEF Paid
<1>7. CASE CheckReplay(t)
  BY <1>3, <1>5, <1>7 DEF CheckReplay
<1>8. CASE RecordReplay(t)
  BY <1>2, <1>3, <1>8 DEF RecordReplay
<1> QED BY <1>6, <1>7, <1>8

(* What Old names are keys of the table.                                     *)
LEMMA KeysType ==
  ASSUME NEW s \in Seq(EntryRecord)
  PROVE  KeysOf(s) \in SUBSET Keys
<1>1. \A i \in DOMAIN s : s[i] \in EntryRecord
  OBVIOUS
<1>2. \A x \in EntryRecord : x.key \in Keys
  BY DEF EntryRecord
<1> QED BY <1>1, <1>2 DEF KeysOf

LEMMA SnapshotType ==
  ASSUME StoreType
  PROVE  Snapshot \in [Kinds -> SUBSET Keys]
<1>1. \A k \in Kinds : store[k] \in Seq(EntryRecord)
  BY DEF StoreType
<1>2. \A k \in Kinds : KeysOf(store[k]) \in SUBSET Keys
  BY <1>1, KeysType
<1> QED BY <1>2 DEF Snapshot

(* Eviction by age takes only what has outlived the retention.               *)
LEMMA OldOK ==
  ASSUME NEW s \in Seq(EntryRecord), now \in Nat
  PROVE  /\ Old(s) \in SUBSET Keys
         /\ Distinct(s) => \A i \in DOMAIN s : now - s[i].ts <= Retention => s[i].key \notin Old(s)
<1> DEFINE young == {i \in DOMAIN s : now - s[i].ts <= Retention}
           m == Min(young)
           head == SubSeq(s, 1, m - 1)
<1>1. DOMAIN s = 1..Len(s) /\ Len(s) \in Nat /\ \A i \in DOMAIN s : s[i] \in EntryRecord
  OBVIOUS
<1>2. Old(s) = IF young = {} THEN KeysOf(s) ELSE KeysOf(head)
  BY DEF Old
<1>3. CASE young = {}
  BY <1>2, <1>3, KeysType
<1>4. CASE young # {}
  <2>1. young \subseteq DOMAIN s /\ IsFiniteSet(young) /\ young \subseteq Int
    <3>1. young \subseteq DOMAIN s
      OBVIOUS
    <3>2. IsFiniteSet(1..Len(s))
      BY <1>1, FS_Interval
    <3> HIDE DEF young
    <3>3. young \in SUBSET (1..Len(s))
      BY <1>1, <3>1
    <3>4. IsFiniteSet(young)
      BY <3>2, <3>3, FS_Subset
    <3> QED BY <1>1, <3>1, <3>3, <3>4
  <2>2. m \in young /\ \A i \in young : m <= i
    <3> HIDE DEF young
    <3> QED BY <1>4, <2>1, HasFirst
  <2>3. \A i \in DOMAIN s : now - s[i].ts <= Retention => i \in young
    OBVIOUS
  <2> HIDE DEF young, m
  <2>4. m \in 1..Len(s)
    BY <1>1, <2>1, <2>2
  <2>5. head = [n \in 1..(m - 1) |-> s[n]]
    BY <1>1, <2>4
  <2> HIDE DEF head
  <2>6. \A n \in 1..(m - 1) : n \in DOMAIN s /\ head[n] = s[n]
    BY <1>1, <2>4, <2>5
  <2>7. DOMAIN head = 1..(m - 1)
    BY <2>5
  <2>8. \A x \in KeysOf(head) : \E n \in DOMAIN s : n < m /\ s[n].key = x
    <3> SUFFICES ASSUME NEW n \in DOMAIN head
                 PROVE  n \in DOMAIN s /\ n < m /\ s[n].key = head[n].key
      BY DEF KeysOf
    <3>1. n \in 1..(m - 1)
      BY <2>7
    <3>2. n < m
      BY <2>4, <3>1
    <3> QED BY <2>6, <3>1, <3>2
  <2>9. KeysOf(s) \in SUBSET Keys
    BY KeysType
  <2>10. KeysOf(head) \in SUBSET Keys
    BY <2>8, <2>9 DEF KeysOf
  <2>11. ASSUME Distinct(s), NEW i \in DOMAIN s, now - s[i].ts <= Retention
         PROVE  s[i].key \notin KeysOf(head)
    <3>1. i \in young /\ m <= i
      BY <2>2, <2>3, <2>11
    <3>2. \A n \in DOMAIN s : s[n].key = s[i].key => n = i
      BY <2>11 DEF Distinct
    <3>3. i \in Int /\ m \in Int
      BY <1>1, <2>4
    <3> QED BY <2>8, <3>1, <3>2, <3>3
  <2> QED BY <1>2, <1>4, <2>10, <2>11
<1> QED BY <1>3, <1>4

LEMMA PutType ==
  ASSUME Types, [Next]_vars, NEW t \in Threads, Evict(t) \/ RemoveEvicted(t)
  PROVE  ThreadType'
<1>1. CASE Evict(t)
  <2> DEFINE gone == Old(store[Req(t).kind])
             x == [pc |-> IF gone = {} THEN "write" ELSE "remove", req |-> Req(t),
                   writer |-> thread[t].writer, evicted |-> gone, clock |-> now]
  <2>1. thread[t] \in Evicting
    BY <1>1, Stages DEF Evict, Serving, Types
  <2>2. Req(t) \in RequestType /\ thread[t].writer \in Writers
        /\ thread[t].writer \in {Nobody, Owner(Req(t))} /\ Req(t).kind \in Kinds
    BY <2>1 DEF Evicting, Req, RequestType
  <2>3. gone \in SUBSET Keys /\ now \in Nat
    <3>1. store[Req(t).kind] \in Seq(EntryRecord) /\ now \in Nat
      BY <2>2 DEF Types, StoreType, ChainType
    <3> QED BY <3>1, OldOK
  <2>4. thread' = [thread EXCEPT ![t] = x]
    BY <1>1 DEF Evict, Types, ThreadType
  <2> HIDE DEF gone
  <2>5. x \in Putting
    BY <2>2, <2>3 DEF Putting
  <2>6. x \in ThreadRecord
    BY <2>5 DEF ThreadRecord
  <2> HIDE DEF x
  <2> QED BY <2>4, <2>6, ThreadMoves
<1>2. CASE RemoveEvicted(t)
  <2> DEFINE x == [thread[t] EXCEPT !.pc = "write"]
  <2>1. thread[t] \in Putting
    BY <1>2, Stages DEF RemoveEvicted, Serving, Types
  <2>2. x \in Putting
    BY <2>1 DEF Putting
  <2>3. thread' = [thread EXCEPT ![t] = x]
    BY <1>2 DEF RemoveEvicted, Step
  <2>4. x \in ThreadRecord
    BY <2>2 DEF ThreadRecord
  <2> HIDE DEF x
  <2> QED BY <2>3, <2>4, ThreadMoves
<1> QED BY <1>1, <1>2

LEMMA ThreadTypeStep == ASSUME Types, [Next]_vars PROVE ThreadType'
<1>1. CASE UNCHANGED thread
  <2>1. \A t \in Threads : thread[t] \in ThreadRecord'
    BY RecordsLast DEF Types, ThreadType
  <2>2. thread' = [t \in Threads |-> thread[t]]
    BY <1>1 DEF Types, ThreadType
  <2> HIDE DEF ThreadRecord
  <2> QED BY <2>1, <2>2 DEF ThreadType
<1>2. CASE Crash
  <2>1. Idle \in ThreadRecord'
    BY DEF ThreadRecord
  <2>2. thread' = [t \in Threads |-> Idle]
    BY <1>2 DEF Crash
  <2> HIDE DEF ThreadRecord
  <2> QED BY <2>1, <2>2 DEF ThreadType
<1>3. ASSUME NEW t \in Threads, ListBuild(t) PROVE ThreadType'
  <2> DEFINE x == [pc |-> "list", version |-> version, keys |-> Snapshot]
  <2>1. Snapshot \in [Kinds -> SUBSET Keys] /\ version \in Nat
    BY SnapshotType DEF Types, StoreType
  <2>2. x \in ThreadRecord
    BY <2>1 DEF ThreadRecord, Listing
  <2>3. thread' = [thread EXCEPT ![t] = x]
    BY <1>3 DEF ListBuild
  <2> HIDE DEF x
  <2> QED BY <2>2, <2>3, ThreadMoves
<1>4. ASSUME NEW t \in Threads, WriteUnchanged(t) \/ WriteFails(t) \/ Write(t) \/ ListFile(t)
      PROVE  ThreadType'
  <2>1. Finish(t)
    BY <1>4 DEF WriteUnchanged, WriteFails, Write, ListFile
  <2> QED BY <2>1, FinishType
<1>5. CASE Boot \/ Tick \/ (\E m \in Miners : Register(m)) \/ (\E j \in DOMAIN Payer : CloseJob(j))
           \/ UNCHANGED vars
  BY <1>1, <1>5 DEF Boot, Tick, Register, CloseJob, vars
<1> QED BY <1>2, <1>3, <1>4, <1>5, ReceiveType, RefreshType, AttributeType, AdmitType, PutType
        DEF Next

(* What a step does to the tables.                                           *)
LEMMA StoreSteps ==
  ASSUME Types, [Next]_vars
  PROVE  \/ UNCHANGED <<books, disk>>
         \/ \E t \in Threads : Evict(t) \/ RemoveEvicted(t) \/ Write(t) \/ ListFile(t)
         \/ Crash \/ Boot
BY DEF Next, vars, Receive, Refresh, Attribute, Paid, CheckReplay, RecordReplay,
       WriteUnchanged, WriteFails, ListBuild, Tick, Register, CloseJob, books

(* The entry a deposit writes.                                               *)
LEMMA EntryWritten ==
  ASSUME Types, NEW t \in Threads, Write(t)
  PROVE  /\ Req(t) \in RequestType /\ Req(t).kind \in Kinds
         /\ Entry(Req(t).key, Req(t).body, thread[t].clock) \in EntryRecord
         /\ Entry(Req(t).key, Req(t).body, thread[t].clock).ts <= now
<1>1. thread[t] \in Putting
  BY Stages DEF Write, Serving, Types
<1>2. Req(t) \in RequestType /\ thread[t].clock \in Nat /\ thread[t].clock <= now
  BY <1>1 DEF Putting, Req
<1> QED BY <1>2 DEF Entry, EntryRecord, RequestType

(* A table some of whose entries leave, or where one is replaced, stays one. *)
LEMMA TableWithout ==
  ASSUME NEW S \in [Kinds -> Seq(EntryRecord)], Dated(S), NEW k \in Kinds, NEW ks
  PROVE  /\ [S EXCEPT ![k] = Without(@, ks)] \in [Kinds -> Seq(EntryRecord)]
         /\ Dated([S EXCEPT ![k] = Without(@, ks)])
<1> DEFINE T == [S EXCEPT ![k] = Without(@, ks)]
<1>1. /\ Without(S[k], ks) \in Seq(EntryRecord)
      /\ \A n \in DOMAIN Without(S[k], ks) : \E i \in DOMAIN S[k] : Without(S[k], ks)[n] = S[k][i]
  BY WithoutOK
<1>2. T \in [Kinds -> Seq(EntryRecord)]
  BY <1>1
<1>3. ASSUME NEW u \in Kinds, NEW n \in DOMAIN T[u] PROVE T[u][n].ts <= now
  BY <1>1 DEF Dated
<1> QED BY <1>2, <1>3 DEF Dated

LEMMA TableReplace ==
  ASSUME NEW S \in [Kinds -> Seq(EntryRecord)], Dated(S), NEW k \in Kinds, NEW e \in EntryRecord,
         e.ts <= now
  PROVE  /\ [S EXCEPT ![k] = Replace(@, e)] \in [Kinds -> Seq(EntryRecord)]
         /\ Dated([S EXCEPT ![k] = Replace(@, e)])
<1> DEFINE T == [S EXCEPT ![k] = Replace(@, e)]
<1>1. /\ Replace(S[k], e) \in Seq(EntryRecord)
      /\ \A n \in DOMAIN Replace(S[k], e) :
           Replace(S[k], e)[n] = e \/ \E i \in DOMAIN S[k] : Replace(S[k], e)[n] = S[k][i]
  BY ReplaceOK
<1>2. T \in [Kinds -> Seq(EntryRecord)]
  BY <1>1
<1>3. ASSUME NEW u \in Kinds, NEW n \in DOMAIN T[u] PROVE T[u][n].ts <= now
  BY <1>1 DEF Dated
<1> QED BY <1>2, <1>3 DEF Dated

-----------------------------------------------------------------------------
(* Tables, byte counts and list agree.                                       *)

(* A copy of the queue's keys is as old as its version says.                 *)
Current(v, keys) == v <= version /\ (v = version => keys = Snapshot)

StoreInv ==
  /\ \A k \in Kinds : Distinct(store[k]) /\ Distinct(disk[k]) /\ used[k] = SumCost(store[k])
  /\ Current(listing.version, listing.keys)
  /\ \A t \in Threads : thread[t].pc = "list" => Current(thread[t].version, thread[t].keys)

(* Entries dated by now are dated by any later moment.                       *)
LEMMA DatedLater ==
  ASSUME Types, [Next]_vars, NEW S \in [Kinds -> Seq(EntryRecord)], Dated(S)
  PROVE  \A k \in Kinds : \A i \in DOMAIN S[k] : S[k][i].ts <= now'
<1>1. now \in Nat /\ now' \in Nat /\ now <= now'
  BY ClockStep
<1>2. SUFFICES ASSUME NEW k \in Kinds, NEW i \in DOMAIN S[k] PROVE S[k][i].ts <= now'
  OBVIOUS
<1>3. S[k][i] \in EntryRecord
  <2>1. S[k] \in Seq(EntryRecord)
    OBVIOUS
  <2> QED BY <2>1
<1>4. S[k][i].ts \in Nat
  BY <1>3 DEF EntryRecord
<1> QED BY <1>1, <1>4 DEF Dated

LEMMA StoreInit == Init => StoreInv
<1> SUFFICES ASSUME Init PROVE StoreInv
  OBVIOUS
<1>1. SumCost(<<>>) = 0
  <2>1. <<>> \in Seq(EntryRecord) /\ DOMAIN <<>> = {}
    OBVIOUS
  <2>2. SumCost(<<>>) = SumOf(Costs(<<>>), {})
    BY <2>1, CostType
  <2> QED BY <2>2, SumOfStep, FS_EmptySet
<1>2. \A k \in Kinds : Distinct(store[k]) /\ Distinct(disk[k]) /\ used[k] = SumCost(store[k])
  BY <1>1 DEF Init, Distinct
<1>3. Current(listing.version, listing.keys)
  BY DEF Init, Current
<1>4. \A t \in Threads : thread[t].pc # "list"
  BY DEF Init, Idle
<1> QED BY <1>2, <1>3, <1>4 DEF StoreInv

Tables(s, d, u) ==
  /\ s \in [Kinds -> Seq(EntryRecord)] /\ Dated(s)
  /\ d \in [Kinds -> Seq(EntryRecord)] /\ Dated(d)
  /\ u \in [Kinds -> Int]
  /\ \A k \in Kinds : Distinct(s[k]) /\ Distinct(d[k]) /\ u[k] = SumCost(s[k])

VersionGrows ==
  version' \in Nat /\ version <= version' /\ (version' = version => Snapshot' = Snapshot)

LEMMA TablesNow == ASSUME Types, StoreInv PROVE Tables(store, disk, used)
BY DEF Types, StoreType, StoreInv, Tables

LEMMA EvictStore ==
  ASSUME Types, StoreInv, NEW t \in Threads, Evict(t)
  PROVE  Tables(store', disk', used') /\ VersionGrows
<1> DEFINE k == Req(t).kind
           gone == Old(store[k])
<1>1. k \in Kinds
  BY Stages DEF Evict, Serving, Types, Evicting, Req, RequestType
<1>2. /\ store' = [store EXCEPT ![k] = Without(@, gone)]
      /\ used' = [used EXCEPT ![k] = @ - SumCost(Only(store[k], gone))]
      /\ disk' = disk /\ version' = version + (IF gone = {} THEN 0 ELSE 1)
  BY DEF Evict, Bump
<1>3. store[k] \in Seq(EntryRecord)
  BY <1>1 DEF Types, StoreType
<1> HIDE DEF gone, k
<1>4. Tables(store, disk, used)
  BY TablesNow
<1>5. store' \in [Kinds -> Seq(EntryRecord)] /\ Dated(store')
  BY <1>1, <1>2, <1>4, TableWithout DEF Tables
<1>6. /\ SumCost(store[k]) = SumCost(Only(store[k], gone)) + SumCost(Without(store[k], gone))
      /\ SumCost(Only(store[k], gone)) \in Nat /\ SumCost(Without(store[k], gone)) \in Nat
  BY <1>3, SumWithout
<1>7. used' \in [Kinds -> Int] /\ \A u \in Kinds : used'[u] = SumCost(store'[u])
  BY <1>1, <1>2, <1>4, <1>6 DEF Tables
<1>8. \A u \in Kinds : Distinct(store'[u])
  <2>1. Distinct(Without(store[k], gone))
    BY <1>1, <1>3, <1>4, WithoutOK DEF Tables
  <2> QED BY <1>2, <1>4, <2>1 DEF Tables
<1>9. Tables(store', disk', used')
  BY <1>2, <1>4, <1>5, <1>7, <1>8 DEF Tables
<1>10. version \in Nat
  BY DEF Types, StoreType
<1>11. CASE gone = {}
  <2>1. KeysOf(Without(store[k], gone)) = KeysOf(store[k])
    <3>1. KeysOf(Without(store[k], gone)) = KeysOf(store[k]) \ gone
      BY <1>3, KeysWithout
    <3> QED BY <1>11, <3>1
  <2>2. \A u \in Kinds : KeysOf(store'[u]) = KeysOf(store[u])
    BY <1>2, <1>4, <2>1 DEF Tables
  <2>3. Snapshot' = Snapshot
    BY <2>2 DEF Snapshot
  <2> QED BY <1>2, <1>9, <1>10, <1>11, <2>3 DEF VersionGrows
<1>12. CASE gone # {}
  BY <1>2, <1>9, <1>10, <1>12 DEF VersionGrows
<1> QED BY <1>11, <1>12

LEMMA RemoveStore ==
  ASSUME Types, StoreInv, NEW t \in Threads, RemoveEvicted(t)
  PROVE  Tables(store', disk', used') /\ VersionGrows
<1> DEFINE k == Req(t).kind
           gone == thread[t].evicted
<1>1. k \in Kinds
  BY Stages DEF RemoveEvicted, Serving, Types, Putting, Req, RequestType
<1>2. disk' = [disk EXCEPT ![k] = Without(@, gone)] /\ UNCHANGED <<store, used, version>>
  BY DEF RemoveEvicted, books
<1> HIDE DEF gone, k
<1>3. Tables(store, disk, used)
  BY TablesNow
<1>4. disk' \in [Kinds -> Seq(EntryRecord)] /\ Dated(disk')
  BY <1>1, <1>2, <1>3, TableWithout DEF Tables
<1>5. \A u \in Kinds : Distinct(disk'[u])
  <2>1. Distinct(Without(disk[k], gone))
    BY <1>1, <1>3, WithoutOK DEF Tables
  <2> QED BY <1>2, <1>3, <2>1 DEF Tables
<1>6. Snapshot' = Snapshot /\ version \in Nat
  BY <1>2 DEF Snapshot, Types, StoreType
<1> QED BY <1>2, <1>3, <1>4, <1>5, <1>6 DEF Tables, VersionGrows

LEMMA WriteStore ==
  ASSUME Types, StoreInv, NEW t \in Threads, Write(t)
  PROVE  Tables(store', disk', used') /\ VersionGrows
<1> DEFINE k == Req(t).kind
           e == Entry(Req(t).key, Req(t).body, thread[t].clock)
           held == IF Held(Req(t)) THEN Cost[HeldBody(Req(t))] ELSE 0
<1>1. k \in Kinds /\ e \in EntryRecord /\ e.ts <= now
  BY EntryWritten
<1>2. /\ store' = [store EXCEPT ![k] = Replace(@, e)] /\ disk' = [disk EXCEPT ![k] = Replace(@, e)]
      /\ used' = [used EXCEPT ![k] = used[k] - held + Cost[e.body]] /\ version' = version + 1
  BY DEF Write, After, Entry
<1>3. held = IF e.key \in KeysOf(store[k]) THEN Cost[At(store[k], e.key).body] ELSE 0
  BY DEF Held, HeldBody, Entry
<1> HIDE DEF k, e, held
<1>4. Tables(store, disk, used)
  BY TablesNow
<1>5. store' \in [Kinds -> Seq(EntryRecord)] /\ Dated(store')
      /\ disk' \in [Kinds -> Seq(EntryRecord)] /\ Dated(disk')
  BY <1>1, <1>2, <1>4, TableReplace DEF Tables
<1>6. /\ store[k] \in Seq(EntryRecord) /\ Distinct(store[k]) /\ used[k] = SumCost(store[k])
      /\ disk[k] \in Seq(EntryRecord) /\ Distinct(disk[k])
  BY <1>1, <1>4 DEF Tables
<1>7. SumCost(Replace(store[k], e)) = SumCost(store[k]) - held + Cost[e.body]
  BY <1>1, <1>3, <1>6, SumReplace
<1>8. SumCost(Replace(store[k], e)) \in Nat
  <2>1. Replace(store[k], e) \in Seq(EntryRecord)
    BY <1>1, <1>6, ReplaceOK
  <2> QED BY <2>1, CostType
<1>9. used' \in [Kinds -> Int] /\ \A u \in Kinds : used'[u] = SumCost(store'[u])
  BY <1>1, <1>2, <1>4, <1>6, <1>7, <1>8 DEF Tables
<1>10. \A u \in Kinds : Distinct(store'[u]) /\ Distinct(disk'[u])
  <2>1. Distinct(Replace(store[k], e)) /\ Distinct(Replace(disk[k], e))
    BY <1>1, <1>6, ReplaceOK
  <2> QED BY <1>2, <1>4, <2>1 DEF Tables
<1>11. version \in Nat
  BY DEF Types, StoreType
<1> QED BY <1>2, <1>5, <1>9, <1>10, <1>11 DEF Tables, VersionGrows

LEMMA BootStore ==
  ASSUME Types, StoreInv, Boot
  PROVE  Tables(store', disk', used') /\ VersionGrows
<1>1. /\ disk' = [k \in Kinds |-> Without(disk[k], Expired(k))] /\ store' = disk'
      /\ used' = [k \in Kinds |-> SumCost(disk'[k])] /\ version' = version + 1
  BY DEF Boot
<1>2. Tables(store, disk, used)
  BY TablesNow
<1>3. ASSUME NEW k \in Kinds
      PROVE  /\ disk'[k] \in Seq(EntryRecord) /\ Distinct(disk'[k])
             /\ \A n \in DOMAIN disk'[k] : disk'[k][n].ts <= now
  <2>1. disk[k] \in Seq(EntryRecord) /\ Distinct(disk[k]) /\ \A i \in DOMAIN disk[k] : disk[k][i].ts <= now
    BY <1>2 DEF Tables, Dated
  <2> DEFINE w == Without(disk[k], Expired(k))
  <2>2. /\ w \in Seq(EntryRecord) /\ (Distinct(disk[k]) => Distinct(w))
        /\ \A n \in DOMAIN w : \E i \in DOMAIN disk[k] : w[n] = disk[k][i]
    BY <2>1, WithoutOK
  <2>3. disk'[k] = w
    BY <1>1
  <2> HIDE DEF w
  <2> QED BY <2>1, <2>2, <2>3
<1>4. \A k \in Kinds : SumCost(disk'[k]) \in Nat
  BY <1>3, CostType
<1>5. disk' \in [Kinds -> Seq(EntryRecord)] /\ Dated(disk')
  BY <1>1, <1>3 DEF Dated
<1>6. used' \in [Kinds -> Int] /\ \A k \in Kinds : used'[k] = SumCost(disk'[k])
  BY <1>1, <1>4
<1>7. version \in Nat
  BY DEF Types, StoreType
<1> QED BY <1>1, <1>3, <1>5, <1>6, <1>7 DEF Tables, VersionGrows

LEMMA CrashStore ==
  ASSUME Types, StoreInv, Crash
  PROVE  Tables(store', disk', used') /\ version' = version
<1>1. /\ store' = [k \in Kinds |-> <<>>] /\ used' = [k \in Kinds |-> 0]
      /\ disk' = disk /\ version' = version
  BY DEF Crash
<1>2. Tables(store, disk, used)
  BY TablesNow
<1>3. <<>> \in Seq(EntryRecord) /\ DOMAIN <<>> = {} /\ Distinct(<<>>)
  BY DEF Distinct
<1>4. SumCost(<<>>) = 0
  <2>1. SumCost(<<>>) = SumOf(Costs(<<>>), {})
    BY <1>3, CostType
  <2> QED BY <2>1, SumOfStep, FS_EmptySet
<1>5. Dated(store')
  BY <1>1, <1>3 DEF Dated
<1> QED BY <1>1, <1>2, <1>3, <1>4, <1>5 DEF Tables

LEMMA ListFileStore ==
  ASSUME Types, StoreInv, NEW t \in Threads, ListFile(t)
  PROVE  /\ listing' = listing \/ listing' = [version |-> thread[t].version, keys |-> thread[t].keys]
         /\ thread[t].pc = "list" /\ UNCHANGED <<store, disk, used, version>>
BY DEF ListFile, Serving

(* Every table a step leaves is well formed, dated by the clock and charged. *)
LEMMA TablesStep ==
  ASSUME Types, StoreInv, [Next]_vars
  PROVE  Tables(store', disk', used') /\ (VersionGrows \/ Crash)
<1>1. CASE UNCHANGED <<store, disk, used, version>>
  <2>1. Snapshot' = Snapshot /\ version \in Nat
    BY <1>1 DEF Snapshot, Types, StoreType
  <2> QED BY <1>1, <2>1, TablesNow DEF VersionGrows
<1>2. CASE UNCHANGED <<books, disk>>
  BY <1>1, <1>2 DEF books
<1> QED BY <1>1, <1>2, StoreSteps, EvictStore, RemoveStore, WriteStore, BootStore, CrashStore,
           ListFileStore

(* The threads that copy the queue's keys are those of before, or one that   *)
(* has just copied them.                                                     *)
LEMMA ListersAre ==
  ASSUME Types, [Next]_vars, NEW t \in Threads, thread'[t].pc = "list"
  PROVE  \/ thread'[t] = thread[t]
         \/ /\ thread'[t] = [pc |-> "list", version |-> version, keys |-> Snapshot]
            /\ UNCHANGED <<store, version>>
<1>1. thread \in [Threads -> ThreadRecord]
  BY DEF Types, ThreadType
<1>2. ASSUME NEW u \in Threads, NEW x, x.pc # "list", thread' = [thread EXCEPT ![u] = x]
      PROVE  thread'[t] = thread[t]
  BY <1>1, <1>2
<1>3. ASSUME NEW u \in Threads, NEW r, NEW w, Decide(u, r, w) PROVE thread'[t] = thread[t]
  <2> DEFINE x == IF Authorised(r, w) THEN [pc |-> "evict", req |-> r, writer |-> w] ELSE Idle
  <2>1. x.pc # "list" /\ thread' = [thread EXCEPT ![u] = x]
    BY <1>3 DEF Decide, Idle
  <2> HIDE DEF x
  <2> QED BY <1>2, <2>1
<1>4. ASSUME NEW u \in Threads, NEW p \in {"attribute", "paid", "check", "record", "write"},
             NEW x, thread' = [thread EXCEPT ![u] = x], x = [thread[u] EXCEPT !.pc = p]
      PROVE  thread'[t] = thread[t]
  <2>1. CASE u = t
    <3>1. thread'[t] = x
      BY <1>1, <1>4, <2>1
    <3>2. thread[u] \in ThreadRecord
      BY <1>1
    <3>3. x.pc = p
      BY <1>4, <3>2 DEF ThreadRecord, Idle, Verifying, Admitting, Evicting, Putting, Listing
    <3> QED BY <3>1, <3>3
  <2>2. CASE u # t
    BY <1>1, <1>4, <2>2
  <2> QED BY <2>1, <2>2
<1>5. ASSUME NEW u \in Threads, NEW p \in {"attribute", "paid", "check", "record", "write"}, Step(u, p)
      PROVE  thread'[t] = thread[t]
  BY <1>4, <1>5 DEF Step
<1>6. ASSUME NEW u \in Threads, Finish(u) PROVE thread'[t] = thread[t]
  BY <1>2, <1>6 DEF Finish, Idle
<1>7. ASSUME NEW u \in Threads, NEW r \in UNION RequestSets, Receive(u, r)
      PROVE  thread'[t] = thread[t]
  BY <1>2, <1>3, <1>7 DEF Receive
<1>8. ASSUME NEW u \in Threads,
             Refresh(u) \/ Attribute(u) \/ Paid(u) \/ CheckReplay(u) \/ RecordReplay(u)
      PROVE  thread'[t] = thread[t]
  <2>1. CASE Attribute(u)
    <3>1. CASE thread' = [thread EXCEPT ![u].reread = TRUE]
      BY <1>1, <2>1, <3>1 DEF Attribute, Serving
    <3>2. CASE Step(u, "paid") \/ Step(u, "check") \/ Decide(u, Req(u), Nobody)
      BY <1>3, <1>5, <3>2
    <3> QED BY <2>1, <3>1, <3>2 DEF Attribute
  <2>2. CASE CheckReplay(u)
    <3> DEFINE x == [thread[u] EXCEPT !.pc = "record", !.mark = high[Req(u).signer]]
    <3>1. CASE thread' = [thread EXCEPT ![u].pc = "record", ![u].mark = high[Req(u).signer]]
      <4>1. thread[u] \in Admitting
        BY <2>2, Stages DEF CheckReplay, Serving, Types
      <4>2. x.pc = "record"
        BY <4>1 DEF Admitting
      <4>3. thread' = [thread EXCEPT ![u] = x]
        BY <1>1, <3>1
      <4> HIDE DEF x
      <4> QED BY <1>2, <4>2, <4>3
    <3> QED BY <1>3, <2>2, <3>1 DEF CheckReplay
  <2> QED BY <1>3, <1>5, <1>8, <2>1, <2>2 DEF Refresh, Paid, RecordReplay
<1>9. ASSUME NEW u \in Threads, Evict(u) \/ RemoveEvicted(u) PROVE thread'[t] = thread[t]
  <2>1. CASE Evict(u)
    <3> DEFINE gone == Old(store[Req(u).kind])
               x == [pc |-> IF gone = {} THEN "write" ELSE "remove", req |-> Req(u),
                     writer |-> thread[u].writer, evicted |-> gone, clock |-> now]
    <3>1. x.pc # "list" /\ thread' = [thread EXCEPT ![u] = x]
      BY <1>1, <2>1 DEF Evict
    <3> HIDE DEF x
    <3> QED BY <1>2, <3>1
  <2> QED BY <1>5, <1>9, <2>1 DEF RemoveEvicted
<1>10. ASSUME NEW u \in Threads, WriteUnchanged(u) \/ WriteFails(u) \/ Write(u) \/ ListFile(u)
       PROVE  thread'[t] = thread[t]
  BY <1>6, <1>10 DEF WriteUnchanged, WriteFails, Write, ListFile
<1>11. ASSUME NEW u \in Threads, ListBuild(u)
       PROVE  \/ thread'[t] = thread[t]
              \/ /\ thread'[t] = [pc |-> "list", version |-> version, keys |-> Snapshot]
                 /\ UNCHANGED <<store, version>>
  BY <1>1, <1>11 DEF ListBuild, books
<1>12. CASE Crash
  BY <1>12 DEF Crash, Idle
<1>13. CASE Boot \/ Tick \/ (\E m \in Miners : Register(m)) \/ (\E j \in DOMAIN Payer : CloseJob(j))
            \/ UNCHANGED vars
  BY <1>13 DEF Boot, Tick, Register, CloseJob, vars
<1> QED BY <1>7, <1>8, <1>9, <1>10, <1>11, <1>12, <1>13 DEF Next

(* A copy of the keys stays current while the version only grows.            *)
LEMMA CopyStep ==
  ASSUME Types, VersionGrows, NEW v \in {-1} \cup Nat, NEW keys, Current(v, keys)
  PROVE  v <= version' /\ (v = version' => keys = Snapshot')
BY DEF Current, VersionGrows, Types, StoreType

LEMMA ListersStep ==
  ASSUME Types, StoreInv, [Next]_vars, VersionGrows,
         NEW t \in Threads, thread'[t].pc = "list"
  PROVE  Current(thread[t].version, thread[t].keys)'
<1>1. CASE thread'[t] = thread[t]
  <2> DEFINE v == thread[t].version
             ks == thread[t].keys
  <2>1. thread[t].pc = "list" /\ v \in {-1} \cup Nat
    BY <1>1, Stages DEF Types, Listing
  <2>2. Current(v, ks)
    BY <2>1 DEF StoreInv
  <2>3. thread'[t].version = v /\ thread'[t].keys = ks
    BY <1>1
  <2> HIDE DEF v, ks
  <2>4. v <= version' /\ (v = version' => ks = Snapshot')
    BY <2>1, <2>2, CopyStep
  <2> QED BY <2>3, <2>4 DEF Current
<1>2. CASE /\ thread'[t] = [pc |-> "list", version |-> version, keys |-> Snapshot]
           /\ UNCHANGED <<store, version>>
  <2>1. Snapshot' = Snapshot /\ version \in Nat
    BY <1>2 DEF Snapshot, Types, StoreType
  <2>2. thread'[t].version = version /\ thread'[t].keys = Snapshot
    BY <1>2
  <2> QED BY <1>2, <2>1, <2>2 DEF Current
<1> QED BY <1>1, <1>2, ListersAre

LEMMA ListingStep ==
  ASSUME Types, StoreInv, [Next]_vars
  PROVE  \/ UNCHANGED listing
         \/ \E t \in Threads :
              /\ listing' = [version |-> thread[t].version, keys |-> thread[t].keys]
              /\ thread[t] \in Listing
              /\ thread[t].pc = "list"
         \/ Crash
<1>1. ASSUME NEW t \in Threads, Evict(t) \/ RemoveEvicted(t) \/ Write(t) PROVE UNCHANGED listing
  BY <1>1 DEF Evict, RemoveEvicted, Write, books
<1>2. ASSUME NEW t \in Threads, ListFile(t)
      PROVE  \/ UNCHANGED listing
             \/ /\ listing' = [version |-> thread[t].version, keys |-> thread[t].keys]
                /\ thread[t] \in Listing
                /\ thread[t].pc = "list"
  BY <1>2, ListFileStore, Stages DEF Types
<1>3. Boot \/ UNCHANGED <<books, disk>> => UNCHANGED listing
  BY DEF Boot, books
<1> QED BY <1>1, <1>2, <1>3, StoreSteps

LEMMA StoreStep ==
  ASSUME Types, StoreInv, [Next]_vars
  PROVE  StoreType' /\ StoreInv'
<1>1. Tables(store', disk', used')
  BY TablesStep
<1>2. Dated(store)' /\ Dated(disk)'
  <2>1. /\ store' \in [Kinds -> Seq(EntryRecord)] /\ Dated(store')
        /\ disk' \in [Kinds -> Seq(EntryRecord)] /\ Dated(disk')
    BY <1>1 DEF Tables
  <2>2. /\ \A k \in Kinds : \A i \in DOMAIN store'[k] : store'[k][i].ts <= now'
        /\ \A k \in Kinds : \A i \in DOMAIN disk'[k] : disk'[k][i].ts <= now'
    BY <2>1, DatedLater
  <2> QED BY <2>2 DEF Dated
<1>3. /\ listing \in [version : {-1} \cup Nat, keys : [Kinds -> SUBSET Keys]]
      /\ version \in Nat /\ Current(listing.version, listing.keys)
  BY DEF Types, StoreType, StoreInv
<1>4. CASE Crash
  <2>1. /\ version' = version /\ listing' = [listing EXCEPT !.version = -1]
        /\ thread' = [t \in Threads |-> Idle]
    BY <1>4 DEF Crash
  <2>2. listing' \in [version : {-1} \cup Nat, keys : [Kinds -> SUBSET Keys]]
        /\ listing'.version = -1
    BY <1>3, <2>1
  <2>3. Current(listing.version, listing.keys)'
    BY <1>3, <2>1, <2>2 DEF Current
  <2>4. \A t \in Threads : thread'[t].pc # "list"
    BY <2>1 DEF Idle
  <2> QED BY <1>1, <1>2, <1>3, <2>1, <2>2, <2>3, <2>4 DEF StoreType, StoreInv, Tables
<1>5. CASE ~ Crash
  <2>1. VersionGrows
    BY <1>5, TablesStep
  <2>2. listing' \in [version : {-1} \cup Nat, keys : [Kinds -> SUBSET Keys]]
    BY <1>3, <1>5, ListingStep DEF Listing
  <2>3. Current(listing.version, listing.keys)'
    <3>1. CASE UNCHANGED listing
      <4> DEFINE v == listing.version
                 ks == listing.keys
      <4>1. v \in {-1} \cup Nat /\ Current(v, ks) /\ listing'.version = v /\ listing'.keys = ks
        BY <1>3, <3>1
      <4> HIDE DEF v, ks
      <4>2. v <= version' /\ (v = version' => ks = Snapshot')
        BY <2>1, <4>1, CopyStep
      <4> QED BY <4>1, <4>2 DEF Current
    <3>2. ASSUME NEW t \in Threads, thread[t] \in Listing, thread[t].pc = "list",
                 listing' = [version |-> thread[t].version, keys |-> thread[t].keys]
          PROVE  Current(listing.version, listing.keys)'
      <4> DEFINE v == thread[t].version
                 ks == thread[t].keys
      <4>1. v \in {-1} \cup Nat /\ Current(v, ks) /\ listing'.version = v /\ listing'.keys = ks
        BY <3>2 DEF Listing, StoreInv
      <4> HIDE DEF v, ks
      <4>2. v <= version' /\ (v = version' => ks = Snapshot')
        BY <2>1, <4>1, CopyStep
      <4> QED BY <4>1, <4>2 DEF Current
    <3> QED BY <1>5, <3>1, <3>2, ListingStep
  <2>4. \A t \in Threads : thread'[t].pc = "list" => Current(thread[t].version, thread[t].keys)'
    BY <2>1, ListersStep
  <2> QED BY <1>1, <1>2, <2>1, <2>2, <2>3, <2>4 DEF StoreType, StoreInv, Tables, VersionGrows
<1> QED BY <1>4, <1>5

-----------------------------------------------------------------------------
(* The guard remembers what it accepted, and nothing else.                   *)

GuardInv ==
  /\ \A i \in DOMAIN seen : seen[i].at <= now /\ \E a \in accepted : a.dig = seen[i].dig
  /\ \A a \in accepted : now - a.at <= Retention =>
       \E i \in DOMAIN seen : seen[i].dig = a.dig /\ seen[i].at >= a.at

LEMMA GuardInit == Init => GuardInv
BY DEF Init, GuardInv

LEMMA TimesRemembered ==
  ASSUME Types
  PROVE  /\ now \in Nat /\ Retention \in Nat
         /\ \A i \in DOMAIN seen : seen[i].at \in Nat
         /\ \A a \in accepted : a.at \in Nat
<1> DEFINE R == [dig : Digests, at : Nat]
<1>1. seen \in Seq(R) /\ accepted \subseteq R /\ \A r \in R : r.at \in Nat
  BY DEF Types, GuardType
<1> HIDE DEF R
<1>2. \A i \in DOMAIN seen : seen[i] \in R
  BY <1>1
<1> QED BY <1>1, <1>2, RelayAssumption DEF Types, ChainType

LEMMA GuardSteps ==
  ASSUME [Next]_vars
  PROVE  \/ UNCHANGED <<seen, high, accepted>>
         \/ \E t \in Threads : CheckReplay(t) \/ RecordReplay(t)
         \/ Crash
BY DEF Next, vars, Receive, Refresh, Attribute, Paid, Evict, RemoveEvicted, WriteUnchanged,
       WriteFails, Write, ListBuild, ListFile, Boot, Tick, Register, CloseJob, guard

LEMMA AdmittedDigest ==
  ASSUME Types, NEW t \in Threads, thread[t].pc \in {"paid", "check", "record"}
  PROVE  /\ Digest(Req(t)) \in Digests /\ Req(t).signer \in Addresses /\ Req(t).height \in Nat
         /\ thread[t].mark \in {-1} \cup Nat
<1>1. thread[t] \in Admitting
  BY Stages DEF Types
<1>2. Req(t) \in RequestType /\ Req(t).signer # Nobody /\ thread[t].mark \in {-1} \cup Nat
  BY <1>1 DEF Admitting, Req, Owned, Signed, Verifiable
<1> QED BY <1>2 DEF Digests, RequestType

LEMMA CheckStep ==
  ASSUME Types, GuardInv, NEW t \in Threads, CheckReplay(t)
  PROVE  GuardType' /\ GuardInv'
<1>1. seen' = Purged /\ UNCHANGED <<now, high, accepted>>
  BY DEF CheckReplay
<1>2. /\ Purged \in Seq([dig : Digests, at : Nat])
      /\ \A n \in DOMAIN Purged : \E i \in DOMAIN seen : Purged[n] = seen[i]
      /\ \A i \in DOMAIN seen : now - seen[i].at <= Retention =>
           \E n \in DOMAIN Purged : Purged[n] = seen[i]
  BY PurgeOK
<1>3. GuardType'
  BY <1>1, <1>2 DEF Types, GuardType
<1>4. \A n \in DOMAIN seen' : seen'[n].at <= now /\ \E a \in accepted : a.dig = seen'[n].dig
  BY <1>1, <1>2 DEF GuardInv
<1>5. ASSUME NEW a \in accepted, now - a.at <= Retention
      PROVE  \E n \in DOMAIN seen' : seen'[n].dig = a.dig /\ seen'[n].at >= a.at
  <2>1. PICK i \in DOMAIN seen : seen[i].dig = a.dig /\ seen[i].at >= a.at
    BY <1>5 DEF GuardInv
  <2>2. seen[i].at \in Nat /\ a.at \in Nat /\ now \in Nat /\ Retention \in Nat
    BY TimesRemembered
  <2>3. now - seen[i].at <= Retention
    BY <1>5, <2>1, <2>2
  <2> QED BY <1>1, <1>2, <2>1, <2>3
<1> QED BY <1>1, <1>3, <1>4, <1>5 DEF GuardInv

LEMMA RecordStep ==
  ASSUME Types, GuardInv, NEW t \in Threads, RecordReplay(t)
  PROVE  GuardType' /\ GuardInv'
<1> DEFINE d == Digest(Req(t))
           e == [dig |-> d, at |-> now]
<1>1. /\ seen' = Remember(seen, d) /\ accepted' = accepted \cup {e} /\ now' = now
      /\ high' = [high EXCEPT ![Req(t).signer] =
                    IF Req(t).height > thread[t].mark THEN Req(t).height ELSE @]
  BY DEF RecordReplay
<1>2. d \in Digests /\ Req(t).signer \in Addresses /\ Req(t).height \in Nat
  BY AdmittedDigest DEF RecordReplay, Serving
<1>3. /\ seen \in Seq([dig : Digests, at : Nat]) /\ now \in Nat /\ \A i \in DOMAIN seen : seen[i].at <= now
      /\ high \in [Addresses -> {-1} \cup Nat] /\ accepted \subseteq [dig : Digests, at : Nat]
  BY DEF Types, GuardType, ChainType, GuardInv
<1>4. e \in [dig : Digests, at : Nat] /\ e.dig = d /\ e.at = now
  BY <1>2, <1>3
<1> HIDE DEF d
<1>5. /\ seen' \in Seq([dig : Digests, at : Nat])
      /\ \A n \in DOMAIN seen' : seen'[n] = e \/ \E i \in DOMAIN seen : seen'[n] = seen[i]
      /\ \E n \in DOMAIN seen' : seen'[n] = e
      /\ \A i \in DOMAIN seen : \E n \in DOMAIN seen' : seen'[n].dig = seen[i].dig /\ seen'[n].at >= seen[i].at
  <2> DEFINE m == Remember(seen, d)
  <2>1. /\ m \in Seq([dig : Digests, at : Nat])
        /\ \A n \in DOMAIN m : m[n] = [dig |-> d, at |-> now] \/ \E i \in DOMAIN seen : m[n] = seen[i]
        /\ \E n \in DOMAIN m : m[n] = [dig |-> d, at |-> now]
        /\ \A i \in DOMAIN seen : \E n \in DOMAIN m : m[n].dig = seen[i].dig /\ m[n].at >= seen[i].at
    BY ONLY <1>2, <1>3, RememberOK
  <2>2. seen' = m
    BY <1>1
  <2> HIDE DEF m
  <2> QED BY <2>1, <2>2
<1> HIDE DEF e
<1>6. high' \in [Addresses -> {-1} \cup Nat]
  BY <1>1, <1>2, <1>3
<1>7. GuardType'
  BY <1>1, <1>3, <1>4, <1>5, <1>6 DEF GuardType
<1>8. ASSUME NEW n \in DOMAIN seen'
      PROVE  seen'[n].at <= now /\ \E a \in accepted' : a.dig = seen'[n].dig
  <2>1. CASE seen'[n] = e
    <3>1. e \in accepted' /\ now <= now
      BY <1>1, <1>3
    <3> QED BY <1>4, <2>1, <3>1
  <2>2. ASSUME NEW i \in DOMAIN seen, seen'[n] = seen[i]
        PROVE  seen'[n].at <= now /\ \E a \in accepted' : a.dig = seen'[n].dig
    <3>1. seen[i].at <= now /\ \E a \in accepted : a.dig = seen[i].dig
      BY DEF GuardInv
    <3>2. accepted \subseteq accepted'
      BY <1>1
    <3> QED BY <2>2, <3>1, <3>2
  <2> QED BY <1>5, <2>1, <2>2
<1>9. ASSUME NEW a \in accepted', now - a.at <= Retention
      PROVE  \E n \in DOMAIN seen' : seen'[n].dig = a.dig /\ seen'[n].at >= a.at
  <2>1. CASE a = e
    BY <1>3, <1>4, <1>5, <2>1
  <2>2. CASE a \in accepted
    <3>1. PICK i \in DOMAIN seen : seen[i].dig = a.dig /\ seen[i].at >= a.at
      BY <1>9, <2>2 DEF GuardInv
    <3>2. PICK n \in DOMAIN seen' : seen'[n].dig = seen[i].dig /\ seen'[n].at >= seen[i].at
      BY <1>5
    <3>3. seen'[n].at \in Nat /\ seen[i].at \in Nat /\ a.at \in Nat
      <4>1. \A x \in DOMAIN seen' : seen'[x] = e \/ \E y \in DOMAIN seen : seen'[x] = seen[y]
        BY <1>5
      <4> QED BY <1>3, <1>4, <2>2, <4>1, TimesRemembered
    <3> QED BY <3>1, <3>2, <3>3
  <2> QED BY <1>1, <2>1, <2>2
<1> QED BY <1>1, <1>7, <1>8, <1>9 DEF GuardInv

LEMMA GuardStep ==
  ASSUME Types, GuardInv, [Next]_vars
  PROVE  GuardType' /\ GuardInv'
<1>1. CASE UNCHANGED <<seen, high, accepted>>
  <2>1. now \in Nat /\ now' \in Nat /\ now <= now'
    BY ClockStep
  <2>2. \A i \in DOMAIN seen : seen[i].at \in Nat
    BY TimesRemembered
  <2>3. \A i \in DOMAIN seen : seen[i].at <= now'
    BY <2>1, <2>2 DEF GuardInv
  <2>4. \A a \in accepted : now' - a.at <= Retention => now - a.at <= Retention
    BY <2>1, TimesRemembered
  <2>5. GuardType'
    BY <1>1 DEF Types, GuardType
  <2> QED BY <1>1, <2>3, <2>4, <2>5 DEF GuardInv
<1>2. CASE Crash
  <2>1. seen' = <<>> /\ high' = [a \in Addresses |-> -1] /\ accepted' = {}
    BY <1>2 DEF Crash
  <2> QED BY <2>1 DEF GuardType, GuardInv
<1> QED BY <1>1, <1>2, GuardSteps, CheckStep, RecordStep

-----------------------------------------------------------------------------
(* The theorems                                                              *)

(* What every step of the relay preserves.                                   *)
Inv == Types /\ StoreInv /\ GuardInv

LEMMA InvInit == Init => Inv
BY TypesInit, StoreInit, GuardInit DEF Inv

LEMMA InvStep == Inv /\ [Next]_vars => Inv'
BY StoreStep, GuardStep, ThreadTypeStep, ChainTypeStep DEF Inv, Types

(* In every reachable state of the relay its tables are well typed, threads, *)
(* guard and registry included (relay.py, relay_antireplay.py).              *)
THEOREM InvAlways == Spec => []Inv
<1>1. Inv /\ UNCHANGED vars => Inv'
  BY InvStep
<1> QED BY InvInit, InvStep, PTL DEF Spec

LEMMA ConsistentIf == Inv => StoreConsistent
<1> SUFFICES ASSUME Inv PROVE StoreConsistent
  OBVIOUS
<1>1. Tables(store, disk, used) /\ ChainType /\ GuardType
  BY TablesNow DEF Inv, Types
<1>2. ASSUME NEW S \in [Kinds -> Seq(EntryRecord)], Dated(S) PROVE EntryType(S)
  <2>1. SUFFICES ASSUME NEW k \in Kinds, NEW i \in DOMAIN S[k]
                 PROVE  S[k][i].key \in Keys /\ S[k][i].body \in DOMAIN Cost /\ S[k][i].ts \in 0..now
    BY DEF EntryType
  <2>2. S[k][i] \in EntryRecord
    <3>1. S[k] \in Seq(EntryRecord)
      OBVIOUS
    <3> QED BY <3>1
  <2>3. S[k][i].key \in Keys /\ S[k][i].body \in DOMAIN Cost /\ S[k][i].ts \in Nat
    BY <2>2 DEF EntryRecord
  <2>4. S[k][i].ts <= now /\ now \in Nat
    BY <1>1, <1>2 DEF Dated, ChainType
  <2> QED BY <2>3, <2>4
<1>3. EntryType(store) /\ EntryType(disk)
  BY <1>1, <1>2 DEF Tables
<1>4. /\ \A k \in Kinds : Cardinality(KeysOf(store[k])) = Len(store[k])
      /\ \A k \in Kinds : Cardinality(KeysOf(disk[k])) = Len(disk[k])
  BY <1>1, CardKeys DEF Tables
<1>5. TypeOK
  BY <1>1, <1>3, <1>4 DEF TypeOK, GuardType, ChainType
<1>6. UsedIsCost
  BY <1>1 DEF Tables, UsedIsCost
<1>7. ListNeverStale
  BY DEF Inv, StoreInv, Current, ListNeverStale
<1> QED BY <1>5, <1>6, <1>7 DEF StoreConsistent

TreatedRight == GuardRemembers /\ RefusedReusable /\ AttributedToOwner

LEMMA TreatedRightIf == Inv => TreatedRight
<1> SUFFICES ASSUME Inv PROVE TreatedRight
  OBVIOUS
<1>1. GuardRemembers
  BY DEF Inv, GuardInv, GuardRemembers
<1>2. RefusedReusable
  BY DEF Inv, GuardInv, RefusedReusable
<1>3. ASSUME NEW t \in Threads, thread[t].pc \in {"evict", "remove", "write"}, thread[t].writer # Nobody
      PROVE  thread[t].writer = Owner(Req(t))
  <2>1. thread[t] \in Evicting \cup Putting
    BY <1>3, Stages DEF Inv, Types
  <2> QED BY <1>3, <2>1 DEF Evicting, Putting, Req
<1>4. AttributedToOwner
  BY <1>3 DEF AttributedToOwner, Owner
<1> QED BY <1>1, <1>2, <1>4 DEF TreatedRight

(* The only step from the test to the record is the test itself.             *)
LEMMA TestedBy ==
  ASSUME Types, [Next]_vars, NEW t \in Threads, thread[t].pc = "check", thread'[t].pc = "record"
  PROVE  CheckReplay(t)
<1>1. DOMAIN thread = Threads /\ thread' # thread
  BY DEF Types, ThreadType
<1>2. ASSUME NEW u \in Threads, NEW r, Receive(u, r) PROVE FALSE
  BY <1>1, <1>2 DEF Receive, Serving, Decide, Idle
<1>3. ASSUME NEW u \in Threads, u # t,
             Refresh(u) \/ Attribute(u) \/ Paid(u) \/ CheckReplay(u) \/ RecordReplay(u)
      PROVE  FALSE
  BY <1>1, <1>3 DEF Refresh, Attribute, Paid, CheckReplay, RecordReplay, Step, Decide
<1>4. ASSUME NEW u \in Threads, u # t,
             \/ Evict(u) \/ RemoveEvicted(u) \/ WriteUnchanged(u) \/ WriteFails(u) \/ Write(u)
             \/ ListBuild(u) \/ ListFile(u)
      PROVE  FALSE
  BY <1>1, <1>4 DEF Evict, RemoveEvicted, WriteUnchanged, WriteFails, Write, ListBuild, ListFile,
                    Step, Finish
<1>5. ~ (Refresh(t) \/ Attribute(t) \/ Paid(t) \/ RecordReplay(t))
  BY DEF Refresh, Attribute, Paid, RecordReplay, Serving
<1>6. ~ (\/ Evict(t) \/ RemoveEvicted(t) \/ WriteUnchanged(t) \/ WriteFails(t) \/ Write(t)
         \/ ListBuild(t) \/ ListFile(t))
  BY DEF Evict, RemoveEvicted, WriteUnchanged, WriteFails, Write, ListBuild, ListFile, Serving
<1>7. ~ Crash
  BY <1>1 DEF Crash, Idle
<1>8. ~ (Boot \/ Tick \/ UNCHANGED vars)
  BY <1>1 DEF Boot, Tick, vars
<1>9. ~ \E m \in Miners : Register(m)
  BY <1>1 DEF Register
<1>10. ~ \E j \in DOMAIN Payer : CloseJob(j)
  BY <1>1 DEF CloseJob
<1> QED BY <1>2, <1>3, <1>4, <1>5, <1>6, <1>7, <1>8, <1>9, <1>10 DEF Next

(* A copy whose message was accepted within the retention: the test reads    *)
(* the digests after the purge; the purge leaves those that are young.       *)
LEMMA LateCopyStep ==
  ASSUME Inv, [Next]_vars, NEW t \in Threads, thread[t].pc = "check", thread'[t].pc = "record",
         NEW a \in accepted, a.dig = Digest(Req(t))
  PROVE  now - a.at > Retention
<1>1. /\ now \in Nat /\ Retention \in Nat /\ a.at \in Nat
      /\ \A i \in DOMAIN seen : seen[i].at \in Nat
  BY TimesRemembered DEF Inv
<1>2. CheckReplay(t)
  BY TestedBy DEF Inv
<1>3. ~ \E n \in DOMAIN Purged : Purged[n].dig = Digest(Req(t))
  <2>1. DOMAIN thread = Threads
    BY DEF Inv, Types, ThreadType
  <2>2. ~ Decide(t, Req(t), Nobody)
    BY <2>1 DEF Decide, Idle
  <2> QED BY <1>2, <2>2 DEF CheckReplay
<1>4. SUFFICES ASSUME now - a.at <= Retention PROVE FALSE
  BY <1>1
<1>5. PICK i \in DOMAIN seen : seen[i].dig = a.dig /\ seen[i].at >= a.at
  BY <1>4 DEF Inv, GuardInv
<1>6. now - seen[i].at <= Retention
  BY <1>1, <1>4, <1>5
<1>7. \E n \in DOMAIN Purged : Purged[n] = seen[i]
  BY <1>6, PurgeOK DEF Inv
<1> QED BY <1>3, <1>5, <1>7

(* RAM, disk, byte counts and the cached list describe the same deposits     *)
(* (relay.py, _put, _evict_for, _list_answer).                               *)
THEOREM StoreConsistentAlways == Spec => []StoreConsistent
BY InvAlways, ConsistentIf, PTL

(* A message refused before the guard may be sent again, a copy of an        *)
(* accepted one that is tested later is refused within the retention, and a  *)
(* deposit is attributed to its owner (relay_antireplay.py, relay_write.py). *)
THEOREM SenderTreatedRightAlways == Spec => SenderTreatedRight
<1>1. Inv /\ [Next]_vars =>
        [\A t \in Threads : thread[t].pc = "check" /\ thread'[t].pc = "record" =>
           \A a \in accepted : a.dig = Digest(Req(t)) => now - a.at > Retention]_vars
  BY LateCopyStep
<1>2. Inv => GuardRemembers /\ RefusedReusable /\ AttributedToOwner
  BY TreatedRightIf DEF TreatedRight
<1> QED BY <1>1, <1>2, InvAlways, PTL DEF Spec, SenderTreatedRight, NoLateCopy

(* What a step does to one kind's charge and entries while the relay runs.   *)
LEMMA RunningStep ==
  ASSUME Inv, [Next]_vars, up, up'
  PROVE  \/ UNCHANGED <<store, used>>
         \/ \E t \in Threads : Evict(t) \/ Write(t)
BY StoreSteps DEF Inv, Crash, Boot, RemoveEvicted, ListFile, books

LEMMA BudgetStep ==
  ASSUME Inv, [Next]_vars, up, up', NEW k \in Kinds, used'[k] > KindBudget
  PROVE  used'[k] <= used[k]
<1>1. Tables(store, disk, used)
  BY TablesNow DEF Inv
<1>2. used \in [Kinds -> Int] /\ KindBudget \in Nat
  BY <1>1, RelayAssumption DEF Tables
<1>3. CASE UNCHANGED <<store, used>>
  BY <1>2, <1>3
<1>4. ASSUME NEW t \in Threads, Evict(t) PROVE used'[k] <= used[k]
  <2> DEFINE j == Req(t).kind
             gone == SumCost(Only(store[j], Old(store[j])))
  <2>1. j \in Kinds
    BY <1>4, Stages DEF Evict, Serving, Inv, Types, Evicting, Req, RequestType
  <2>2. gone \in Nat
    <3>1. store[j] \in Seq(EntryRecord)
      BY <1>1, <2>1 DEF Tables
    <3> QED BY <3>1, SumWithout
  <2>3. used' = [used EXCEPT ![j] = @ - gone]
    BY <1>4 DEF Evict
  <2> HIDE DEF j, gone
  <2> QED BY <1>2, <2>1, <2>2, <2>3
<1>5. ASSUME NEW t \in Threads, Write(t) PROVE used'[k] <= used[k]
  <2> DEFINE j == Req(t).kind
             n == After(Req(t))
  <2>1. used' = [used EXCEPT ![j] = n] /\ ~ (n > KindBudget /\ n > used[j])
    BY <1>5 DEF Write, OverBudget
  <2>2. used' \in [Kinds -> Int]
    BY <1>5, WriteStore DEF Inv, Tables
  <2> HIDE DEF n, j
  <2>3. CASE k = j
    <3>1. used'[k] = n /\ n \in Int
      BY <1>2, <2>1, <2>2, <2>3
    <3> QED BY <1>2, <2>1, <2>3, <3>1
  <2>4. CASE k # j
    BY <1>2, <2>1, <2>4
  <2> QED BY <2>3, <2>4
<1> QED BY <1>3, <1>4, <1>5, RunningStep

(* A deposit never takes a kind past its budget (relay.py, _put): while the  *)
(* process runs, a count above the budget only falls.                        *)
THEOREM BudgetAlways == Spec => BudgetRespected
<1>1. Inv /\ [Next]_vars =>
        [up /\ up' => \A k \in Kinds : used'[k] > KindBudget => used'[k] <= used[k]]_vars
  BY BudgetStep
<1> QED BY <1>1, InvAlways, PTL DEF Spec, BudgetRespected

LEMMA EvidenceStep ==
  ASSUME Inv, [Next]_vars, up, up', NEW k \in Kinds \cap {"req", "res", "reveal"},
         NEW i \in DOMAIN store[k], now - store[k][i].ts <= Retention
  PROVE  store[k][i] \in Range(store'[k])
<1>1. Tables(store, disk, used) /\ now \in Nat
  BY TablesNow DEF Inv, Types, ChainType
<1>2. store \in [Kinds -> Seq(EntryRecord)] /\ store[k] \in Seq(EntryRecord) /\ Distinct(store[k])
  BY <1>1 DEF Tables
<1>3. CASE UNCHANGED <<store, used>>
  BY <1>3 DEF Range
<1>4. ASSUME NEW t \in Threads, Evict(t) PROVE store[k][i] \in Range(store'[k])
  <2> DEFINE j == Req(t).kind
             gone == Old(store[j])
  <2>1. store' = [store EXCEPT ![j] = Without(@, gone)]
    BY <1>4 DEF Evict
  <2>2. CASE k = j
    <3>1. store[k][i].key \notin Old(store[k])
      BY <1>1, <1>2, OldOK
    <3>2. store'[k] = Without(store[k], Old(store[k]))
      BY <1>2, <2>1, <2>2
    <3> QED BY <1>2, <3>1, <3>2, StaysWithout
  <2>3. CASE k # j
    <3>1. store'[k] = store[k]
      BY <1>2, <2>1, <2>3
    <3> QED BY <3>1 DEF Range
  <2> QED BY <2>2, <2>3
<1>5. ASSUME NEW t \in Threads, Write(t) PROVE store[k][i] \in Range(store'[k])
  <2> DEFINE j == Req(t).kind
             e == Entry(Req(t).key, Req(t).body, thread[t].clock)
  <2>1. /\ store' = [store EXCEPT ![j] = Replace(@, e)] /\ e \in EntryRecord /\ e.key = Req(t).key
        /\ ~ Sealed(Req(t))
    BY <1>5, EntryWritten DEF Write, Entry, Inv
  <2>2. CASE k = j
    <3>1. e.key \notin KeysOf(store[k])
      BY <2>1, <2>2 DEF Sealed, Held, WriteOnce
    <3>2. store[k][i].key # e.key
      BY <3>1 DEF KeysOf
    <3> HIDE DEF e
    <3>3. \E n \in DOMAIN Replace(store[k], e) : Replace(store[k], e)[n] = store[k][i]
      BY <1>2, <2>1, <3>2, ReplaceOK
    <3>4. store'[k] = Replace(store[k], e)
      BY <1>2, <2>1, <2>2
    <3> QED BY <3>3, <3>4 DEF Range
  <2>3. CASE k # j
    <3>1. store'[k] = store[k]
      BY <1>2, <2>1, <2>3
    <3> QED BY <3>1 DEF Range
  <2> QED BY <2>2, <2>3
<1> QED BY <1>3, <1>4, <1>5, RunningStep

(* Evidence that has not outlived the retention stays in RAM, byte for byte, *)
(* as long as the process runs (relay.py, _put and _evict_for).              *)
THEOREM EvidenceAlways == Spec => EvidenceKept
<1>1. Inv /\ [Next]_vars =>
        [up /\ up' => \A k \in Kinds \cap {"req", "res", "reveal"} : \A i \in DOMAIN store[k] :
           now - store[k][i].ts <= Retention => store[k][i] \in Range(store'[k])]_vars
  BY EvidenceStep
<1> QED BY <1>1, InvAlways, PTL DEF Spec, EvidenceKept

=============================================================================
