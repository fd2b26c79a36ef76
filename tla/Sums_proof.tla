------------------------------ MODULE Sums_proof ------------------------------
(***************************************************************************)
(* The sum of the values of a function over a finite set, as the fold of   *)
(* the community modules computes it (MapThenSumSet): it exists, it is     *)
(* unique, and it moves with one of its terms.  Each fact over all finite  *)
(* sets is proved from a smallest set that would refute it.                *)
(***************************************************************************)
EXTENDS Integers, FiniteSetsExt, TLAPS, FiniteSetTheorems

Pick(T) == CHOOSE x \in T : TRUE

(* "g" holds the sum of every subset of S, one chosen element at a time.    *)
SumsTo(g, f, S) ==
  g = [T \in SUBSET S |-> IF T = {} THEN 0 ELSE f[Pick(T)] + g[T \ {Pick(T)}]]

SumOf(f, S) == (CHOOSE g : SumsTo(g, f, S))[S]

(* Picking from a nonempty set leaves a smaller one.                        *)
LEMMA PickOK ==
  ASSUME NEW T, T # {}
  PROVE  Pick(T) \in T /\ T \ {Pick(T)} \subseteq T /\ T \ {Pick(T)} # T
BY DEF Pick

(* A nonempty family of subsets of a finite set has a smallest member.      *)
LEMMA SmallestSet ==
  ASSUME NEW S, IsFiniteSet(S), NEW F, F \subseteq SUBSET S, F # {}
  PROVE  \E T \in F : \A U \in F : U \subseteq T => U = T
<1>1. F \subseteq FiniteSubsetsOf(S)
  BY FS_Subset DEF FiniteSubsetsOf
<1>2. PICK T \in F : \A U \in F : ~(<<U, T>> \in StrictSubsetOrdering(S))
  BY <1>1, FS_StrictSubsetOrderingWellFounded, WFMin
<1>3. ASSUME NEW U \in F, U \subseteq T, U # T PROVE FALSE
  BY <1>2, <1>3 DEF StrictSubsetOrdering
<1> QED BY <1>2, <1>3

LEMMA SumsToEmpty ==
  ASSUME NEW S, NEW f, NEW g, SumsTo(g, f, S)
  PROVE  g[{}] = 0 /\ \A T \in SUBSET S : T # {} => g[T] = f[Pick(T)] + g[T \ {Pick(T)}]
BY DEF SumsTo

LEMMA SumsToUnique ==
  ASSUME NEW S, IsFiniteSet(S), NEW f, NEW g, NEW h, SumsTo(g, f, S), SumsTo(h, f, S)
  PROVE  g = h
<1> DEFINE bad == {T \in SUBSET S : g[T] # h[T]}
<1>1. SUFFICES ASSUME bad # {} PROVE FALSE
  <2>1. DOMAIN g = SUBSET S /\ DOMAIN h = SUBSET S
    BY DEF SumsTo
  <2>2. g = [T \in SUBSET S |-> g[T]] /\ h = [T \in SUBSET S |-> h[T]]
    BY DEF SumsTo
  <2> QED BY <2>1, <2>2
<1>2. PICK T \in bad : \A U \in bad : U \subseteq T => U = T
  <2>1. bad \subseteq SUBSET S
    OBVIOUS
  <2> HIDE DEF bad
  <2> QED BY <1>1, <2>1, SmallestSet
<1>3. T # {}
  BY SumsToEmpty
<1>4. T \ {Pick(T)} \notin bad /\ T \ {Pick(T)} \in SUBSET S
  BY <1>2, <1>3, PickOK
<1> QED BY <1>3, <1>4, SumsToEmpty

LEMMA SumsToSubset ==
  ASSUME NEW S, NEW f, NEW g, SumsTo(g, f, S), NEW U, U \subseteq S
  PROVE  SumsTo([T \in SUBSET U |-> g[T]], f, U)
<1> DEFINE h == [T \in SUBSET U |-> g[T]]
<1>1. ASSUME NEW T \in SUBSET U, T # {}
      PROVE  h[T] = f[Pick(T)] + h[T \ {Pick(T)}]
  BY <1>1, PickOK, SumsToEmpty
<1>2. h[{}] = 0
  BY SumsToEmpty
<1> HIDE DEF h
<1>3. h = [T \in SUBSET U |-> h[T]]
  BY DEF h
<1> QED BY <1>1, <1>2, <1>3 DEF SumsTo, h

(* The sums of the smaller sets make the sums of a set.                     *)
LEMMA SumsToExists ==
  ASSUME NEW S, IsFiniteSet(S), NEW f
  PROVE  \E g : SumsTo(g, f, S)
<1> DEFINE bad == {U \in SUBSET S : ~ \E g : SumsTo(g, f, U)}
<1>1. SUFFICES ASSUME bad # {} PROVE FALSE
  OBVIOUS
<1>2. PICK U \in bad : \A W \in bad : W \subseteq U => W = U
  <2>1. bad \subseteq SUBSET S
    OBVIOUS
  <2> HIDE DEF bad
  <2> QED BY <1>1, <2>1, SmallestSet
<1> DEFINE val(T) == SumOf(f, T)
           rest == IF U = {} THEN 0 ELSE f[Pick(U)] + val(U \ {Pick(U)})
           G == [T \in SUBSET U |-> IF T = U THEN rest ELSE val(T)]
<1>3. ASSUME NEW T \in SUBSET U, T # U
      PROVE  \E g : SumsTo(g, f, T) /\ g[T] = val(T)
  <2>1. T \notin bad /\ T \in SUBSET S
    BY <1>2, <1>3
  <2>2. PICK g : SumsTo(g, f, T)
    BY <2>1
  <2>3. SumsTo(CHOOSE h : SumsTo(h, f, T), f, T)
    BY <2>2
  <2> QED BY <2>3 DEF SumOf
<1>4. ASSUME NEW T \in SUBSET U, T # U, T # {}
      PROVE  val(T) = f[Pick(T)] + val(T \ {Pick(T)})
  <2> DEFINE V == T \ {Pick(T)}
  <2>1. PICK g : SumsTo(g, f, T) /\ g[T] = val(T)
    BY <1>3, <1>4
  <2>2. V \subseteq T /\ V # T /\ V \in SUBSET U /\ V # U
    BY <1>4, PickOK
  <2>3. PICK h : SumsTo(h, f, V) /\ h[V] = val(V)
    BY <1>3, <2>2
  <2>4. IsFiniteSet(V)
    BY <2>2, FS_Subset
  <2>5. [W \in SUBSET V |-> g[W]] = h
    <3>1. SumsTo([W \in SUBSET V |-> g[W]], f, V)
      BY <2>1, <2>2, SumsToSubset
    <3> HIDE DEF V
    <3> QED BY <2>3, <2>4, <3>1, SumsToUnique
  <2>6. g[V] = h[V]
    BY <2>5
  <2>7. g[T] = f[Pick(T)] + g[V]
    <3>1. \A W \in SUBSET T : W # {} => g[W] = f[Pick(W)] + g[W \ {Pick(W)}]
      BY <2>1, SumsToEmpty
    <3> QED BY <1>4, <3>1
  <2> QED BY <2>1, <2>3, <2>6, <2>7
<1>5. U # {} => val({}) = 0
  <2> SUFFICES ASSUME U # {} PROVE val({}) = 0
    OBVIOUS
  <2>1. PICK g : SumsTo(g, f, {}) /\ g[{}] = val({})
    BY <1>3
  <2> QED BY <2>1, SumsToEmpty
<1> HIDE DEF val
<1>6. ASSUME NEW T \in SUBSET U
      PROVE  G[T] = IF T = {} THEN 0 ELSE f[Pick(T)] + G[T \ {Pick(T)}]
  <2>1. CASE T = {}
    BY <1>5, <2>1
  <2>2. CASE T # {} /\ T # U
    <3>1. T \ {Pick(T)} \in SUBSET U /\ T \ {Pick(T)} # U
      BY <2>2, PickOK
    <3> QED BY <1>4, <2>2, <3>1
  <2>3. CASE T # {} /\ T = U
    <3>1. T \ {Pick(T)} \in SUBSET U /\ T \ {Pick(T)} # U
      BY <2>3, PickOK
    <3> QED BY <2>3, <3>1
  <2> QED BY <2>1, <2>2, <2>3
<1> HIDE DEF rest
<1>7. G = [T \in SUBSET U |-> G[T]]
  OBVIOUS
<1> HIDE DEF G
<1>8. SumsTo(G, f, U)
  BY <1>6, <1>7 DEF SumsTo
<1> QED BY <1>2, <1>8

(* The sum of a set: of nothing, and one element at a time.                 *)
LEMMA SumOfStep ==
  ASSUME NEW S, IsFiniteSet(S), NEW f
  PROVE  /\ SumOf(f, {}) = 0
         /\ S # {} => SumOf(f, S) = f[Pick(S)] + SumOf(f, S \ {Pick(S)})
<1>1. ASSUME NEW T, IsFiniteSet(T)
      PROVE  \E g : SumsTo(g, f, T) /\ g[T] = SumOf(f, T)
  <2>1. PICK g : SumsTo(g, f, T)
    BY <1>1, SumsToExists
  <2>2. SumsTo(CHOOSE h : SumsTo(h, f, T), f, T)
    BY <2>1
  <2> QED BY <2>2 DEF SumOf
<1>2. SumOf(f, {}) = 0
  <2>1. PICK g : SumsTo(g, f, {}) /\ g[{}] = SumOf(f, {})
    BY <1>1, FS_EmptySet
  <2> QED BY <2>1, SumsToEmpty
<1>3. ASSUME S # {} PROVE SumOf(f, S) = f[Pick(S)] + SumOf(f, S \ {Pick(S)})
  <2> DEFINE V == S \ {Pick(S)}
  <2>1. V \subseteq S /\ IsFiniteSet(V)
    BY FS_Subset
  <2> HIDE DEF V
  <2>2. PICK g : SumsTo(g, f, S) /\ g[S] = SumOf(f, S)
    BY <1>1
  <2>3. PICK h : SumsTo(h, f, V) /\ h[V] = SumOf(f, V)
    BY <1>1, <2>1
  <2>4. [W \in SUBSET V |-> g[W]] = h
    <3>1. SumsTo([W \in SUBSET V |-> g[W]], f, V)
      BY <2>1, <2>2, SumsToSubset
    <3> QED BY <2>1, <2>3, <3>1, SumsToUnique
  <2>5. g[V] = h[V]
    BY <2>4
  <2>6. g[S] = f[Pick(S)] + g[V]
    <3>1. \A W \in SUBSET S : W # {} => g[W] = f[Pick(W)] + g[W \ {Pick(W)}]
      <4>1. SumsTo(g, f, S)
        BY <2>2
      <4> QED BY <4>1 DEF SumsTo
    <3> QED BY <1>3, <3>1 DEF V
  <2> QED BY <2>2, <2>3, <2>5, <2>6 DEF V
<1> QED BY <1>2, <1>3

LEMMA SumOfType ==
  ASSUME NEW S, IsFiniteSet(S), NEW R \in {Nat, Int}, NEW f, \A x \in S : f[x] \in R
  PROVE  SumOf(f, S) \in R
<1> DEFINE bad == {T \in SUBSET S : SumOf(f, T) \notin R}
<1>1. SUFFICES ASSUME bad # {} PROVE FALSE
  OBVIOUS
<1>2. PICK T \in bad : \A U \in bad : U \subseteq T => U = T
  <2>1. bad \subseteq SUBSET S
    OBVIOUS
  <2> HIDE DEF bad
  <2> QED BY <1>1, <2>1, SmallestSet
<1>3. IsFiniteSet(T)
  BY FS_Subset
<1>4. T # {}
  <2>1. SumOf(f, {}) = 0
    BY SumOfStep, FS_EmptySet
  <2> QED BY <2>1
<1>5. T \ {Pick(T)} \notin bad /\ T \ {Pick(T)} \in SUBSET S /\ Pick(T) \in S
  BY <1>2, <1>4, PickOK
<1>6. SumOf(f, T) = f[Pick(T)] + SumOf(f, T \ {Pick(T)})
  BY <1>3, <1>4, SumOfStep
<1>7. f[Pick(T)] \in R /\ SumOf(f, T \ {Pick(T)}) \in R
  BY <1>5
<1> QED BY <1>6, <1>7

(* One term changes: the sum changes by as much.                            *)
LEMMA SumOfChange ==
  ASSUME NEW S, IsFiniteSet(S), NEW f, NEW g, NEW j \in S,
         \A x \in S : f[x] \in Int /\ g[x] \in Int,
         \A x \in S \ {j} : g[x] = f[x]
  PROVE  SumOf(g, S) = SumOf(f, S) + (g[j] - f[j])
<1> DEFINE d(T) == IF j \in T THEN g[j] - f[j] ELSE 0
           bad == {T \in SUBSET S : SumOf(g, T) # SumOf(f, T) + d(T)}
<1>1. SUFFICES ASSUME bad # {} PROVE FALSE
  OBVIOUS
<1>2. PICK T \in bad : \A U \in bad : U \subseteq T => U = T
  <2>1. bad \subseteq SUBSET S
    OBVIOUS
  <2> HIDE DEF bad
  <2> QED BY <1>1, <2>1, SmallestSet
<1>3. IsFiniteSet(T)
  BY FS_Subset
<1>4. T # {}
  <2>1. SumOf(f, {}) = 0 /\ SumOf(g, {}) = 0
    BY SumOfStep, FS_EmptySet
  <2>2. d({}) = 0
    OBVIOUS
  <2> HIDE DEF d
  <2>3. SumOf(g, {}) = SumOf(f, {}) + d({})
    BY <2>1, <2>2
  <2> QED BY <2>3
<1> DEFINE V == T \ {Pick(T)}
<1>5. V \notin bad /\ V \in SUBSET S /\ Pick(T) \in T /\ Pick(T) \in S
  BY <1>2, <1>4, PickOK
<1>6. /\ SumOf(f, T) = f[Pick(T)] + SumOf(f, V)
      /\ SumOf(g, T) = g[Pick(T)] + SumOf(g, V)
  BY <1>3, <1>4, SumOfStep
<1>7. IsFiniteSet(V)
  BY <1>5, FS_Subset
<1> HIDE DEF V
<1>8. SumOf(f, V) \in Int /\ SumOf(g, V) \in Int
  BY <1>5, <1>7, SumOfType
<1>9. SumOf(g, V) = SumOf(f, V) + d(V)
  BY <1>5
<1>10. CASE Pick(T) = j
  <2>1. d(V) = 0 /\ d(T) = g[j] - f[j]
    BY <1>5, <1>10 DEF V
  <2>2. f[j] \in Int /\ g[j] \in Int
    OBVIOUS
  <2> HIDE DEF d
  <2>3. SumOf(g, T) = SumOf(f, T) + d(T)
    BY <1>6, <1>8, <1>9, <1>10, <2>1, <2>2
  <2> QED BY <2>3
<1>11. CASE Pick(T) # j
  <2>1. d(V) = d(T)
    BY <1>11 DEF V
  <2>2. g[Pick(T)] = f[Pick(T)] /\ f[Pick(T)] \in Int
    BY <1>5, <1>11
  <2>3. d(T) \in Int
    OBVIOUS
  <2> HIDE DEF d
  <2>4. SumOf(g, T) = SumOf(f, T) + d(T)
    BY <1>6, <1>8, <1>9, <2>1, <2>2, <2>3
  <2> QED BY <2>4
<1> QED BY <1>10, <1>11

(* The sum of nothing but zeros.                                            *)
LEMMA SumOfZero ==
  ASSUME NEW S, IsFiniteSet(S), NEW f, \A x \in S : f[x] = 0
  PROVE  SumOf(f, S) = 0
<1> DEFINE bad == {T \in SUBSET S : SumOf(f, T) # 0}
<1>1. SUFFICES ASSUME bad # {} PROVE FALSE
  OBVIOUS
<1>2. PICK T \in bad : \A U \in bad : U \subseteq T => U = T
  <2>1. bad \subseteq SUBSET S
    OBVIOUS
  <2> HIDE DEF bad
  <2> QED BY <1>1, <2>1, SmallestSet
<1>3. IsFiniteSet(T)
  BY FS_Subset
<1>4. T # {}
  <2>1. SumOf(f, {}) = 0
    BY SumOfStep, FS_EmptySet
  <2> QED BY <2>1
<1>5. T \ {Pick(T)} \notin bad /\ T \ {Pick(T)} \in SUBSET S /\ Pick(T) \in S
  BY <1>2, <1>4, PickOK
<1>6. SumOf(f, T) = f[Pick(T)] + SumOf(f, T \ {Pick(T)})
  BY <1>3, <1>4, SumOfStep
<1>7. f[Pick(T)] = 0 /\ SumOf(f, T \ {Pick(T)}) = 0
  BY <1>5
<1> QED BY <1>6, <1>7

(* Only the values on the set count.                                        *)
LEMMA SumOfSame ==
  ASSUME NEW S, IsFiniteSet(S), NEW f, NEW g, \A x \in S : g[x] = f[x]
  PROVE  SumOf(g, S) = SumOf(f, S)
<1> DEFINE bad == {T \in SUBSET S : SumOf(g, T) # SumOf(f, T)}
<1>1. SUFFICES ASSUME bad # {} PROVE FALSE
  OBVIOUS
<1>2. PICK T \in bad : \A U \in bad : U \subseteq T => U = T
  <2>1. bad \subseteq SUBSET S
    OBVIOUS
  <2> HIDE DEF bad
  <2> QED BY <1>1, <2>1, SmallestSet
<1>3. IsFiniteSet(T)
  BY FS_Subset
<1>4. T # {}
  <2>1. SumOf(f, {}) = 0 /\ SumOf(g, {}) = 0
    BY SumOfStep, FS_EmptySet
  <2> QED BY <2>1
<1>5. T \ {Pick(T)} \notin bad /\ T \ {Pick(T)} \in SUBSET S /\ Pick(T) \in S
  BY <1>2, <1>4, PickOK
<1>6. /\ SumOf(f, T) = f[Pick(T)] + SumOf(f, T \ {Pick(T)})
      /\ SumOf(g, T) = g[Pick(T)] + SumOf(g, T \ {Pick(T)})
  BY <1>3, <1>4, SumOfStep
<1>7. g[Pick(T)] = f[Pick(T)] /\ SumOf(g, T \ {Pick(T)}) = SumOf(f, T \ {Pick(T)})
  BY <1>5
<1>8. SumOf(g, T) = SumOf(f, T)
  BY <1>6, <1>7
<1> QED BY <1>8

(* Any term may be taken out first.                                         *)
LEMMA SumOfRemove ==
  ASSUME NEW S, IsFiniteSet(S), NEW f, \A x \in S : f[x] \in Int, NEW y \in S
  PROVE  SumOf(f, S) = f[y] + SumOf(f, S \ {y})
<1> DEFINE bad == {T \in SUBSET S : \E x \in T : SumOf(f, T) # f[x] + SumOf(f, T \ {x})}
<1>1. SUFFICES ASSUME bad # {} PROVE FALSE
  <2>1. S \notin bad
    BY <1>1
  <2> QED BY <2>1
<1>2. PICK T \in bad : \A U \in bad : U \subseteq T => U = T
  <2>1. bad \subseteq SUBSET S
    OBVIOUS
  <2> HIDE DEF bad
  <2> QED BY <1>1, <2>1, SmallestSet
<1>3. PICK x \in T : SumOf(f, T) # f[x] + SumOf(f, T \ {x})
  OBVIOUS
<1>4. IsFiniteSet(T) /\ T # {} /\ x \in S
  BY FS_Subset
<1> DEFINE p == Pick(T)
           V == T \ {p}
           W == T \ {x}
           R == T \ {p, x}
<1>5. p \in T /\ p \in S /\ SumOf(f, T) = f[p] + SumOf(f, V)
  BY <1>4, PickOK, SumOfStep
<1>6. x # p
  BY <1>3, <1>5
<1>7. V \in SUBSET S /\ V \subseteq T /\ V # T /\ x \in V /\ V \ {x} = R
  BY <1>5, <1>6
<1>8. W \in SUBSET S /\ W \subseteq T /\ W # T /\ p \in W /\ W \ {p} = R
  BY <1>3, <1>5, <1>6
<1>9. R \in SUBSET S /\ IsFiniteSet(R)
  BY <1>4, FS_Subset
<1> HIDE DEF p, V, W, R
<1>10. SumOf(f, V) = f[x] + SumOf(f, R)
  BY <1>2, <1>7
<1>11. SumOf(f, W) = f[p] + SumOf(f, R)
  BY <1>2, <1>8
<1>12. SumOf(f, R) \in Int
  BY <1>9, SumOfType
<1>13. f[p] \in Int /\ f[x] \in Int
  BY <1>4, <1>5
<1>14. SumOf(f, T) = f[x] + SumOf(f, W)
  BY <1>5, <1>10, <1>11, <1>12, <1>13
<1> QED BY <1>3, <1>14 DEF W

(* A set and what it leaves of a larger one.                                *)
LEMMA SumOfSplit ==
  ASSUME NEW S, IsFiniteSet(S), NEW f, \A x \in S : f[x] \in Int, NEW A \in SUBSET S
  PROVE  SumOf(f, S) = SumOf(f, A) + SumOf(f, S \ A)
<1> DEFINE bad == {T \in SUBSET A : SumOf(f, (S \ A) \cup T) # SumOf(f, T) + SumOf(f, S \ A)}
<1>1. SUFFICES ASSUME bad # {} PROVE FALSE
  <2>1. A \notin bad /\ (S \ A) \cup A = S
    BY <1>1
  <2> QED BY <2>1
<1>2. PICK T \in bad : \A U \in bad : U \subseteq T => U = T
  <2>1. bad \subseteq SUBSET A /\ IsFiniteSet(A)
    BY FS_Subset
  <2> HIDE DEF bad
  <2> QED BY <1>1, <2>1, SmallestSet
<1>3. IsFiniteSet(T) /\ IsFiniteSet(S \ A) /\ IsFiniteSet((S \ A) \cup T)
  <2>1. T \in SUBSET S /\ S \ A \in SUBSET S /\ (S \ A) \cup T \in SUBSET S
    OBVIOUS
  <2> QED BY <2>1, FS_Subset
<1>4. SumOf(f, S \ A) \in Int
  BY <1>3, SumOfType
<1>5. T # {}
  <2>1. SumOf(f, {}) = 0
    BY SumOfStep, FS_EmptySet
  <2>2. (S \ A) \cup {} = S \ A
    OBVIOUS
  <2>3. SumOf(f, (S \ A) \cup {}) = SumOf(f, {}) + SumOf(f, S \ A)
    BY <1>4, <2>1, <2>2
  <2> QED BY <2>3
<1> DEFINE p == Pick(T)
           V == T \ {p}
<1>6. p \in T /\ V \in SUBSET A /\ V \subseteq T /\ V # T
  BY <1>5, PickOK
<1>7. ((S \ A) \cup T) \ {p} = (S \ A) \cup V /\ p \in (S \ A) \cup T /\ p \in S
  BY <1>6
<1> HIDE DEF p, V
<1>8. SumOf(f, (S \ A) \cup V) = SumOf(f, V) + SumOf(f, S \ A)
  BY <1>2, <1>6
<1>9. SumOf(f, T) = f[p] + SumOf(f, V)
  BY <1>3, <1>6, SumOfRemove DEF V
<1>10. SumOf(f, (S \ A) \cup T) = f[p] + SumOf(f, (S \ A) \cup V)
  <2>1. \A x \in (S \ A) \cup T : f[x] \in Int
    OBVIOUS
  <2> QED BY <1>3, <1>7, <2>1, SumOfRemove
<1>11. SumOf(f, V) \in Int /\ f[p] \in Int
  <2>1. IsFiniteSet(V) /\ \A x \in V : f[x] \in Int
    BY <1>3, <1>6, FS_Subset
  <2> QED BY <1>7, <2>1, SumOfType
<1>12. SumOf(f, (S \ A) \cup T) = SumOf(f, T) + SumOf(f, S \ A)
  BY <1>4, <1>8, <1>9, <1>10, <1>11
<1> QED BY <1>12

(* The terms may be renumbered.                                             *)
LEMMA SumOfRenumbered ==
  ASSUME NEW S, IsFiniteSet(S), NEW D, IsFiniteSet(D), NEW f, NEW g, NEW at \in [D -> S],
         \A x \in S : f[x] \in Int,
         \A n \in D : g[n] = f[at[n]],
         \A m, n \in D : at[m] = at[n] => m = n
  PROVE  SumOf(g, D) = SumOf(f, {at[n] : n \in D})
<1> DEFINE im(T) == {at[n] : n \in T}
           bad == {T \in SUBSET D : SumOf(g, T) # SumOf(f, im(T))}
<1>1. SUFFICES ASSUME bad # {} PROVE FALSE
  <2>1. D \notin bad
    BY <1>1
  <2> QED BY <2>1
<1>2. PICK T \in bad : \A U \in bad : U \subseteq T => U = T
  <2>1. bad \subseteq SUBSET D
    OBVIOUS
  <2> HIDE DEF bad
  <2> QED BY <1>1, <2>1, SmallestSet
<1>3. IsFiniteSet(T) /\ im(T) \in SUBSET S /\ IsFiniteSet(im(T))
  <2>1. im(T) \in SUBSET S
    OBVIOUS
  <2> HIDE DEF im
  <2> QED BY <2>1, FS_Subset
<1>4. T # {}
  <2>1. SumOf(f, {}) = 0 /\ SumOf(g, {}) = 0
    BY SumOfStep, FS_EmptySet
  <2>2. im({}) = {}
    OBVIOUS
  <2> HIDE DEF im
  <2>3. SumOf(g, {}) = SumOf(f, im({}))
    BY <2>1, <2>2
  <2> QED BY <2>3
<1> DEFINE p == Pick(T)
           V == T \ {p}
<1>5. p \in T /\ V \in SUBSET D /\ V \subseteq T /\ V # T
  BY <1>4, PickOK
<1>6. im(T) \ {at[p]} = im(V) /\ at[p] \in im(T)
  BY <1>5
<1>7. \A n \in T : g[n] \in Int
  OBVIOUS
<1>8. g[p] = f[at[p]]
  BY <1>5
<1> HIDE DEF p, im
<1>9. SumOf(g, T) = g[p] + SumOf(g, V)
  BY <1>3, <1>5, <1>7, SumOfRemove DEF V
<1>10. SumOf(f, im(T)) = f[at[p]] + SumOf(f, im(V))
  <2>1. \A x \in im(T) : f[x] \in Int
    BY <1>3
  <2> DEFINE U == im(T)
             y == at[p]
  <2>2. y \in U /\ IsFiniteSet(U) /\ \A x \in U : f[x] \in Int
    BY <1>3, <1>6, <2>1
  <2> HIDE DEF U, y
  <2>3. SumOf(f, U) = f[y] + SumOf(f, U \ {y})
    BY <2>2, SumOfRemove
  <2> QED BY <1>6, <2>3 DEF U, y
<1>11. SumOf(g, V) = SumOf(f, im(V))
  BY <1>2, <1>5
<1>12. SumOf(g, T) = SumOf(f, im(T))
  BY <1>8, <1>9, <1>10, <1>11
<1> QED BY <1>12

(* Term by term at most, a sum is at most the other.                        *)
LEMMA SumOfAtMost ==
  ASSUME NEW S, IsFiniteSet(S), NEW f, NEW g,
         \A x \in S : f[x] \in Int /\ g[x] \in Int /\ f[x] <= g[x]
  PROVE  SumOf(f, S) <= SumOf(g, S)
<1> DEFINE bad == {T \in SUBSET S : ~ (SumOf(f, T) <= SumOf(g, T))}
<1>1. SUFFICES ASSUME bad # {} PROVE FALSE
  OBVIOUS
<1>2. PICK T \in bad : \A U \in bad : U \subseteq T => U = T
  <2>1. bad \subseteq SUBSET S
    OBVIOUS
  <2> HIDE DEF bad
  <2> QED BY <1>1, <2>1, SmallestSet
<1>3. IsFiniteSet(T)
  BY FS_Subset
<1>4. T # {}
  <2>1. SumOf(f, {}) = 0 /\ SumOf(g, {}) = 0
    BY SumOfStep, FS_EmptySet
  <2> QED BY <2>1
<1> DEFINE p == Pick(T)
           V == T \ {p}
<1>5. V \notin bad /\ V \in SUBSET S /\ p \in S
  BY <1>2, <1>4, PickOK
<1>6. /\ SumOf(f, T) = f[p] + SumOf(f, V)
      /\ SumOf(g, T) = g[p] + SumOf(g, V)
  BY <1>3, <1>4, SumOfStep
<1>7. SumOf(f, V) \in Int /\ SumOf(g, V) \in Int
  <2>1. IsFiniteSet(V) /\ \A x \in V : f[x] \in Int /\ g[x] \in Int
    BY <1>5, FS_Subset
  <2> HIDE DEF V
  <2> QED BY <2>1, SumOfType
<1>8. f[p] \in Int /\ g[p] \in Int /\ f[p] <= g[p] /\ SumOf(f, V) <= SumOf(g, V)
  BY <1>5
<1> HIDE DEF p, V
<1>9. SumOf(f, T) <= SumOf(g, T)
  BY <1>6, <1>7, <1>8
<1> QED BY <1>9

(* A common factor.                                                         *)
LEMMA SumOfScaled ==
  ASSUME NEW S, IsFiniteSet(S), NEW f, NEW g, NEW k \in Int,
         \A x \in S : f[x] \in Int /\ g[x] = f[x] * k
  PROVE  SumOf(g, S) = SumOf(f, S) * k
<1> DEFINE bad == {T \in SUBSET S : SumOf(g, T) # SumOf(f, T) * k}
<1>1. SUFFICES ASSUME bad # {} PROVE FALSE
  OBVIOUS
<1>2. PICK T \in bad : \A U \in bad : U \subseteq T => U = T
  <2>1. bad \subseteq SUBSET S
    OBVIOUS
  <2> HIDE DEF bad
  <2> QED BY <1>1, <2>1, SmallestSet
<1>3. IsFiniteSet(T)
  BY FS_Subset
<1>4. T # {}
  <2>1. SumOf(f, {}) = 0 /\ SumOf(g, {}) = 0
    BY SumOfStep, FS_EmptySet
  <2> QED BY <2>1
<1> DEFINE p == Pick(T)
           V == T \ {p}
<1>5. V \notin bad /\ V \in SUBSET S /\ p \in S
  BY <1>2, <1>4, PickOK
<1>6. /\ SumOf(f, T) = f[p] + SumOf(f, V)
      /\ SumOf(g, T) = g[p] + SumOf(g, V)
  BY <1>3, <1>4, SumOfStep
<1>7. SumOf(f, V) \in Int
  <2>1. IsFiniteSet(V) /\ \A x \in V : f[x] \in Int
    BY <1>5, FS_Subset
  <2> HIDE DEF V
  <2> QED BY <2>1, SumOfType
<1>8. f[p] \in Int /\ g[p] = f[p] * k /\ SumOf(g, V) = SumOf(f, V) * k
  BY <1>5
<1> HIDE DEF p, V
<1>9. \A a, b, c \in Int : (a + b) * c = a * c + b * c
  OBVIOUS
<1>10. SumOf(g, T) = SumOf(f, T) * k
  BY <1>6, <1>7, <1>8, <1>9
<1> QED BY <1>10

(* A sum in two stages: over the classes of a colouring, and within each.   *)
LEMMA SumOfClasses ==
  ASSUME NEW S, IsFiniteSet(S), NEW f, \A x \in S : f[x] \in Int,
         NEW C, IsFiniteSet(C), NEW col \in [S -> C], NEW K, NEW g,
         \A c \in C : K[c] \subseteq S /\ \A x \in S : x \in K[c] <=> col[x] = c,
         \A c \in C : g[c] = SumOf(f, K[c])
  PROVE  SumOf(f, S) = SumOf(g, C)
<1> DEFINE over(T) == {x \in S : col[x] \in T}
           bad == {T \in SUBSET C : SumOf(f, over(T)) # SumOf(g, T)}
<1>1. SUFFICES ASSUME bad # {} PROVE FALSE
  <2>1. C \notin bad /\ over(C) = S
    BY <1>1
  <2> QED BY <2>1
<1>2. PICK T \in bad : \A U \in bad : U \subseteq T => U = T
  <2>1. bad \subseteq SUBSET C
    OBVIOUS
  <2> HIDE DEF bad
  <2> QED BY <1>1, <2>1, SmallestSet
<1>3. IsFiniteSet(T)
  BY FS_Subset
<1>4. T # {}
  <2>1. SumOf(f, {}) = 0 /\ SumOf(g, {}) = 0
    BY SumOfStep, FS_EmptySet
  <2>2. over({}) = {}
    OBVIOUS
  <2>3. SumOf(f, over({})) = SumOf(g, {})
    BY <2>1, <2>2
  <2> HIDE DEF over
  <2> QED BY <2>3
<1> DEFINE p == Pick(T)
           V == T \ {p}
           A == {x \in S : col[x] = p}
<1>5. V \notin bad /\ V \in SUBSET C /\ p \in C /\ p \in T
  BY <1>2, <1>4, PickOK
<1>6. SumOf(g, T) = g[p] + SumOf(g, V)
  BY <1>3, <1>4, SumOfStep
<1>7. SumOf(f, over(T)) = SumOf(f, A) + SumOf(f, over(V))
  <2>1. A \in SUBSET over(T) /\ over(T) \ A = over(V)
    BY <1>5
  <2>2. IsFiniteSet(over(T)) /\ \A x \in over(T) : f[x] \in Int
    <3>1. over(T) \in SUBSET S
      OBVIOUS
    <3> HIDE DEF over
    <3> QED BY <3>1, FS_Subset
  <2> HIDE DEF over, A, V, p
  <2> DEFINE U == over(T)
  <2> HIDE DEF U
  <2>3. SumOf(f, U) = SumOf(f, A) + SumOf(f, U \ A)
    BY <2>1, <2>2, SumOfSplit DEF U
  <2> QED BY <2>1, <2>3 DEF U
<1>8. g[p] = SumOf(f, A) /\ SumOf(f, over(V)) = SumOf(g, V)
  <2>1. A = K[p]
    BY <1>5
  <2> QED BY <1>5, <2>1
<1> HIDE DEF p, V, A, over
<1>9. SumOf(f, over(T)) = SumOf(g, T)
  BY <1>6, <1>7, <1>8
<1> QED BY <1>9 DEF over

=============================================================================
