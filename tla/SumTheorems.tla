---------------------------- MODULE SumTheorems ----------------------------
(***************************************************************************)
(* Sums over finite sets: what SumFunctionOnSet of the module Functions    *)
(* returns for a function with integer values.  The amounts of a receipt,  *)
(* a ledger, an import are such sums.                                      *)
(*                                                                         *)
(* SumFunctionOnSet is a fold: a function recursive on the subsets of the  *)
(* set, which takes the elements in the order CHOOSE picks them.  That the *)
(* recursion has a solution, and that the order makes no difference, are   *)
(* the first lemmas; the theorems after them never mention the recursion.  *)
(***************************************************************************)
EXTENDS Functions, FiniteSets, FiniteSetTheorems, WellFoundedInduction, TLAPS

-----------------------------------------------------------------------------
(* Induction, in a form that quantifies over sets and not over predicates *)

\* A set of numbers with 0 in it and closed under successor is all of Nat:
\* the least number outside it would have a predecessor in it.
LEMMA InductiveSet ==
    ASSUME NEW N \in SUBSET Nat, 0 \in N, \A n \in N : n + 1 \in N
    PROVE  N = Nat
<1> SUFFICES ASSUME Nat \ N # {}
             PROVE  FALSE
  OBVIOUS
<1>1. PICK m \in Nat \ N : \A n \in Nat \ N : ~(<<n, m>> \in OpToRel(<, Nat))
  BY NatLessThanWellFounded, WFMin
<1>2. \A n \in Nat \ N : ~(n < m)
  BY <1>1 DEF OpToRel
<1>3. m # 0 /\ m - 1 \in Nat /\ m - 1 < m /\ (m - 1) + 1 = m
  OBVIOUS
<1>4. m - 1 \in N
  BY <1>2, <1>3
<1> QED BY <1>3, <1>4

\* A family of subsets of a finite set that has the empty set, and with each
\* member the sets one element larger, has the set itself.
LEMMA InductiveFamily ==
    ASSUME NEW S, IsFiniteSet(S), NEW F, {} \in F,
           \A T \in SUBSET S, x \in S : T \in F /\ x \notin T => T \cup {x} \in F
    PROVE  S \in F
<1> DEFINE N == {n \in Nat : \A T \in SUBSET S : Cardinality(T) = n => T \in F}
<1>1. 0 \in N
  BY FS_Subset, FS_EmptySet
<1>2. ASSUME NEW n \in N
      PROVE  n + 1 \in N
  <2>1. ASSUME NEW T \in SUBSET S, Cardinality(T) = n + 1
        PROVE  T \in F
    <3>1. IsFiniteSet(T) /\ T # {}
      BY <2>1, FS_Subset, FS_EmptySet
    <3>2. PICK x \in T : TRUE
      BY <3>1
    <3>3. Cardinality(T \ {x}) = n
      <4>1. Cardinality(T \ {x}) = Cardinality(T) - 1
        BY <3>1, <3>2, FS_RemoveElement
      <4> QED BY <2>1, <4>1
    <3>4. T \ {x} \in F
      BY <3>3
    <3>5. (T \ {x}) \cup {x} \in F
      BY <3>2, <3>4
    <3> QED BY <3>2, <3>5, (T \ {x}) \cup {x} = T
  <2> QED BY <2>1
<1>3. N = Nat
  <2> HIDE DEF N
  <2>1. N \in SUBSET Nat
    BY DEF N
  <2> QED BY <1>1, <1>2, <2>1, InductiveSet
<1>4. Cardinality(S) \in N
  BY <1>3, FS_CardinalityType
<1> QED BY <1>4

-----------------------------------------------------------------------------
(* The recursion of the fold *)

Pick(s) == CHOOSE x \in s : TRUE

\* `it` solves the equation of the fold for s.
Solves(it, f, s) == it[s] = IF s = {} THEN 0 ELSE f[Pick(s)] + it[s \ {Pick(s)}]

IsFold(it, f, S) ==
    it = [s \in SUBSET S |-> IF s = {} THEN 0 ELSE f[Pick(s)] + it[s \ {Pick(s)}]]

LEMMA FoldUnfolded ==
    ASSUME NEW f, NEW S
    PROVE  SumFunctionOnSet(f, S) = (CHOOSE it : IsFold(it, f, S))[S]
  BY DEF SumFunctionOnSet, FoldFunctionOnSet, MapThenFoldSet, IsFold, Pick

\* A solution for the subsets of n elements gives one for those of n + 1.
LEMMA FoldExists ==
    ASSUME NEW f, NEW S, IsFiniteSet(S)
    PROVE  \E it : IsFold(it, f, S)
<1> DEFINE Small(n) == {s \in SUBSET S : Cardinality(s) <= n}
           N == {n \in Nat : \E it : DOMAIN it = SUBSET S /\ \A s \in Small(n) : Solves(it, f, s)}
<1>0. \A s \in SUBSET S : IsFiniteSet(s) /\ Cardinality(s) \in Nat
  BY FS_Subset, FS_CardinalityType
<1>1. 0 \in N
  <2> DEFINE it == [s \in SUBSET S |-> 0]
  <2>1. \A s \in Small(0) : s = {}
    BY <1>0, FS_EmptySet
  <2>2. \A s \in Small(0) : Solves(it, f, s)
    BY <2>1 DEF Solves
  <2>3. DOMAIN it = SUBSET S
    OBVIOUS
  <2> HIDE DEF it
  <2> QED BY <2>2, <2>3
<1>2. ASSUME NEW n \in N
      PROVE  n + 1 \in N
  <2>1. PICK old : DOMAIN old = SUBSET S /\ \A s \in Small(n) : Solves(old, f, s)
    OBVIOUS
  <2> DEFINE it == [s \in SUBSET S |-> IF s = {} THEN 0 ELSE f[Pick(s)] + old[s \ {Pick(s)}]]
  <2>2. \A s \in Small(n) : it[s] = old[s]
    BY <2>1 DEF Solves
  <2>3. ASSUME NEW s \in Small(n + 1), s # {}
        PROVE  s \ {Pick(s)} \in Small(n)
    <3>1. Pick(s) \in s
      BY <2>3 DEF Pick
    <3> QED BY <1>0, <3>1, FS_RemoveElement
  <2>4. \A s \in Small(n + 1) : Solves(it, f, s)
    <3> SUFFICES ASSUME NEW s \in Small(n + 1)
                 PROVE  Solves(it, f, s)
      OBVIOUS
    <3>1. it[s] = IF s = {} THEN 0 ELSE f[Pick(s)] + old[s \ {Pick(s)}]
      OBVIOUS
    <3>2. s # {} => it[s \ {Pick(s)}] = old[s \ {Pick(s)}]
      BY <2>2, <2>3
    <3> HIDE DEF it
    <3> QED BY <3>1, <3>2 DEF Solves
  <2>5. DOMAIN it = SUBSET S
    OBVIOUS
  <2> HIDE DEF it
  <2> QED BY <2>4, <2>5
<1>3. N = Nat
  <2> HIDE DEF N
  <2>1. N \in SUBSET Nat
    BY DEF N
  <2> QED BY <1>1, <1>2, <2>1, InductiveSet
<1>4. PICK it : DOMAIN it = SUBSET S /\ \A s \in Small(Cardinality(S)) : Solves(it, f, s)
  BY <1>0, <1>3
<1>5. SUBSET S = Small(Cardinality(S))
  BY <1>0, FS_Subset
<1> DEFINE g == [s \in SUBSET S |-> IF s = {} THEN 0 ELSE f[Pick(s)] + it[s \ {Pick(s)}]]
<1>6. \A s \in SUBSET S : it[s] = g[s]
  BY <1>4, <1>5 DEF Solves
<1>7. \A s \in SUBSET S : s \ {Pick(s)} \in SUBSET S
  OBVIOUS
<1>8. \A s \in SUBSET S : it[s \ {Pick(s)}] = g[s \ {Pick(s)}]
  BY <1>6, <1>7
<1>9. g = [s \in SUBSET S |-> IF s = {} THEN 0 ELSE f[Pick(s)] + g[s \ {Pick(s)}]]
  BY <1>8
<1> HIDE DEF g
<1> QED BY <1>9 DEF IsFold

\* What a fold of integers is, whatever the order of the elements.
IsSum(it, f, S) ==
    /\ it \in [SUBSET S -> Int]
    /\ it[{}] = 0
    /\ \A s \in SUBSET S : \A x \in s : it[s] = f[x] + it[s \ {x}]

\* Taking x out first or Pick(s) first comes to the same.
LEMMA FoldIsSum ==
    ASSUME NEW f, NEW S, IsFiniteSet(S), \A x \in S : f[x] \in Int, NEW it, IsFold(it, f, S)
    PROVE  IsSum(it, f, S)
<1> DEFINE Good(s) == it[s] \in Int /\ \A x \in s : it[s] = f[x] + it[s \ {x}]
           N == {n \in Nat : \A s \in SUBSET S : Cardinality(s) <= n => Good(s)}
<1>0. \A s \in SUBSET S : IsFiniteSet(s) /\ Cardinality(s) \in Nat
  BY FS_Subset, FS_CardinalityType
<1>s. \A s \in SUBSET S : it[s] = IF s = {} THEN 0 ELSE f[Pick(s)] + it[s \ {Pick(s)}]
  BY DEF IsFold
<1>1. 0 \in N
  BY <1>0, <1>s, FS_EmptySet
<1>2. ASSUME NEW n \in N
      PROVE  n + 1 \in N
  <2>1. ASSUME NEW s \in SUBSET S, Cardinality(s) = n + 1
        PROVE  Good(s)
    <3>1. IsFiniteSet(s) /\ s # {}
      BY <1>0, <2>1, FS_EmptySet
    <3>2. \A t \in SUBSET s : t # s => Good(t)
      <4> SUFFICES ASSUME NEW t \in SUBSET s, t # s
                   PROVE  Cardinality(t) <= n
        OBVIOUS
      <4>1. Cardinality(t) <= Cardinality(s) /\ Cardinality(t) # Cardinality(s)
        BY <3>1, FS_Subset
      <4>2. Cardinality(t) \in Nat
        BY <1>0
      <4> QED BY <2>1, <4>1, <4>2
    <3>3. \A x \in s : Good(s \ {x})
      BY <3>2
    <3>4. PICK c \in s : it[s] = f[c] + it[s \ {c}]
      BY <1>s, <3>1 DEF Pick
    <3>5. it[s] \in Int
      BY <3>3, <3>4
    <3>6. ASSUME NEW x \in s, x # c
          PROVE  it[s] = f[x] + it[s \ {x}]
      <4>1. it[s \ {c}] = f[x] + it[(s \ {c}) \ {x}]
        BY <3>3, <3>6
      <4>2. it[s \ {x}] = f[c] + it[(s \ {x}) \ {c}]
        BY <3>3, <3>6
      <4>3. (s \ {x}) \ {c} = (s \ {c}) \ {x}
        OBVIOUS
      <4>4. it[(s \ {c}) \ {x}] \in Int
        BY <3>2
      <4>5. f[x] \in Int /\ f[c] \in Int
        OBVIOUS
      <4>6. it[s \ {x}] = f[c] + it[(s \ {c}) \ {x}]
        BY <4>2, <4>3
      <4> DEFINE rest == it[(s \ {c}) \ {x}]
      <4>7. it[s] = f[c] + (f[x] + rest) /\ it[s \ {x}] = f[c] + rest
        BY <3>4, <4>1, <4>6
      <4>8. rest \in Int
        BY <4>4
      <4> HIDE DEF rest
      <4> QED BY <4>5, <4>7, <4>8
    <3> QED BY <3>4, <3>5, <3>6
  <2>2. ASSUME NEW s \in SUBSET S, Cardinality(s) <= n + 1
        PROVE  Good(s)
    <3>1. Cardinality(s) <= n \/ Cardinality(s) = n + 1
      BY <1>0, <2>2
    <3> QED BY <2>1, <3>1
  <2> QED BY <2>2
<1>3. N = Nat
  <2> HIDE DEF N
  <2>1. N \in SUBSET Nat
    BY DEF N
  <2> QED BY <1>1, <1>2, <2>1, InductiveSet
<1>4. \A s \in SUBSET S : Good(s)
  BY <1>0, <1>3
<1>5. it \in [SUBSET S -> Int]
  <2>1. DOMAIN it = SUBSET S /\ it = [s \in DOMAIN it |-> it[s]]
    BY DEF IsFold
  <2> QED BY <1>4, <2>1
<1>6. it[{}] = 0
  BY <1>s
<1> QED BY <1>4, <1>5, <1>6 DEF IsSum

LEMMA SumFold ==
    ASSUME NEW f, NEW S, IsFiniteSet(S), \A x \in S : f[x] \in Int
    PROVE  \E it : IsSum(it, f, S) /\ SumFunctionOnSet(f, S) = it[S]
<1> DEFINE it == CHOOSE g : IsFold(g, f, S)
<1>1. IsFold(it, f, S)
  BY FoldExists
<1>2. SumFunctionOnSet(f, S) = it[S]
  BY FoldUnfolded
<1> QED BY <1>1, <1>2, FoldIsSum

\* Two functions that satisfy the equations agree wherever the summands do.
LEMMA SumUnique ==
    ASSUME NEW f, NEW g, NEW S, NEW T, NEW a, NEW b, IsSum(a, f, S), IsSum(b, g, T),
           NEW U, IsFiniteSet(U), U \subseteq S, U \subseteq T, \A x \in U : f[x] = g[x]
    PROVE  a[U] = b[U]
<1> DEFINE F == {V \in SUBSET U : a[V] = b[V]}
<1>1. {} \in F
  BY DEF IsSum
<1>2. ASSUME NEW V \in SUBSET U, NEW x \in U, V \in F, x \notin V
      PROVE  V \cup {x} \in F
  <2>1. (V \cup {x}) \ {x} = V
    BY <1>2
  <2>2. V \cup {x} \in SUBSET S /\ V \cup {x} \in SUBSET T /\ x \in V \cup {x}
    OBVIOUS
  <2>3. a[V \cup {x}] = f[x] + a[V] /\ b[V \cup {x}] = g[x] + b[V]
    BY <2>1, <2>2 DEF IsSum
  <2> QED BY <1>2, <2>3
<1>3. U \in F
  <2> HIDE DEF F
  <2> QED BY <1>1, <1>2, InductiveFamily
<1> QED BY <1>3

-----------------------------------------------------------------------------
(* The theorems about sums.  IntsOn(f, S): every summand is an integer. *)

IntsOn(f, S) == \A x \in S : f[x] \in Int

\* The empty sum is 0.
THEOREM SumEmpty ==
    ASSUME NEW f
    PROVE  SumFunctionOnSet(f, {}) = 0
<1>1. IsFiniteSet({})
  BY FS_EmptySet
<1>2. PICK it : IsSum(it, f, {}) /\ SumFunctionOnSet(f, {}) = it[{}]
  BY <1>1, SumFold
<1> QED BY <1>2 DEF IsSum

\* Every sum of integers is an integer.
LEMMA SumInt ==
    ASSUME NEW f, NEW S, IsFiniteSet(S), IntsOn(f, S)
    PROVE  SumFunctionOnSet(f, S) \in Int
<1>1. PICK it : IsSum(it, f, S) /\ SumFunctionOnSet(f, S) = it[S]
  BY SumFold DEF IntsOn
<1> QED BY <1>1 DEF IsSum

\* Functions with the same values have the same sum.
THEOREM SumAgrees ==
    ASSUME NEW f, NEW g, NEW S, IsFiniteSet(S), IntsOn(f, S), \A x \in S : f[x] = g[x]
    PROVE  SumFunctionOnSet(f, S) = SumFunctionOnSet(g, S)
<1>1. PICK a : IsSum(a, f, S) /\ SumFunctionOnSet(f, S) = a[S]
  BY SumFold DEF IntsOn
<1>2. PICK b : IsSum(b, g, S) /\ SumFunctionOnSet(g, S) = b[S]
  BY SumFold DEF IntsOn
<1> QED BY <1>1, <1>2, SumUnique

\* One element taken out of the set is one summand less ...
THEOREM SumTakeOut ==
    ASSUME NEW f, NEW S, IsFiniteSet(S), IntsOn(f, S), NEW x \in S
    PROVE  SumFunctionOnSet(f, S) = f[x] + SumFunctionOnSet(f, S \ {x})
<1>1. PICK a : IsSum(a, f, S) /\ SumFunctionOnSet(f, S) = a[S]
  BY SumFold DEF IntsOn
<1>2. IsFiniteSet(S \ {x}) /\ IntsOn(f, S \ {x})
  BY FS_RemoveElement DEF IntsOn
<1>3. PICK b : IsSum(b, f, S \ {x}) /\ SumFunctionOnSet(f, S \ {x}) = b[S \ {x}]
  BY <1>2, SumFold DEF IntsOn
<1>4. a[S \ {x}] = b[S \ {x}]
  BY <1>1, <1>2, <1>3, SumUnique
<1>5. a[S] = f[x] + a[S \ {x}]
  BY <1>1 DEF IsSum
<1> QED BY <1>1, <1>3, <1>4, <1>5

\* ... or put into it, one summand more.
LEMMA SumPutIn ==
    ASSUME NEW f, NEW S, IsFiniteSet(S), IntsOn(f, S), NEW x, x \notin S, f[x] \in Int
    PROVE  SumFunctionOnSet(f, S \cup {x}) = f[x] + SumFunctionOnSet(f, S)
<1>1. IsFiniteSet(S \cup {x}) /\ IntsOn(f, S \cup {x})
  BY FS_AddElement DEF IntsOn
<1>2. (S \cup {x}) \ {x} = S
  OBVIOUS
<1> QED BY <1>1, <1>2, SumTakeOut

\* A sum over two disjoint sets is the sum of the sums.
THEOREM SumUnion ==
    ASSUME NEW f, NEW S, NEW T, IsFiniteSet(S), IsFiniteSet(T), IntsOn(f, S), IntsOn(f, T),
           S \cap T = {}
    PROVE  SumFunctionOnSet(f, S \cup T) = SumFunctionOnSet(f, S) + SumFunctionOnSet(f, T)
<1> DEFINE Total(U) == SumFunctionOnSet(f, U)
           F == {U \in SUBSET T : Total(S \cup U) = Total(S) + Total(U)}
<1>0. Total(S) \in Int
  BY SumInt
<1>1. {} \in F
  BY <1>0, SumEmpty, S \cup {} = S
<1>2. ASSUME NEW U \in SUBSET T, NEW x \in T, U \in F, x \notin U
      PROVE  U \cup {x} \in F
  <2>1. IsFiniteSet(U) /\ IsFiniteSet(S \cup U) /\ IntsOn(f, U) /\ IntsOn(f, S \cup U)
    BY FS_Subset, FS_Union DEF IntsOn
  <2>2. x \notin S \cup U /\ f[x] \in Int
    BY <1>2 DEF IntsOn
  <2>3. Total((S \cup U) \cup {x}) = f[x] + Total(S \cup U)
    BY <2>1, <2>2, SumPutIn
  <2>4. Total(U \cup {x}) = f[x] + Total(U)
    BY <1>2, <2>1, <2>2, SumPutIn
  <2>5. Total(S \cup U) = Total(S) + Total(U) /\ Total(U) \in Int
    BY <1>2, <2>1, SumInt
  <2>6. S \cup (U \cup {x}) = (S \cup U) \cup {x}
    OBVIOUS
  <2>7. Total(S \cup (U \cup {x})) = f[x] + Total(S \cup U)
    BY <2>3, <2>6
  <2>8. Total(S \cup (U \cup {x})) = Total(S) + Total(U \cup {x})
    <3> HIDE DEF Total
    <3> QED BY <1>0, <2>2, <2>4, <2>5, <2>7
  <2> QED BY <2>8
<1>3. T \in F
  <2> HIDE DEF F
  <2> QED BY <1>1, <1>2, InductiveFamily
<1> QED BY <1>3

\* Larger summands have the larger sum.
THEOREM SumMonotone ==
    ASSUME NEW f, NEW g, NEW S, IsFiniteSet(S), IntsOn(f, S), IntsOn(g, S),
           \A x \in S : f[x] <= g[x]
    PROVE  SumFunctionOnSet(f, S) <= SumFunctionOnSet(g, S)
<1> DEFINE F == {U \in SUBSET S : SumFunctionOnSet(f, U) <= SumFunctionOnSet(g, U)}
<1>1. {} \in F
  BY SumEmpty
<1>2. ASSUME NEW U \in SUBSET S, NEW x \in S, U \in F, x \notin U
      PROVE  U \cup {x} \in F
  <2> DEFINE a == SumFunctionOnSet(f, U)
             b == SumFunctionOnSet(g, U)
  <2>1. IsFiniteSet(U) /\ IntsOn(f, U) /\ IntsOn(g, U) /\ f[x] \in Int /\ g[x] \in Int
    BY FS_Subset DEF IntsOn
  <2>2. a \in Int /\ b \in Int /\ a <= b /\ f[x] <= g[x]
    BY <1>2, <2>1, SumInt
  <2>3. /\ SumFunctionOnSet(f, U \cup {x}) = f[x] + a
        /\ SumFunctionOnSet(g, U \cup {x}) = g[x] + b
    BY <1>2, <2>1, SumPutIn
  <2> HIDE DEF a, b
  <2>4. f[x] + a <= g[x] + b
    BY <2>1, <2>2
  <2> QED BY <2>3, <2>4
<1>3. S \in F
  <2> HIDE DEF F
  <2> QED BY <1>1, <1>2, InductiveFamily
<1> QED BY <1>3

\* Nothing but zeros sum to zero.
LEMMA SumZero ==
    ASSUME NEW f, NEW S, IsFiniteSet(S), \A x \in S : f[x] = 0
    PROVE  SumFunctionOnSet(f, S) = 0
<1> DEFINE F == {U \in SUBSET S : SumFunctionOnSet(f, U) = 0}
<1>1. {} \in F
  BY SumEmpty
<1>2. ASSUME NEW U \in SUBSET S, NEW x \in S, U \in F, x \notin U
      PROVE  U \cup {x} \in F
  <2>1. IsFiniteSet(U) /\ IntsOn(f, U) /\ f[x] = 0 /\ f[x] \in Int
    BY FS_Subset DEF IntsOn
  <2>2. SumFunctionOnSet(f, U \cup {x}) = f[x] + SumFunctionOnSet(f, U)
    BY <1>2, <2>1, SumPutIn
  <2> QED BY <1>2, <2>1, <2>2
<1>3. S \in F
  <2> HIDE DEF F
  <2> QED BY <1>1, <1>2, InductiveFamily
<1> QED BY <1>3

\* Summands that are not negative have a sum that is not negative ...
LEMMA SumNat ==
    ASSUME NEW f, NEW S, IsFiniteSet(S), \A x \in S : f[x] \in Nat
    PROVE  SumFunctionOnSet(f, S) \in Nat
<1> DEFINE zero == [x \in S |-> 0]
<1>1. IntsOn(f, S) /\ IntsOn(zero, S) /\ \A x \in S : zero[x] <= f[x] /\ zero[x] = 0
  BY DEF IntsOn
<1> HIDE DEF zero
<1>2. SumFunctionOnSet(zero, S) = 0 /\ SumFunctionOnSet(f, S) \in Int
  BY <1>1, SumZero, SumInt
<1>3. SumFunctionOnSet(zero, S) <= SumFunctionOnSet(f, S)
  BY <1>1, SumMonotone
<1> QED BY <1>2, <1>3

\* ... and a part of them no larger a sum.
THEOREM SumOfPart ==
    ASSUME NEW f, NEW S, IsFiniteSet(S), IntsOn(f, S), NEW T \in SUBSET S,
           \A x \in S \ T : f[x] \in Nat
    PROVE  SumFunctionOnSet(f, T) <= SumFunctionOnSet(f, S)
<1>1. /\ IsFiniteSet(T) /\ IntsOn(f, T)
      /\ IsFiniteSet(S \ T) /\ IntsOn(f, S \ T)
      /\ T \cap (S \ T) = {} /\ T \cup (S \ T) = S
  BY FS_Subset, FS_Difference DEF IntsOn
<1>2. SumFunctionOnSet(f, S) = SumFunctionOnSet(f, T) + SumFunctionOnSet(f, S \ T)
  BY <1>1, SumUnion
<1>3. SumFunctionOnSet(f, T) \in Int /\ SumFunctionOnSet(f, S \ T) \in Nat
  BY <1>1, SumInt, SumNat
<1> DEFINE a == SumFunctionOnSet(f, T)
           b == SumFunctionOnSet(f, S \ T)
<1> HIDE DEF a, b
<1>4. a <= a + b
  BY <1>3 DEF a, b
<1> QED BY <1>2, <1>4 DEF a, b

\* A sum may run over the names of what it sums: h names the elements of T
\* by those of S, one to one.
THEOREM SumRenamed ==
    ASSUME NEW f, NEW g, NEW h, NEW S, IsFiniteSet(S), IntsOn(f, S),
           \A x \in S : g[h[x]] = f[x],
           \A x, y \in S : h[x] = h[y] => x = y
    PROVE  SumFunctionOnSet(g, {h[x] : x \in S}) = SumFunctionOnSet(f, S)
<1> DEFINE Image(U) == {h[x] : x \in U}
           Holds(U) == /\ IsFiniteSet(Image(U))
                       /\ SumFunctionOnSet(g, Image(U)) = SumFunctionOnSet(f, U)
           F == {U \in SUBSET S : Holds(U)}
<1>1. {} \in F
  <2>1. Image({}) = {}
    OBVIOUS
  <2>2. SumFunctionOnSet(g, {}) = 0 /\ SumFunctionOnSet(f, {}) = 0
    BY SumEmpty
  <2> QED BY <2>1, <2>2, FS_EmptySet
<1>2. ASSUME NEW U \in SUBSET S, NEW x \in S, U \in F, x \notin U
      PROVE  U \cup {x} \in F
  <2>1. IsFiniteSet(U) /\ IntsOn(f, U) /\ f[x] \in Int
    BY FS_Subset DEF IntsOn
  <2>2. /\ Image(U \cup {x}) = Image(U) \cup {h[x]}
        /\ h[x] \notin Image(U) /\ g[h[x]] \in Int
        /\ IntsOn(g, Image(U)) /\ IsFiniteSet(Image(U))
    BY <1>2 DEF IntsOn
  <2>3. IsFiniteSet(Image(U \cup {x}))
    BY <2>2, FS_AddElement
  <2>4. SumFunctionOnSet(g, Image(U \cup {x})) = g[h[x]] + SumFunctionOnSet(g, Image(U))
    BY <2>2, SumPutIn
  <2>5. SumFunctionOnSet(f, U \cup {x}) = f[x] + SumFunctionOnSet(f, U)
    BY <1>2, <2>1, SumPutIn
  <2>6. SumFunctionOnSet(g, Image(U)) = SumFunctionOnSet(f, U) /\ g[h[x]] = f[x]
    BY <1>2
  <2>7. Holds(U \cup {x})
    BY <2>3, <2>4, <2>5, <2>6
  <2> QED BY <2>7
<1>3. S \in F
  <2> HIDE DEF F
  <2> QED BY <1>1, <1>2, InductiveFamily
<1> QED BY <1>3
=============================================================================
