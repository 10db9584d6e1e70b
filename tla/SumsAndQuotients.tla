-------------------------- MODULE SumsAndQuotients --------------------------
(* Facts about rounded quotients and about the sum of a function over a finite *)
(* set (SumFunctionOnSet of the community module Functions), in a first-order  *)
(* form the provers can use.  The library's induction theorems take an         *)
(* operator; here every induction is the choice of a minimal counterexample    *)
(* among the subsets of a finite set.                                          *)
EXTENDS Functions, FiniteSetTheorems, TLAPS

----------------------------------------------------------------------------
(* Quotients. *)

\* The quotient of two naturals is the natural the dividend lies above.
LEMMA QuotientBounds ==
    ASSUME NEW a \in Nat, NEW d \in Nat \ {0}
    PROVE  /\ a \div d \in Nat
           /\ (a \div d) * d <= a
           /\ a < (a \div d) * d + d
BY SMT

\* A product of naturals is a natural.
LEMMA ProductNat ==
    ASSUME NEW a \in Nat, NEW b \in Nat
    PROVE  a * b \in Nat
BY SMT

\* A product grows with its factors.
LEMMA ProductMonotone ==
    ASSUME NEW a \in Nat, NEW b \in Nat, NEW c \in Nat, a <= b
    PROVE  a * c <= b * c /\ c * a <= c * b
BY SMT

\* A common factor can be cancelled.
LEMMA ProductCancel ==
    ASSUME NEW a \in Nat, NEW b \in Nat, NEW c \in Nat \ {0}, a * c <= b * c
    PROVE  a <= b
BY SMT

\* A quotient is at least any number whose product with the divisor is no more
\* than the dividend.
LEMMA QuotientAtLeast ==
    ASSUME NEW a \in Nat, NEW d \in Nat \ {0}, NEW n \in Nat, n * d <= a
    PROVE  n <= a \div d
<1>1. a \div d \in Nat /\ a < (a \div d) * d + d
  BY QuotientBounds
<1>2. n * d < (a \div d + 1) * d
  BY <1>1
<1> QED
  BY <1>1, <1>2, SMT

\* A quotient is at most any number whose product with the divisor is no less than
\* the dividend.
LEMMA QuotientAtMost ==
    ASSUME NEW a \in Nat, NEW d \in Nat \ {0}, NEW n \in Nat, a <= n * d
    PROVE  a \div d <= n
<1>1. a \div d \in Nat /\ (a \div d) * d <= a
  BY QuotientBounds
<1>2. (a \div d) * d <= n * d
  BY <1>1, ProductNat
<1> QED
  BY <1>1, <1>2, ProductCancel

\* A part of at most the whole takes at most the whole of the pool.
LEMMA PartOfPool ==
    ASSUME NEW x \in Nat, NEW y \in Nat, NEW d \in Nat \ {0}, x <= d
    PROVE  (x * y) \div d \in Nat /\ (x * y) \div d <= y
<1>1. x * y \in Nat /\ x * y <= y * d
  BY ProductNat, ProductMonotone
<1> QED
  BY <1>1, QuotientBounds, QuotientAtMost

\* A nonempty collection of subsets of a finite set has a minimal member.
LEMMA MinimalSubset ==
    ASSUME NEW S, IsFiniteSet(S), NEW Bad \in SUBSET (SUBSET S), Bad # {}
    PROVE  \E T \in Bad : \A U \in Bad : U \subseteq T => U = T
<1>1. IsWellFoundedOn(StrictSubsetOrdering(S), FiniteSubsetsOf(S))
  BY FS_StrictSubsetOrderingWellFounded
<1>2. FiniteSubsetsOf(S) = SUBSET S
  BY FS_FiniteSubsetsOfFinite
<1>3. \E T \in Bad : \A U \in Bad : ~(<<U, T>> \in StrictSubsetOrdering(S))
  BY <1>1, <1>2, WFMin
<1> QED
  BY <1>3 DEF StrictSubsetOrdering

\* g is the table of the partial sums of f over the subsets of S.
SumTable(g, f, S) ==
    g = [s \in SUBSET S |->
            IF s = {} THEN 0
            ELSE f[CHOOSE x \in s : TRUE] + g[s \ {CHOOSE x \in s : TRUE}]]

\* The sum is read off such a table.
LEMMA SumIsTable ==
    ASSUME NEW f, NEW S
    PROVE  SumFunctionOnSet(f, S) = (CHOOSE g : SumTable(g, f, S))[S]
BY DEF SumFunctionOnSet, FoldFunctionOnSet, MapThenFoldSet, SumTable

\* Tables agree where both are defined.
LEMMA TablesAgree ==
    ASSUME NEW f, NEW S, IsFiniteSet(S), NEW T \in SUBSET S, NEW g, NEW h,
           SumTable(g, f, S), SumTable(h, f, T)
    PROVE  \A U \in SUBSET T : g[U] = h[U]
<1> DEFINE Bad == {U \in SUBSET T : g[U] # h[U]}
<1> SUFFICES ASSUME Bad # {} PROVE FALSE
  OBVIOUS
<1>1. PICK U \in Bad : \A V \in Bad : V \subseteq U => V = U
  <2>1. IsFiniteSet(T) /\ Bad \in SUBSET (SUBSET T)
    BY FS_Subset
  <2> HIDE DEF Bad
  <2> QED
    BY <2>1, MinimalSubset
<1>2. CASE U = {}
  BY <1>1, <1>2 DEF SumTable
<1>3. CASE U # {}
  <2> DEFINE c == CHOOSE x \in U : TRUE
  <2>1. c \in U
    BY <1>3
  <2>2. g[U \ {c}] = h[U \ {c}]
    BY <1>1, <2>1
  <2>3. g[U] = f[c] + g[U \ {c}] /\ h[U] = f[c] + h[U \ {c}]
    BY <1>3 DEF SumTable
  <2> QED
    BY <2>2, <2>3
<1> QED
  BY <1>2, <1>3

\* Every finite set has a table.
LEMMA TableExists ==
    ASSUME NEW f, NEW S, IsFiniteSet(S)
    PROVE  \E g : SumTable(g, f, S)
<1> DEFINE Bad == {T \in SUBSET S : ~\E g : SumTable(g, f, T)}
<1> SUFFICES ASSUME Bad # {} PROVE FALSE
  OBVIOUS
<1>1. PICK T \in Bad : \A U \in Bad : U \subseteq T => U = T
  <2>1. Bad \in SUBSET (SUBSET S)
    OBVIOUS
  <2> HIDE DEF Bad
  <2> QED
    BY <2>1, MinimalSubset
<1> DEFINE Tab(s) == CHOOSE h : SumTable(h, f, s)
           c(s) == CHOOSE x \in s : TRUE
           g == [s \in SUBSET T |->
                   IF s = {} THEN 0 ELSE f[c(s)] + Tab(s \ {c(s)})[s \ {c(s)}]]
<1>2. \A U \in SUBSET T : U # T => SumTable(Tab(U), f, U)
  BY <1>1
<1>3. \A s \in SUBSET T : s # {} => c(s) \in s
  OBVIOUS
<1>4. \A s \in SUBSET T : s # T => g[s] = Tab(s)[s]
  <2> SUFFICES ASSUME NEW s \in SUBSET T, s # T PROVE g[s] = Tab(s)[s]
    OBVIOUS
  <2>1. SumTable(Tab(s), f, s)
    BY <1>2
  <2>2. CASE s = {}
    BY <2>1, <2>2 DEF SumTable
  <2>3. CASE s # {}
    <3> DEFINE r == s \ {c(s)}
    <3>1. c(s) \in s /\ r \in SUBSET s /\ r # T
      BY <1>3, <2>3
    <3>2. SumTable(Tab(r), f, r)
      BY <1>2, <3>1
    <3>3. IsFiniteSet(s)
      BY FS_Subset
    <3>4. Tab(s)[r] = Tab(r)[r]
      <4> HIDE DEF Tab, r
      <4> QED BY <2>1, <3>1, <3>2, <3>3, TablesAgree
    <3>5. Tab(s)[s] = f[c(s)] + Tab(s)[r]
      <4> HIDE DEF Tab
      <4> QED BY <2>1, <2>3 DEF SumTable
    <3>6. g[s] = f[c(s)] + Tab(r)[r]
      BY <2>3
    <3> QED
      BY <3>4, <3>5, <3>6
  <2> QED
    BY <2>2, <2>3
<1>5. SumTable(g, f, T)
  <2>1. \A s \in SUBSET T : s # {} => g[s \ {c(s)}] = Tab(s \ {c(s)})[s \ {c(s)}]
    BY <1>3, <1>4
  <2>2. \A s \in SUBSET T :
          g[s] = IF s = {} THEN 0 ELSE f[c(s)] + g[s \ {c(s)}]
    <3>1. \A s \in SUBSET T :
            g[s] = IF s = {} THEN 0 ELSE f[c(s)] + Tab(s \ {c(s)})[s \ {c(s)}]
      OBVIOUS
    <3> HIDE DEF g, Tab, c
    <3> QED
      BY <2>1, <3>1
  <2> DEFINE t == [s \in SUBSET T |-> IF s = {} THEN 0 ELSE f[c(s)] + g[s \ {c(s)}]]
  <2>3. g = t
    <3>1. DOMAIN g = SUBSET T /\ DOMAIN t = SUBSET T
      OBVIOUS
    <3>2. g = [s \in SUBSET T |-> g[s]]
      OBVIOUS
    <3> HIDE DEF g
    <3> QED BY <2>2, <3>2
  <2> HIDE DEF g
  <2> QED
    BY <2>3 DEF SumTable
<1> QED
  BY <1>1, <1>5

----------------------------------------------------------------------------
(* The sum. *)

\* What the definition computes: one element is taken away at a time.
LEMMA SumUnfolds ==
    ASSUME NEW f, NEW S, IsFiniteSet(S)
    PROVE  /\ SumFunctionOnSet(f, {}) = 0
           /\ S # {} => \E c \in S :
                SumFunctionOnSet(f, S) = f[c] + SumFunctionOnSet(f, S \ {c})
<1> DEFINE Tab(s) == CHOOSE h : SumTable(h, f, s)
<1>1. \A s : SumFunctionOnSet(f, s) = Tab(s)[s]
  BY SumIsTable
<1>2. \A s : IsFiniteSet(s) => SumTable(Tab(s), f, s)
  BY TableExists
<1>3. SumFunctionOnSet(f, {}) = 0
  <2>1. SumTable(Tab({}), f, {})
    BY <1>2, FS_EmptySet
  <2> HIDE DEF Tab
  <2> QED
    BY <1>1, <2>1 DEF SumTable
<1>4. ASSUME S # {}
      PROVE  \E c \in S :
                SumFunctionOnSet(f, S) = f[c] + SumFunctionOnSet(f, S \ {c})
  <2> DEFINE c == CHOOSE x \in S : TRUE
             R == S \ {c}
  <2>1. c \in S /\ R \in SUBSET S
    BY <1>4
  <2>2. SumTable(Tab(S), f, S) /\ SumTable(Tab(R), f, R)
    BY <1>2, <2>1, FS_Subset
  <2>3. Tab(S)[R] = Tab(R)[R]
    <3> HIDE DEF Tab, R
    <3> QED BY <2>1, <2>2, TablesAgree
  <2>4. Tab(S)[S] = f[c] + Tab(S)[R]
    <3> HIDE DEF Tab
    <3> QED BY <1>4, <2>2 DEF SumTable
  <2> HIDE DEF Tab, c
  <2> QED
    BY <1>1, <2>1, <2>3, <2>4
<1> QED
  BY <1>3, <1>4

\* Nothing sums up to zero.
LEMMA SumEmpty == \A f : SumFunctionOnSet(f, {}) = 0
BY SumUnfolds, FS_EmptySet

\* A sum of naturals is a natural.
LEMMA SumNat ==
    ASSUME NEW f, NEW S, IsFiniteSet(S), \A x \in S : f[x] \in Nat
    PROVE  SumFunctionOnSet(f, S) \in Nat
<1> DEFINE Bad == {T \in SUBSET S : SumFunctionOnSet(f, T) \notin Nat}
<1> SUFFICES ASSUME Bad # {} PROVE FALSE
  OBVIOUS
<1>1. PICK T \in Bad : \A U \in Bad : U \subseteq T => U = T
  <2>1. Bad \in SUBSET (SUBSET S)
    OBVIOUS
  <2> HIDE DEF Bad
  <2> QED
    BY <2>1, MinimalSubset
<1>2. IsFiniteSet(T) /\ T # {}
  <2>1. IsFiniteSet(T)
    BY FS_Subset
  <2>2. SumFunctionOnSet(f, {}) = 0
    BY SumEmpty
  <2>3. T # {}
    BY <2>2
  <2> QED
    BY <2>1, <2>3
<1>3. PICK c \in T : SumFunctionOnSet(f, T) = f[c] + SumFunctionOnSet(f, T \ {c})
  BY <1>2, SumUnfolds
<1>4. SumFunctionOnSet(f, T \ {c}) \in Nat
  BY <1>1, <1>3
<1> QED
  BY <1>3, <1>4

\* Any element can be taken away first.
LEMMA SumRemove ==
    ASSUME NEW f, NEW S, IsFiniteSet(S), \A x \in S : f[x] \in Nat, NEW a \in S
    PROVE  SumFunctionOnSet(f, S) = f[a] + SumFunctionOnSet(f, S \ {a})
<1> DEFINE Sum(T) == SumFunctionOnSet(f, T)
           Bad == {T \in SUBSET S : \E x \in T : Sum(T) # f[x] + Sum(T \ {x})}
<1> SUFFICES ASSUME Bad # {} PROVE FALSE
  OBVIOUS
<1>1. PICK T \in Bad : \A U \in Bad : U \subseteq T => U = T
  <2>1. Bad \in SUBSET (SUBSET S)
    OBVIOUS
  <2> HIDE DEF Bad
  <2> QED
    BY <2>1, MinimalSubset
<1>2. PICK x \in T : Sum(T) # f[x] + Sum(T \ {x})
  BY <1>1
<1>3. \A U \in SUBSET S : IsFiniteSet(U) /\ Sum(U) \in Nat
  BY SumNat, FS_Subset
<1>4. PICK c \in T : Sum(T) = f[c] + Sum(T \ {c})
  <2>1. IsFiniteSet(T) /\ T # {}
    BY <1>2, <1>3
  <2> HIDE DEF Bad
  <2> QED
    BY <2>1, SumUnfolds
<1>5. c # x
  BY <1>2, <1>4
<1>6. Sum(T \ {c}) = f[x] + Sum((T \ {c}) \ {x})
  <2>1. T \ {c} \notin Bad
    BY <1>1, <1>4
  <2> QED
    BY <2>1, <1>5
<1>7. Sum(T \ {x}) = f[c] + Sum((T \ {x}) \ {c})
  <2>1. T \ {x} \notin Bad
    BY <1>1, <1>2
  <2> QED
    BY <2>1, <1>5
<1>8. (T \ {c}) \ {x} = (T \ {x}) \ {c}
  OBVIOUS
<1>9. /\ f[x] \in Nat /\ f[c] \in Nat /\ Sum((T \ {x}) \ {c}) \in Nat
  BY <1>1, <1>2, <1>3, <1>4
<1> DEFINE q == Sum((T \ {x}) \ {c})
<1>10. Sum(T) = f[c] + (f[x] + q)
  BY <1>4, <1>6, <1>8
<1>11. f[x] + Sum(T \ {x}) = f[x] + (f[c] + q)
  BY <1>7
<1>12. f[c] + (f[x] + q) = f[x] + (f[c] + q)
  BY <1>9
<1> QED
  BY <1>2, <1>10, <1>11, <1>12

\* The sum depends on the values over the set only.
LEMMA SumCongruence ==
    ASSUME NEW f, NEW g, NEW S, IsFiniteSet(S), \A x \in S : f[x] \in Nat,
           \A x \in S : f[x] = g[x]
    PROVE  SumFunctionOnSet(f, S) = SumFunctionOnSet(g, S)
<1> DEFINE Bad == {T \in SUBSET S : SumFunctionOnSet(f, T) # SumFunctionOnSet(g, T)}
<1> SUFFICES ASSUME Bad # {} PROVE FALSE
  OBVIOUS
<1>1. PICK T \in Bad : \A U \in Bad : U \subseteq T => U = T
  <2>1. Bad \in SUBSET (SUBSET S)
    OBVIOUS
  <2> HIDE DEF Bad
  <2> QED
    BY <2>1, MinimalSubset
<1>2. IsFiniteSet(T) /\ T # {}
  BY <1>1, SumEmpty, FS_Subset
<1>3. PICK c \in T : SumFunctionOnSet(f, T) = f[c] + SumFunctionOnSet(f, T \ {c})
  BY <1>2, SumUnfolds
<1>4. SumFunctionOnSet(g, T) = g[c] + SumFunctionOnSet(g, T \ {c})
  BY <1>1, <1>2, <1>3, SumRemove
<1>5. SumFunctionOnSet(f, T \ {c}) = SumFunctionOnSet(g, T \ {c})
  BY <1>1, <1>3
<1> QED
  BY <1>1, <1>3, <1>4, <1>5

----------------------------------------------------------------------------
(* SumFunction, over the whole domain. *)

\* A total of naturals is a natural, and is no less than any of its parts.
LEMMA TotalNat ==
    ASSUME NEW S, IsFiniteSet(S), NEW f \in [S -> Nat]
    PROVE  /\ SumFunction(f) \in Nat
           /\ \A a \in S : f[a] <= SumFunction(f)
<1>1. SumFunction(f) = SumFunctionOnSet(f, S)
  BY DEF SumFunction
<1>2. ASSUME NEW a \in S
      PROVE  f[a] <= SumFunction(f)
  <2>1. IsFiniteSet(S \ {a})
    BY FS_Subset
  <2>2. PICK q \in Nat : SumFunctionOnSet(f, S) = f[a] + q
    BY <2>1, SumRemove, SumNat
  <2>3. f[a] <= f[a] + q
    OBVIOUS
  <2> QED
    BY <1>1, <2>2, <2>3
<1>3. SumFunctionOnSet(f, S) \in Nat
  BY SumNat
<1> QED
  BY <1>1, <1>2, <1>3

\* Changing one part changes the total by as much.
LEMMA TotalUpdate ==
    ASSUME NEW S, IsFiniteSet(S), NEW f \in [S -> Nat], NEW g \in [S -> Nat], NEW a \in S,
           \A x \in S : x # a => g[x] = f[x]
    PROVE  SumFunction(g) + f[a] = SumFunction(f) + g[a]
<1>1. /\ SumFunction(f) = SumFunctionOnSet(f, S)
      /\ SumFunction(g) = SumFunctionOnSet(g, S)
  BY DEF SumFunction
<1>2. IsFiniteSet(S \ {a})
  BY FS_Subset
<1>3. /\ SumFunctionOnSet(f, S) = f[a] + SumFunctionOnSet(f, S \ {a})
      /\ SumFunctionOnSet(g, S) = g[a] + SumFunctionOnSet(g, S \ {a})
  BY SumRemove
<1>4. SumFunctionOnSet(f, S \ {a}) = SumFunctionOnSet(g, S \ {a})
  BY <1>2, SumCongruence
<1>5. SumFunctionOnSet(f, S \ {a}) \in Nat
  BY <1>2, SumNat
<1> QED
  BY <1>1, <1>3, <1>4, <1>5

\* Totals are added part by part.
LEMMA TotalAdd ==
    ASSUME NEW S, IsFiniteSet(S), NEW f \in [S -> Nat], NEW g \in [S -> Nat],
           NEW h \in [S -> Nat], \A x \in S : h[x] = f[x] + g[x]
    PROVE  SumFunction(h) = SumFunction(f) + SumFunction(g)
<1> DEFINE Sum(e, T) == SumFunctionOnSet(e, T)
           Bad == {T \in SUBSET S : Sum(h, T) # Sum(f, T) + Sum(g, T)}
<1> SUFFICES ASSUME Bad # {} PROVE FALSE
  BY DEF SumFunction
<1>1. PICK T \in Bad : \A U \in Bad : U \subseteq T => U = T
  <2>1. Bad \in SUBSET (SUBSET S)
    OBVIOUS
  <2> HIDE DEF Bad
  <2> QED
    BY <2>1, MinimalSubset
<1>2. IsFiniteSet(T)
  BY FS_Subset
<1>3. PICK c \in T : TRUE
  <2>1. Sum(h, {}) = 0 /\ Sum(f, {}) = 0 /\ Sum(g, {}) = 0
    BY SumEmpty
  <2>2. Sum(h, {}) = Sum(f, {}) + Sum(g, {})
    BY <2>1
  <2> QED
    BY <2>2
<1>4. /\ Sum(f, T) = f[c] + Sum(f, T \ {c})
      /\ Sum(g, T) = g[c] + Sum(g, T \ {c})
      /\ Sum(h, T) = h[c] + Sum(h, T \ {c})
  BY <1>2, SumRemove
<1>5. IsFiniteSet(T \ {c})
  BY <1>2, FS_Subset
<1>6. PICK p \in Nat, q \in Nat : p = Sum(f, T \ {c}) /\ q = Sum(g, T \ {c})
  BY <1>5, SumNat
<1>7. Sum(h, T \ {c}) = p + q
  BY <1>1, <1>6
<1>8. Sum(h, T) = (f[c] + g[c]) + (p + q) /\ Sum(f, T) + Sum(g, T) = (f[c] + p) + (g[c] + q)
  BY <1>4, <1>6, <1>7
<1>9. (f[c] + g[c]) + (p + q) = (f[c] + p) + (g[c] + q)
  OBVIOUS
<1> QED
  BY <1>8, <1>9

\* A total is zero just when all its parts are.
LEMMA TotalZero ==
    ASSUME NEW S, IsFiniteSet(S), NEW f \in [S -> Nat]
    PROVE  SumFunction(f) = 0 <=> \A x \in S : f[x] = 0
<1>1. SumFunction(f) = 0 => \A x \in S : f[x] = 0
  BY TotalNat
<1>2. ASSUME \A x \in S : f[x] = 0
      PROVE  SumFunction(f) = 0
  <2> DEFINE Bad == {T \in SUBSET S : SumFunctionOnSet(f, T) # 0}
  <2> SUFFICES ASSUME Bad # {} PROVE FALSE
    BY DEF SumFunction
  <2>1. PICK T \in Bad : \A U \in Bad : U \subseteq T => U = T
    <3>1. Bad \in SUBSET (SUBSET S)
      OBVIOUS
    <3> HIDE DEF Bad
    <3> QED
      BY <3>1, MinimalSubset
  <2>2. IsFiniteSet(T) /\ T # {}
    BY <2>1, SumEmpty, FS_Subset
  <2>3. PICK c \in T : SumFunctionOnSet(f, T) = f[c] + SumFunctionOnSet(f, T \ {c})
    BY <2>2, SumUnfolds
  <2> QED
    BY <1>2, <2>1, <2>3
<1> QED
  BY <1>1, <1>2

\* A total with one part is that part.
LEMMA TotalOfOne ==
    ASSUME NEW S, IsFiniteSet(S), NEW f \in [S -> Nat], NEW a \in S,
           \A x \in S : x # a => f[x] = 0
    PROVE  SumFunction(f) = f[a]
<1> DEFINE z == [x \in S |-> 0]
<1>1. z \in [S -> Nat] /\ z[a] = 0 /\ \A x \in S : x # a => f[x] = z[x]
  OBVIOUS
<1>2. SumFunction(z) = 0
  <2>1. \A x \in S : z[x] = 0
    OBVIOUS
  <2> HIDE DEF z
  <2> QED
    BY <1>1, <2>1, TotalZero
<1> HIDE DEF z
<1>3. SumFunction(f) + z[a] = SumFunction(z) + f[a]
  BY <1>1, TotalUpdate
<1>4. SumFunction(f) \in Nat
  BY TotalNat
<1> QED
  BY <1>1, <1>2, <1>3, <1>4
=============================================================================
