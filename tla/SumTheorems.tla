---------------------------- MODULE SumTheorems ----------------------------
(***************************************************************************)
(* Facts about SumFunctionOnSet (community module Functions): the sum of   *)
(* the values a function takes on a finite set of arguments.  The token    *)
(* and share accounts of the staking contract are all statements about     *)
(* such sums.  Induction is done on sets: the set of counterexamples to a  *)
(* fact, if not empty, has a minimal element, which is refuted.  In the    *)
(* end, the same for functions that are defined recursively on 0 .. n.     *)
(***************************************************************************)
EXTENDS Integers, Functions, FiniteSetTheorems, TLAPS

(* The element that the sum of s splits off first.                         *)
Pick(s) == CHOOSE e \in s : TRUE

(* g gives the sum of f over every subset of S.                            *)
SumsUpTo(g, f, S) ==
  g = [s \in SUBSET S |-> IF s = {} THEN 0 ELSE f[Pick(s)] + g[s \ {Pick(s)}]]

(* A non-empty set of subsets of a finite set has a minimal element.       *)
LEMMA FiniteSetMinimal ==
  ASSUME NEW S, IsFiniteSet(S), NEW F \in SUBSET (SUBSET S), F # {}
  PROVE  \E m \in F : \A t \in F : ~(t \subseteq m /\ t # m)
<1> DEFINE R == StrictSubsetOrdering(S)
<1>1. IsWellFoundedOn(R, SUBSET S)
  BY FS_StrictSubsetOrderingWellFounded, FS_FiniteSubsetsOfFinite
<1>2. PICK m \in F : \A t \in F : ~(<<t, m>> \in R)
  <2> HIDE DEF R
  <2> QED BY <1>1, WFMin
<1>3. QED
  BY <1>2 DEF StrictSubsetOrdering

(* Two such functions agree wherever both are defined.                     *)
LEMMA SumsUnique ==
  ASSUME NEW f, NEW S, IsFiniteSet(S), NEW T, NEW g, NEW h,
         SumsUpTo(g, f, S), SumsUpTo(h, f, T)
  PROVE  \A s \in SUBSET S : s \subseteq T => g[s] = h[s]
<1> DEFINE Bad == {s \in SUBSET S : s \subseteq T /\ g[s] # h[s]}
<1> SUFFICES ASSUME Bad # {} PROVE FALSE
  OBVIOUS
<1>1. PICK m \in Bad : \A t \in Bad : ~(t \subseteq m /\ t # m)
  <2>1. Bad \in SUBSET (SUBSET S)
    OBVIOUS
  <2> HIDE DEF Bad
  <2> QED BY <2>1, FiniteSetMinimal
<1> DEFINE r == m \ {Pick(m)}
<1>2. CASE m = {}
  BY <1>1, <1>2 DEF SumsUpTo
<1>3. CASE m # {}
  <2>1. Pick(m) \in m
    BY <1>3 DEF Pick
  <2>2. r \in SUBSET S /\ r \subseteq T /\ r \subseteq m /\ r # m
    BY <2>1
  <2>3. g[r] = h[r]
    BY <1>1, <2>2
  <2>4. g[m] = f[Pick(m)] + g[r] /\ h[m] = f[Pick(m)] + h[r]
    BY <1>3 DEF SumsUpTo
  <2> QED
    BY <2>3, <2>4
<1> QED
  BY <1>2, <1>3

(* If such a function exists for S, the community operator is its value.   *)
LEMMA SumIsValue ==
  ASSUME NEW f, NEW S, NEW g, IsFiniteSet(S), SumsUpTo(g, f, S)
  PROVE  SumFunctionOnSet(f, S) = g[S]
<1> DEFINE h == CHOOSE k : SumsUpTo(k, f, S)
<1>1. SumsUpTo(h, f, S)
  OBVIOUS
<1>2. SumFunctionOnSet(f, S) = h[S]
  BY Zenon DEF SumFunctionOnSet, FoldFunctionOnSet, MapThenFoldSet, SumsUpTo, Pick
<1>3. h[S] = g[S]
  <2> HIDE DEF h
  <2> QED BY <1>1, SumsUnique
<1> QED
  BY <1>2, <1>3

(* Such a function exists for every finite set.                            *)
LEMMA SumsExist ==
  ASSUME NEW f, NEW S, IsFiniteSet(S)
  PROVE  \E g : SumsUpTo(g, f, S)
<1> DEFINE Bad == {s \in SUBSET S : ~ \E g : SumsUpTo(g, f, s)}
<1> SUFFICES ASSUME Bad # {} PROVE FALSE
  OBVIOUS
<1>1. PICK m \in Bad : \A t \in Bad : ~(t \subseteq m /\ t # m)
  <2>1. Bad \in SUBSET (SUBSET S)
    OBVIOUS
  <2> HIDE DEF Bad
  <2> QED BY <2>1, FiniteSetMinimal
<1>2. \A t \in SUBSET m : t # m => \E g : SumsUpTo(g, f, t)
  BY <1>1
<1>3. \A t \in SUBSET m : IsFiniteSet(t)
  BY FS_Subset
<1> DEFINE h == [s \in SUBSET m |->
                   IF s = {} THEN 0
                   ELSE f[Pick(s)] + SumFunctionOnSet(f, s \ {Pick(s)})]
<1>4. ASSUME NEW s \in SUBSET m, s # m
      PROVE  SumFunctionOnSet(f, s) = h[s]
  <2>1. PICK g : SumsUpTo(g, f, s)
    BY <1>2, <1>4
  <2>2. SumFunctionOnSet(f, s) = g[s]
    BY <2>1, <1>3, SumIsValue
  <2>3. CASE s = {}
    BY <2>1, <2>2, <2>3 DEF SumsUpTo
  <2>4. CASE s # {}
    <3> DEFINE r == s \ {Pick(s)}
    <3>1. Pick(s) \in s
      BY <2>4 DEF Pick
    <3>2. r \in SUBSET m /\ r # m /\ r \in SUBSET s
      BY <3>1
    <3>3. PICK k : SumsUpTo(k, f, r)
      BY <1>2, <3>2
    <3>4. k[r] = g[r]
      <4>1. IsFiniteSet(r) /\ r \in SUBSET r /\ r \subseteq s
        BY <3>2, <1>3
      <4> HIDE DEF r
      <4> QED BY <2>1, <3>3, <4>1, SumsUnique
    <3>5. SumFunctionOnSet(f, r) = k[r]
      BY <3>2, <3>3, <1>3, SumIsValue
    <3>6. g[s] = f[Pick(s)] + g[r]
      BY <2>1, <2>4 DEF SumsUpTo
    <3> QED
      BY <2>2, <2>4, <3>4, <3>5, <3>6
  <2> QED
    BY <2>3, <2>4
<1>5. ASSUME NEW s \in SUBSET m, s # {}
      PROVE  SumFunctionOnSet(f, s \ {Pick(s)}) = h[s \ {Pick(s)}]
  <2>1. Pick(s) \in s
    BY <1>5 DEF Pick
  <2>2. s \ {Pick(s)} \in SUBSET m /\ s \ {Pick(s)} # m
    BY <2>1
  <2> QED
    BY <2>2, <1>4
<1>6. h = [s \in SUBSET m |-> IF s = {} THEN 0 ELSE f[Pick(s)] + h[s \ {Pick(s)}]]
  BY <1>5, Zenon
<1>7. SumsUpTo(h, f, m)
  BY <1>6 DEF SumsUpTo
<1> QED
  BY <1>1, <1>7

(***************************************************************************)
(* The facts used outside this module.                                     *)
(***************************************************************************)

LEMMA SumEmpty ==
  ASSUME NEW f
  PROVE  SumFunctionOnSet(f, {}) = 0
<1>1. PICK g : SumsUpTo(g, f, {})
  BY FS_EmptySet, SumsExist
<1>2. SumFunctionOnSet(f, {}) = g[{}]
  BY <1>1, FS_EmptySet, SumIsValue
<1>3. g[{}] = 0
  BY <1>1 DEF SumsUpTo
<1> QED
  BY <1>2, <1>3

(* One unfolding of a sum: the picked element, and the rest.               *)
LEMMA SumUnfold ==
  ASSUME NEW f, NEW S, IsFiniteSet(S), S # {}
  PROVE  SumFunctionOnSet(f, S) = f[Pick(S)] + SumFunctionOnSet(f, S \ {Pick(S)})
<1> DEFINE r == S \ {Pick(S)}
<1>1. PICK g : SumsUpTo(g, f, S)
  BY SumsExist
<1>2. IsFiniteSet(r) /\ r \in SUBSET S
  BY FS_Subset
<1>3. PICK k : SumsUpTo(k, f, r)
  BY <1>2, SumsExist
<1>4. k[r] = g[r]
  BY <1>1, <1>2, <1>3, SumsUnique
<1>5. SumFunctionOnSet(f, r) = k[r] /\ SumFunctionOnSet(f, S) = g[S]
  BY <1>1, <1>2, <1>3, SumIsValue
<1>6. g[S] = f[Pick(S)] + g[r]
  BY <1>1 DEF SumsUpTo
<1> QED
  BY <1>4, <1>5, <1>6

(* The sum of integers is an integer, of natural numbers a natural number. *)
LEMMA SumType ==
  ASSUME NEW f, NEW S, IsFiniteSet(S), NEW V \in {Int, Nat}, \A x \in S : f[x] \in V
  PROVE  SumFunctionOnSet(f, S) \in V
<1> DEFINE Bad == {s \in SUBSET S : SumFunctionOnSet(f, s) \notin V}
<1> SUFFICES ASSUME Bad # {} PROVE FALSE
  OBVIOUS
<1>1. PICK m \in Bad : \A t \in Bad : ~(t \subseteq m /\ t # m)
  <2>1. Bad \in SUBSET (SUBSET S)
    OBVIOUS
  <2> HIDE DEF Bad
  <2> QED BY <2>1, FiniteSetMinimal
<1>2. CASE m = {}
  BY <1>1, <1>2, SumEmpty
<1>3. CASE m # {}
  <2>1. Pick(m) \in m
    BY <1>3 DEF Pick
  <2>2. SumFunctionOnSet(f, m \ {Pick(m)}) \in V
    BY <1>1, <2>1
  <2>3. SumFunctionOnSet(f, m) = f[Pick(m)] + SumFunctionOnSet(f, m \ {Pick(m)})
    BY <1>3, FS_Subset, SumUnfold
  <2> QED
    BY <1>1, <2>1, <2>2, <2>3
<1> QED
  BY <1>2, <1>3

(* Any element may be split off, not only the one the fold chooses.        *)
LEMMA SumSplit ==
  ASSUME NEW f, NEW S, IsFiniteSet(S), \A x \in S : f[x] \in Int, NEW x \in S
  PROVE  SumFunctionOnSet(f, S) = f[x] + SumFunctionOnSet(f, S \ {x})
<1> DEFINE Ok(s) == \A y \in s : SumFunctionOnSet(f, s) = f[y] + SumFunctionOnSet(f, s \ {y})
           Bad == {s \in SUBSET S : ~Ok(s)}
<1> SUFFICES ASSUME Bad # {} PROVE FALSE
  <2>1. S \in SUBSET S
    OBVIOUS
  <2> QED BY <2>1
<1>1. PICK m \in Bad : \A t \in Bad : ~(t \subseteq m /\ t # m)
  <2>1. Bad \in SUBSET (SUBSET S)
    OBVIOUS
  <2> HIDE DEF Bad
  <2> QED BY <2>1, FiniteSetMinimal
<1>2. PICK y \in m : SumFunctionOnSet(f, m) # f[y] + SumFunctionOnSet(f, m \ {y})
  BY <1>1
<1> DEFINE c == Pick(m)
<1>3. c \in m
  BY <1>2 DEF Pick
<1>4. SumFunctionOnSet(f, m) = f[c] + SumFunctionOnSet(f, m \ {c})
  BY <1>2, FS_Subset, SumUnfold
<1>5. c # y
  BY <1>2, <1>4
<1>6. Ok(m \ {c}) /\ Ok(m \ {y})
  BY <1>1, <1>2, <1>3
<1> HIDE DEF c
<1>7. SumFunctionOnSet(f, m \ {c}) = f[y] + SumFunctionOnSet(f, (m \ {c}) \ {y})
  BY <1>2, <1>5, <1>6
<1>8. SumFunctionOnSet(f, m \ {y}) = f[c] + SumFunctionOnSet(f, (m \ {y}) \ {c})
  BY <1>3, <1>5, <1>6
<1>9. (m \ {c}) \ {y} = (m \ {y}) \ {c}
  OBVIOUS
<1>10. SumFunctionOnSet(f, (m \ {c}) \ {y}) \in Int
  BY FS_Subset, SumType
<1>11. f[c] \in Int /\ f[y] \in Int
  BY <1>2, <1>3
<1>12. ASSUME NEW q \in Int
       PROVE  f[c] + (f[y] + q) = f[y] + (f[c] + q)
  BY <1>11
<1> QED
  BY <1>2, <1>4, <1>7, <1>8, <1>9, <1>10, <1>12

(* The sum depends only on the values in the set.                          *)
LEMMA SumEqual ==
  ASSUME NEW f, NEW g, NEW S, IsFiniteSet(S), \A x \in S : f[x] = g[x]
  PROVE  SumFunctionOnSet(f, S) = SumFunctionOnSet(g, S)
<1> DEFINE Bad == {s \in SUBSET S : SumFunctionOnSet(f, s) # SumFunctionOnSet(g, s)}
<1> SUFFICES ASSUME Bad # {} PROVE FALSE
  OBVIOUS
<1>1. PICK m \in Bad : \A t \in Bad : ~(t \subseteq m /\ t # m)
  <2>1. Bad \in SUBSET (SUBSET S)
    OBVIOUS
  <2> HIDE DEF Bad
  <2> QED BY <2>1, FiniteSetMinimal
<1>2. CASE m = {}
  BY <1>1, <1>2, SumEmpty
<1>3. CASE m # {}
  <2>1. Pick(m) \in m
    BY <1>3 DEF Pick
  <2>2. SumFunctionOnSet(f, m \ {Pick(m)}) = SumFunctionOnSet(g, m \ {Pick(m)})
    BY <1>1, <2>1
  <2>3. /\ SumFunctionOnSet(f, m) = f[Pick(m)] + SumFunctionOnSet(f, m \ {Pick(m)})
        /\ SumFunctionOnSet(g, m) = g[Pick(m)] + SumFunctionOnSet(g, m \ {Pick(m)})
    BY <1>3, FS_Subset, SumUnfold
  <2> QED
    BY <1>1, <2>1, <2>2, <2>3
<1> QED
  BY <1>2, <1>3

(* Changing f at one argument changes the sum by the difference.           *)
LEMMA SumUpdate ==
  ASSUME NEW f, NEW g, NEW S, IsFiniteSet(S), NEW x \in S,
         \A y \in S : f[y] \in Int /\ g[y] \in Int,
         \A y \in S \ {x} : g[y] = f[y]
  PROVE  SumFunctionOnSet(g, S) = SumFunctionOnSet(f, S) + g[x] - f[x]
<1>1. IsFiniteSet(S \ {x})
  BY FS_Subset
<1>2. SumFunctionOnSet(f, S) = f[x] + SumFunctionOnSet(f, S \ {x})
  BY SumSplit
<1>3. SumFunctionOnSet(g, S) = g[x] + SumFunctionOnSet(g, S \ {x})
  BY SumSplit
<1>4. SumFunctionOnSet(f, S \ {x}) = SumFunctionOnSet(g, S \ {x})
  BY <1>1, SumEqual
<1>5. SumFunctionOnSet(f, S \ {x}) \in Int
  BY <1>1, SumType
<1> QED
  BY <1>2, <1>3, <1>4, <1>5

(* A sum of natural numbers is at least each of them.                      *)
LEMMA SumAtLeast ==
  ASSUME NEW f, NEW S, IsFiniteSet(S), \A y \in S : f[y] \in Nat, NEW x \in S
  PROVE  SumFunctionOnSet(f, S) >= f[x]
<1>1. SumFunctionOnSet(f, S) = f[x] + SumFunctionOnSet(f, S \ {x})
  BY SumSplit
<1>2. SumFunctionOnSet(f, S \ {x}) \in Nat
  BY FS_Subset, SumType
<1> QED
  BY <1>1, <1>2

(* A sum whose set gains an element, the other summands unchanged.         *)
LEMMA SumGains ==
  ASSUME NEW f, NEW g, NEW T, IsFiniteSet(T), NEW x \in T,
         \A y \in T : g[y] \in Int, \A y \in T \ {x} : f[y] = g[y]
  PROVE  SumFunctionOnSet(g, T) = SumFunctionOnSet(f, T \ {x}) + g[x]
<1> DEFINE S == T \ {x}
<1>1. SumFunctionOnSet(g, T) = g[x] + SumFunctionOnSet(g, S)
  BY SumSplit
<1>2. /\ IsFiniteSet(S) /\ \A y \in S : g[y] \in Int
      /\ \A y \in S : f[y] = g[y]
  BY FS_Subset
<1> HIDE DEF S
<1>3. SumFunctionOnSet(f, S) = SumFunctionOnSet(g, S) /\ SumFunctionOnSet(g, S) \in Int
  BY <1>2, SumEqual, SumType
<1> QED
  BY <1>1, <1>3 DEF S

(* A sum of zeros is zero.                                                 *)
LEMMA SumZero ==
  ASSUME NEW f, NEW S, IsFiniteSet(S), \A y \in S : f[y] = 0
  PROVE  SumFunctionOnSet(f, S) = 0
<1> DEFINE Bad == {s \in SUBSET S : SumFunctionOnSet(f, s) # 0}
<1> SUFFICES ASSUME Bad # {} PROVE FALSE
  OBVIOUS
<1>1. PICK m \in Bad : \A t \in Bad : ~(t \subseteq m /\ t # m)
  <2>1. Bad \in SUBSET (SUBSET S)
    OBVIOUS
  <2> HIDE DEF Bad
  <2> QED BY <2>1, FiniteSetMinimal
<1>2. CASE m = {}
  BY <1>1, <1>2, SumEmpty
<1>3. CASE m # {}
  <2>1. Pick(m) \in m
    BY <1>3 DEF Pick
  <2>2. SumFunctionOnSet(f, m \ {Pick(m)}) = 0
    BY <1>1, <2>1
  <2>3. SumFunctionOnSet(f, m) = f[Pick(m)] + SumFunctionOnSet(f, m \ {Pick(m)})
    BY <1>3, FS_Subset, SumUnfold
  <2> QED
    BY <1>1, <2>1, <2>2, <2>3
<1> QED
  BY <1>2, <1>3

(* The sum of a function that is c on T, and zero elsewhere.               *)
LEMMA SumOfConstant ==
  ASSUME NEW f, NEW S, IsFiniteSet(S), NEW T \in SUBSET S, NEW c \in Nat,
         \A x \in S : f[x] = IF x \in T THEN c ELSE 0
  PROVE  SumFunctionOnSet(f, S) = Cardinality(T) * c
<1> DEFINE Ok(s) == SumFunctionOnSet(f, s) = Cardinality(T \cap s) * c
           Bad == {s \in SUBSET S : ~Ok(s)}
<1>1. SUFFICES ASSUME Bad # {} PROVE FALSE
  <2>1. Ok(S)
    BY <1>1
  <2>2. T \cap S = T
    OBVIOUS
  <2> QED BY <2>1, <2>2
<1>2. PICK m \in Bad : \A t \in Bad : ~(t \subseteq m /\ t # m)
  <2>1. Bad \in SUBSET (SUBSET S)
    OBVIOUS
  <2> HIDE DEF Bad
  <2> QED BY <1>1, <2>1, FiniteSetMinimal
<1>3. CASE m = {}
  <2>1. Cardinality(T \cap m) = 0
    BY <1>3, FS_EmptySet
  <2>2. SumFunctionOnSet(f, m) = 0
    BY <1>3, SumEmpty
  <2> QED BY <1>2, <2>1, <2>2
<1>4. CASE m # {}
  <2> DEFINE p == Pick(m)
             rest == m \ {p}
  <2>1. p \in m
    BY <1>4 DEF Pick
  <2>2. rest \in SUBSET S /\ rest \subseteq m /\ rest # m
    BY <1>2, <2>1
  <2>3. Ok(rest)
    BY <1>2, <2>2
  <2>4. SumFunctionOnSet(f, m) = f[p] + SumFunctionOnSet(f, rest)
    BY <1>2, <1>4, FS_Subset, SumUnfold
  <2>5. IsFiniteSet(T \cap m) /\ IsFiniteSet(T \cap rest)
    BY <1>2, <2>2, FS_Subset
  <2>6. Cardinality(T \cap m) \in Nat /\ Cardinality(T \cap rest) \in Nat
    BY <2>5, FS_CardinalityType
  <2>7. Cardinality(T \cap m) =
          IF p \in T THEN Cardinality(T \cap rest) + 1 ELSE Cardinality(T \cap rest)
    <3>1. (T \cap m) \ {p} = T \cap rest
      OBVIOUS
    <3>2. p \in T \cap m <=> p \in T
      BY <2>1
    <3>3. Cardinality(T \cap rest) =
            IF p \in T \cap m THEN Cardinality(T \cap m) - 1 ELSE Cardinality(T \cap m)
      BY <2>5, <3>1, FS_RemoveElement
    <3> HIDE DEF p, rest
    <3> QED BY <2>6, <3>2, <3>3
  <2>8. f[p] = IF p \in T THEN c ELSE 0
    BY <1>2, <2>1
  <2> HIDE DEF p, rest
  <2>9. Ok(m)
    <3>1. CASE p \in T
      BY <2>3, <2>4, <2>6, <2>7, <2>8, <3>1
    <3>2. CASE p \notin T
      BY <2>3, <2>4, <2>6, <2>7, <2>8, <3>2
    <3> QED BY <3>1, <3>2
  <2> QED
    BY <1>2, <2>9
<1> QED
  BY <1>3, <1>4

(* The sum of sums.                                                        *)
LEMMA SumPlus ==
  ASSUME NEW f, NEW g, NEW h, NEW S, IsFiniteSet(S),
         \A x \in S : f[x] \in Int /\ g[x] \in Int /\ h[x] = f[x] + g[x]
  PROVE  SumFunctionOnSet(h, S) = SumFunctionOnSet(f, S) + SumFunctionOnSet(g, S)
<1> DEFINE Ok(s) == SumFunctionOnSet(h, s) = SumFunctionOnSet(f, s) + SumFunctionOnSet(g, s)
           Bad == {s \in SUBSET S : ~Ok(s)}
<1>1. SUFFICES ASSUME Bad # {} PROVE FALSE
  <2>1. Ok(S)
    BY <1>1
  <2> QED BY <2>1
<1>2. PICK m \in Bad : \A t \in Bad : ~(t \subseteq m /\ t # m)
  <2>1. Bad \in SUBSET (SUBSET S)
    OBVIOUS
  <2> HIDE DEF Bad
  <2> QED BY <1>1, <2>1, FiniteSetMinimal
<1>3. CASE m = {}
  BY <1>2, <1>3, SumEmpty
<1>4. CASE m # {}
  <2> DEFINE p == Pick(m)
             rest == m \ {p}
  <2>1. p \in m
    BY <1>4 DEF Pick
  <2>2. rest \in SUBSET S /\ rest \subseteq m /\ rest # m
    BY <1>2, <2>1
  <2>3. SumFunctionOnSet(h, rest) = SumFunctionOnSet(f, rest) + SumFunctionOnSet(g, rest)
    BY <1>2, <2>2
  <2>4. /\ SumFunctionOnSet(f, m) = f[p] + SumFunctionOnSet(f, rest)
        /\ SumFunctionOnSet(g, m) = g[p] + SumFunctionOnSet(g, rest)
        /\ SumFunctionOnSet(h, m) = h[p] + SumFunctionOnSet(h, rest)
    BY <1>2, <1>4, FS_Subset, SumUnfold
  <2>5. SumFunctionOnSet(f, rest) \in Int /\ SumFunctionOnSet(g, rest) \in Int
    <3>1. IsFiniteSet(rest) /\ \A x \in rest : f[x] \in Int /\ g[x] \in Int
      BY <2>2, FS_Subset
    <3> QED BY <3>1, SumType
  <2>6. f[p] \in Int /\ g[p] \in Int /\ h[p] = f[p] + g[p]
    BY <1>2, <2>1
  <2> HIDE DEF p, rest
  <2>7. Ok(m)
    BY <2>3, <2>4, <2>5, <2>6
  <2> QED
    BY <1>2, <2>7
<1> QED
  BY <1>3, <1>4

(* Scaled values that are bounded one by one have bounded sums.            *)
LEMMA SumBounded ==
  ASSUME NEW f, NEW g, NEW S, IsFiniteSet(S), NEW a \in Nat, NEW b \in Nat,
         \A x \in S : f[x] \in Nat /\ g[x] \in Nat /\ f[x] * a <= g[x] * b
  PROVE  SumFunctionOnSet(f, S) * a <= SumFunctionOnSet(g, S) * b
<1> DEFINE Ok(s) == SumFunctionOnSet(f, s) * a <= SumFunctionOnSet(g, s) * b
           Bad == {s \in SUBSET S : ~Ok(s)}
<1>1. SUFFICES ASSUME Bad # {} PROVE FALSE
  <2>1. Ok(S)
    BY <1>1
  <2> QED BY <2>1
<1>2. PICK m \in Bad : \A t \in Bad : ~(t \subseteq m /\ t # m)
  <2>1. Bad \in SUBSET (SUBSET S)
    OBVIOUS
  <2> HIDE DEF Bad
  <2> QED BY <1>1, <2>1, FiniteSetMinimal
<1>3. CASE m = {}
  BY <1>2, <1>3, SumEmpty
<1>4. CASE m # {}
  <2> DEFINE p == Pick(m)
             rest == m \ {p}
             F == SumFunctionOnSet(f, rest)
             G == SumFunctionOnSet(g, rest)
  <2>1. p \in m
    BY <1>4 DEF Pick
  <2>2. rest \in SUBSET S /\ rest \subseteq m /\ rest # m
    BY <1>2, <2>1
  <2>3. F * a <= G * b
    BY <1>2, <2>2
  <2>4. /\ SumFunctionOnSet(f, m) = f[p] + F
        /\ SumFunctionOnSet(g, m) = g[p] + G
    BY <1>2, <1>4, FS_Subset, SumUnfold
  <2>5. F \in Nat /\ G \in Nat
    <3>1. IsFiniteSet(rest) /\ \A x \in rest : f[x] \in Nat /\ g[x] \in Nat
      BY <2>2, FS_Subset
    <3> QED BY <3>1, SumType
  <2>6. f[p] \in Nat /\ g[p] \in Nat /\ f[p] * a <= g[p] * b
    BY <1>2, <2>1
  <2> HIDE DEF p, rest, F, G
  <2>7. (f[p] + F) * a = f[p] * a + F * a /\ (g[p] + G) * b = g[p] * b + G * b
    BY <2>5, <2>6
  <2>8. f[p] * a \in Nat /\ F * a \in Nat /\ g[p] * b \in Nat /\ G * b \in Nat
    BY <2>5, <2>6
  <2>9. Ok(m)
    BY <2>3, <2>4, <2>6, <2>7, <2>8
  <2> QED
    BY <1>2, <2>9
<1> QED
  BY <1>3, <1>4

-----------------------------------------------------------------------------
(* Sums over 1 .. n.                                                       *)

(* A non-empty set of numbers up to n has a least element.                 *)
LEMMA LeastElement ==
  ASSUME NEW n \in Nat, NEW B \in SUBSET (0 .. n), B # {}
  PROVE  \E m \in B : \A k \in B : m <= k
<1> DEFINE S == 0 .. n
           F == {0 .. k : k \in B}
<1>1. PICK s \in F : \A t \in F : ~(t \subseteq s /\ t # s)
  <2>1. F \in SUBSET (SUBSET S) /\ F # {}
    <3>1. \A k \in B : k \in 0 .. n /\ 0 .. k \subseteq 0 .. n
      OBVIOUS
    <3> QED BY <3>1
  <2>2. IsFiniteSet(S)
    BY FS_Interval
  <2> HIDE DEF F, S
  <2> QED BY <2>1, <2>2, FiniteSetMinimal
<1>2. PICK m \in B : s = 0 .. m
  BY <1>1
<1>3. ASSUME NEW k \in B, k < m  PROVE FALSE
  <2>1. 0 .. k \in F
    OBVIOUS
  <2>2. 0 .. k \subseteq 0 .. m /\ m \in 0 .. m /\ m \notin 0 .. k
    BY <1>3
  <2> HIDE DEF F
  <2> QED BY <1>1, <1>2, <2>1, <2>2
<1> QED
  BY <1>3

(* A sum over 1 .. n is of the type of its summands.                       *)
LEMMA IntervalSumType ==
  ASSUME NEW f, NEW n \in Nat, NEW V \in {Int, Nat}, \A i \in 1 .. n : f[i] \in V
  PROVE  SumFunctionOnSet(f, 1 .. n) \in V
<1>1. IsFiniteSet(1 .. n)
  BY FS_Interval
<1> QED
  BY <1>1, SumType

(* The last summand split off.                                             *)
LEMMA SumLast ==
  ASSUME NEW f, NEW n \in Nat, \A i \in 1 .. (n + 1) : f[i] \in Int
  PROVE  SumFunctionOnSet(f, 1 .. (n + 1)) = SumFunctionOnSet(f, 1 .. n) + f[n + 1]
<1>1. IsFiniteSet(1 .. (n + 1)) /\ IsFiniteSet(1 .. n)
  BY FS_Interval
<1>2. n + 1 \in 1 .. (n + 1) /\ (1 .. (n + 1)) \ {n + 1} = 1 .. n
  OBVIOUS
<1>3. SumFunctionOnSet(f, 1 .. (n + 1)) = f[n + 1] + SumFunctionOnSet(f, 1 .. n)
  BY <1>1, <1>2, SumSplit
<1>4. SumFunctionOnSet(f, 1 .. n) \in Int /\ f[n + 1] \in Int
  BY <1>1, SumType
<1> QED
  BY <1>3, <1>4

(* The first n values of g are those of f after the first k.               *)
Shifted(g, f, k, n) == \A i \in 1 .. n : g[i] = f[i + k]

(* What is left of a sum without its first k summands.                     *)
LEMMA SumShift ==
  ASSUME NEW f, NEW g, NEW k \in Nat, NEW n \in Nat, NEW t \in Nat, t = k + n,
         \A i \in 1 .. t : f[i] \in Int,
         Shifted(g, f, k, n)
  PROVE  SumFunctionOnSet(f, 1 .. t) =
           SumFunctionOnSet(f, 1 .. k) + SumFunctionOnSet(g, 1 .. n)
<1> USE DEF Shifted
<1> DEFINE Ok(i) == SumFunctionOnSet(f, 1 .. (k + i)) =
                      SumFunctionOnSet(f, 1 .. k) + SumFunctionOnSet(g, 1 .. i)
           Bad == {i \in 0 .. n : ~Ok(i)}
<1>0. ASSUME NEW i \in 0 .. n  PROVE SumFunctionOnSet(f, 1 .. (k + i)) \in Int
  <2>1. k + i \in Nat /\ \A h \in 1 .. (k + i) : f[h] \in Int
    OBVIOUS
  <2> QED BY <2>1, IntervalSumType
<1>1. SUFFICES ASSUME Bad # {} PROVE FALSE
  <2>1. n \in 0 .. n
    OBVIOUS
  <2> QED BY <2>1, <1>1
<1>2. PICK m \in Bad : \A i \in Bad : m <= i
  <2>1. Bad \in SUBSET (0 .. n)
    OBVIOUS
  <2> HIDE DEF Bad
  <2> QED BY <1>1, <2>1, LeastElement
<1>3. m # 0
  <2>1. Ok(0)
    <3>1. SumFunctionOnSet(g, 1 .. 0) = 0
      BY SumEmpty
    <3>2. 0 \in 0 .. n /\ k + 0 = k
      OBVIOUS
    <3>3. SumFunctionOnSet(f, 1 .. k) \in Int
      BY <1>0, <3>2
    <3> QED BY <3>1, <3>2, <3>3
  <2> QED BY <1>2, <2>1
<1> DEFINE j == m - 1
<1>4. j \in 0 .. n /\ m = j + 1 /\ Ok(j)
  BY <1>2, <1>3
<1>5. SumFunctionOnSet(f, 1 .. (k + m)) = SumFunctionOnSet(f, 1 .. (k + j)) + f[k + m]
  <2>1. k + j \in Nat /\ (k + j) + 1 = k + m /\ \A i \in 1 .. ((k + j) + 1) : f[i] \in Int
    BY <1>2, <1>4
  <2> HIDE DEF j
  <2> QED BY <2>1, SumLast
<1>6. SumFunctionOnSet(g, 1 .. m) = SumFunctionOnSet(g, 1 .. j) + g[m]
  <2>1. j \in Nat /\ j + 1 = m /\ \A i \in 1 .. (j + 1) : g[i] \in Int
    BY <1>2, <1>4
  <2> HIDE DEF j
  <2> QED BY <2>1, SumLast
<1>7. g[m] = f[k + m] /\ f[k + m] \in Int
  BY <1>2, <1>3
<1>8. SumFunctionOnSet(g, 1 .. j) \in Int /\ SumFunctionOnSet(f, 1 .. k) \in Int
  <2>1. j \in Nat /\ \A i \in 1 .. j : g[i] \in Int
    <3>1. \A i \in 1 .. j : i \in 1 .. n /\ i + k \in 1 .. (k + n)
      BY <1>4
    <3> QED BY <3>1, <1>4
  <2>2. \A i \in 1 .. k : f[i] \in Int
    OBVIOUS
  <2> HIDE DEF j
  <2> QED BY <2>1, <2>2, IntervalSumType
<1>9. ~Ok(m)
  BY <1>2
<1> HIDE DEF j
<1> QED
  BY <1>4, <1>5, <1>6, <1>7, <1>8, <1>9

(* The sum of the first k of n natural numbers is at most the whole.       *)
LEMMA SumPrefix ==
  ASSUME NEW f, NEW n \in Nat, NEW k \in 0 .. n, \A i \in 1 .. n : f[i] \in Nat
  PROVE  SumFunctionOnSet(f, 1 .. k) <= SumFunctionOnSet(f, 1 .. n)
<1>1. PICK m \in Nat : k + m = n
  <2>1. n - k \in Nat /\ k + (n - k) = n
    OBVIOUS
  <2> QED BY <2>1
<1>2. PICK g : \A i \in 1 .. m : g[i] = f[i + k]
  <2>1. \A i \in 1 .. m : [j \in 1 .. m |-> f[j + k]][i] = f[i + k]
    OBVIOUS
  <2> QED BY <2>1
<1>3. k \in Nat /\ (\A i \in 1 .. k : f[i] \in Nat) /\ \A i \in 1 .. n : f[i] \in Int
  BY <1>1
<1>4. \A i \in 1 .. m : g[i] \in Nat
  BY <1>1, <1>2
<1>5. SumFunctionOnSet(f, 1 .. n) =
        SumFunctionOnSet(f, 1 .. k) + SumFunctionOnSet(g, 1 .. m)
  <2>1. Shifted(g, f, k, m)
    BY <1>2 DEF Shifted
  <2> QED BY <1>1, <1>3, <2>1, SumShift
<1>6. SumFunctionOnSet(f, 1 .. k) \in Nat /\ SumFunctionOnSet(g, 1 .. m) \in Nat
  BY <1>3, <1>4, IntervalSumType
<1> QED
  BY <1>1, <1>5, <1>6

-----------------------------------------------------------------------------
(* Division.                                                               *)

(* A quotient, by what defines it.                                         *)
LEMMA Quotient ==
  ASSUME NEW a \in Nat, NEW b \in Nat \ {0}
  PROVE  /\ a \div b \in Nat
         /\ (a \div b) * b <= a
         /\ a < (a \div b) * b + b
OBVIOUS

-----------------------------------------------------------------------------
(* Recursion on numbers: what a recursive function of a model is.          *)

(* Induction over 0 .. n, with a set for the property.                     *)
LEMMA UpToInduction ==
  ASSUME NEW n \in Nat, NEW P, 0 \in P, \A i \in 1 .. n : i - 1 \in P => i \in P
  PROVE  \A i \in 0 .. n : i \in P
<1> DEFINE Bad == {i \in 0 .. n : i \notin P}
<1>1. SUFFICES ASSUME Bad # {} PROVE FALSE
  BY <1>1
<1>2. PICK m \in Bad : \A i \in Bad : m <= i
  <2>1. Bad \in SUBSET (0 .. n)
    OBVIOUS
  <2> HIDE DEF Bad
  <2> QED BY <1>1, <2>1, LeastElement
<1>3. m \in 1 .. n /\ m - 1 \in 0 .. n /\ m - 1 \notin Bad
  BY <1>2
<1> QED
  BY <1>2, <1>3

(* What next gives, turn after turn, from a start.                         *)
Follows(f, start, next, n) ==
  f[0] = start /\ \A i \in 1 .. n : f[i] = next[<<i, f[i - 1]>>]

Nexts(n, S) == [(1 .. n) \X S -> S]

LEMMA RecursionExists ==
  ASSUME NEW n \in Nat, NEW S, NEW start \in S, NEW next \in Nexts(n, S)
  PROVE  \E f \in [0 .. n -> S] : Follows(f, start, next, n)
<1> USE DEF Nexts
<1> DEFINE Run(f, k) == f[0] = start /\ \A i \in 1 .. k : f[i] = next[<<i, f[i - 1]>>]
           P == {k \in 0 .. n : \E f \in [0 .. n -> S] : Run(f, k)}
<1>1. 0 \in P
  <2> DEFINE f == [i \in 0 .. n |-> start]
  <2>1. f \in [0 .. n -> S] /\ Run(f, 0) /\ 0 \in 0 .. n
    OBVIOUS
  <2> HIDE DEF f, Run
  <2> QED BY <2>1
<1>2. ASSUME NEW k \in 1 .. n, k - 1 \in P  PROVE k \in P
  <2>1. PICK f \in [0 .. n -> S] : Run(f, k - 1)
    BY <1>2
  <2> DEFINE new == next[<<k, f[k - 1]>>]
             g   == [i \in 0 .. n |-> IF i = k THEN new ELSE f[i]]
  <2>2. k - 1 \in 0 .. n /\ k \in 0 .. n /\ k # 0
    OBVIOUS
  <2>3. new \in S
    BY <2>2
  <2> HIDE DEF new
  <2>4. g \in [0 .. n -> S]
    BY <2>3
  <2>5. g[0] = start
    BY <2>1, <2>2
  <2>6. ASSUME NEW i \in 1 .. k  PROVE g[i] = next[<<i, g[i - 1]>>]
    <3>1. i - 1 \in 0 .. n /\ i \in 0 .. n /\ i - 1 # k
      OBVIOUS
    <3>2. CASE i = k
      <4>1. g[i] = new /\ g[i - 1] = f[k - 1]
        BY <3>1, <3>2
      <4> QED BY <3>2, <4>1 DEF new
    <3>3. CASE i # k
      <4>1. i \in 1 .. k - 1 /\ g[i] = f[i] /\ g[i - 1] = f[i - 1]
        BY <3>1, <3>3
      <4> HIDE DEF g
      <4> QED BY <2>1, <4>1
    <3> QED BY <3>2, <3>3
  <2> HIDE DEF g
  <2>7. Run(g, k)
    BY <2>5, <2>6
  <2> HIDE DEF Run
  <2> QED BY <2>2, <2>4, <2>7
<1> HIDE DEF P
<1>3. n \in P
  <2>1. \A i \in 0 .. n : i \in P
    BY <1>1, <1>2, UpToInduction
  <2> QED BY <2>1
<1> QED
  BY <1>3 DEF P, Follows
=============================================================================
