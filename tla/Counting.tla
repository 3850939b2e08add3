------------------------------ MODULE Counting ------------------------------
(***************************************************************************)
(* Induction, for the proofs: over natural numbers, over the positions of  *)
(* a sequence, over the subsets of a finite set, and over the sums the     *)
(* community modules define by a fold.  The induction theorems of the      *)
(* library take an operator, which the provers cannot instantiate; that    *)
(* the order of the naturals is well-founded says the same of a set:       *)
(* whatever is false of some natural number is false of a least one.       *)
(***************************************************************************)
EXTENDS Integers, Sequences, FiniteSetsExt, FiniteSetTheorems, SequenceTheorems,
        WellFoundedInduction, TLAPS

NatLess == {ss \in Nat \X Nat : ss[1] < ss[2]}

LEMMA LeastNat ==
    ASSUME NEW T, T \subseteq Nat, T # {}
    PROVE  \E m \in T : \A i \in T : m <= i
  <1>1. IsWellFoundedOn(NatLess, Nat)
    BY NatLessThanWellFounded DEF NatLess, OpToRel
  <1>2. PICK m \in T : \A i \in T : ~(<<i, m>> \in NatLess)
    BY <1>1, WFMin
  <1>3. \A i \in T : i < m => <<i, m>> \in NatLess
    BY DEF NatLess
  <1>4. \A i \in T : ~(i < m)
    BY <1>2, <1>3
  <1>5. m \in Int /\ T \subseteq Int
    OBVIOUS
  <1>. QED  BY <1>4, <1>5

\* What holds of 0, and of a number when it holds of the one before, holds of every number.
LEMMA AllNumbers ==
    ASSUME NEW Good, 0 \in Good, \A i \in Nat \ {0} : i - 1 \in Good => i \in Good
    PROVE  \A i \in Nat : i \in Good
  <1>. DEFINE T == {i \in Nat : i \notin Good}
  <1>1. SUFFICES ASSUME T # {} PROVE FALSE
    OBVIOUS
  <1>2. PICK m \in T : \A i \in T : m <= i
    BY <1>1, LeastNat
  <1>3. m \in Nat \ {0} /\ m \notin Good
    OBVIOUS
  <1>4. m - 1 \in Nat /\ ~(m <= m - 1)
    BY <1>3
  <1>5. m - 1 \in Good
    BY <1>2, <1>4
  <1>. QED  BY <1>3, <1>5

LEMMA NumbersUpTo ==
    ASSUME NEW n \in Nat, NEW Good, 0 \in Good,
           \A i \in 1 .. n : i - 1 \in Good => i \in Good
    PROVE  \A i \in 0 .. n : i \in Good
  <1>. DEFINE Upto == {i \in Nat : i <= n => i \in Good}
  <1>1. 0 \in Upto
    OBVIOUS
  <1>2. ASSUME NEW i \in Nat \ {0}, i - 1 \in Upto PROVE i \in Upto
    <2>1. i <= n => i \in 1 .. n /\ i - 1 <= n
      OBVIOUS
    <2>. QED  BY <1>2, <2>1
  <1>3. \A i \in Nat : i \in Upto
    <2>. HIDE DEF Upto
    <2>. QED  BY <1>1, <1>2, AllNumbers
  <1>. QED  BY <1>3

LEMMA MinOfSome ==
    ASSUME NEW T, T \subseteq Nat, T # {}
    PROVE  Min(T) \in T /\ \A i \in T : Min(T) <= i
  <1>1. \E m \in T : \A i \in T : m <= i
    BY LeastNat
  <1>. QED  BY <1>1 DEF Min

LEMMA MaxOfSome ==
    ASSUME NEW n \in Nat, NEW T, T \subseteq 1..n, T # {}
    PROVE  Max(T) \in T /\ \A i \in T : i <= Max(T)
  <1>. DEFINE D == {k \in Nat : \E i \in T : k = n - i}
  <1>1. D \subseteq Nat
    OBVIOUS
  <1>2. \A i \in T : n - i \in D
    OBVIOUS
  <1>3. D # {}
    BY <1>2
  <1>4. PICK k \in D : \A j \in D : k <= j
    BY <1>1, <1>3, LeastNat
  <1>5. PICK m \in T : k = n - m
    OBVIOUS
  <1>6. \A i \in T : k <= n - i
    BY <1>2, <1>4
  <1>. HIDE DEF D
  <1>7. \A i \in T : m >= i
    BY <1>5, <1>6
  <1>8. \A x \in T : (\A i \in T : x >= i) => x = m
    BY <1>7
  <1>. QED  BY <1>7, <1>8 DEF Max

LEMMA MaxIs ==
    ASSUME NEW n \in Nat, NEW T, T \subseteq 1..n,
           NEW m \in T, \A i \in T : i <= m
    PROVE  Max(T) = m
  <1>1. Max(T) \in T /\ \A i \in T : i <= Max(T)
    BY MaxOfSome
  <1>2. Max(T) \in Int /\ m \in Int
    <2>1. T \subseteq Int
      OBVIOUS
    <2>. QED  BY <1>1, <2>1
  <1>3. m <= Max(T) /\ Max(T) <= m
    BY <1>1
  <1>. QED  BY <1>2, <1>3

-----------------------------------------------------------------------------
(* Subsets of a finite set. *)

LEMMA AllSubsets ==
    ASSUME NEW S, IsFiniteSet(S), NEW Good,
           \A T \in SUBSET S : (\A x \in T : T \ {x} \in Good) => T \in Good
    PROVE  \A T \in SUBSET S : T \in Good
  <1>. DEFINE Sizes == {n \in Nat : \E T \in SUBSET S : Cardinality(T) = n /\ T \notin Good}
  <1>1. SUFFICES ASSUME Sizes # {} PROVE FALSE
    <2>1. \A T \in SUBSET S : Cardinality(T) \in Nat
      BY FS_Subset, FS_CardinalityType
    <2>. QED  BY <2>1
  <1>2. PICK m \in Sizes : \A i \in Sizes : m <= i
    BY <1>1, LeastNat
  <1>3. PICK T \in SUBSET S : Cardinality(T) = m /\ T \notin Good
    BY <1>2
  <1>4. \A x \in T : T \ {x} \in Good
    <2>. SUFFICES ASSUME NEW x \in T, T \ {x} \notin Good PROVE FALSE
      OBVIOUS
    <2>1. IsFiniteSet(T)
      BY FS_Subset
    <2>2. Cardinality(T \ {x}) = m - 1 /\ Cardinality(T \ {x}) \in Nat
      BY <1>3, <2>1, FS_RemoveElement, FS_CardinalityType
    <2>3. m - 1 \in Sizes
      BY <2>2
    <2>4. m \in Nat
      OBVIOUS
    <2>. HIDE DEF Sizes
    <2>. QED  BY <1>2, <2>3, <2>4
  <1>. QED  BY <1>3, <1>4

-----------------------------------------------------------------------------
(* Sums. *)

Some(s) == CHOOSE x \in s : TRUE

IsSum(f, S, g) ==
    g = [s \in SUBSET S |-> IF s = {} THEN 0 ELSE f[Some(s)] + g[s \ {Some(s)}]]

LEMMA SomeIn == \A s : s # {} => Some(s) \in s
  BY DEF Some

LEMMA SumAt ==
    ASSUME NEW f, NEW S, NEW g, IsSum(f, S, g)
    PROVE  \A s \in SUBSET S :
               g[s] = IF s = {} THEN 0 ELSE f[Some(s)] + g[s \ {Some(s)}]
  BY DEF IsSum

LEMMA SumUnique ==
    ASSUME NEW f, NEW S, NEW U, IsFiniteSet(S), S \subseteq U, NEW g, NEW h,
           IsSum(f, S, g), IsSum(f, U, h)
    PROVE  \A s \in SUBSET S : g[s] = h[s]
  <1>. DEFINE Good == {s \in SUBSET S : g[s] = h[s]}
  <1>1. ASSUME NEW T \in SUBSET S, \A x \in T : T \ {x} \in Good PROVE T \in Good
    <2>0. T \in SUBSET U
      OBVIOUS
    <2>1. CASE T = {}
      BY <2>0, <2>1, SumAt
    <2>2. CASE T # {}
      <3>1. Some(T) \in T
        BY <2>2, SomeIn
      <3>2. g[T \ {Some(T)}] = h[T \ {Some(T)}]
        BY <3>1, <1>1
      <3>3. g[T] = f[Some(T)] + g[T \ {Some(T)}]
        BY <2>2, SumAt
      <3>4. h[T] = f[Some(T)] + h[T \ {Some(T)}]
        BY <2>0, <2>2, SumAt
      <3>. QED  BY <3>2, <3>3, <3>4
    <2>. QED  BY <2>1, <2>2
  <1>. HIDE DEF Good
  <1>2. \A T \in SUBSET S : T \in Good
    BY <1>1, AllSubsets
  <1>. QED  BY <1>2 DEF Good

LEMMA SumRestricts ==
    ASSUME NEW f, NEW S, NEW g, IsSum(f, S, g), NEW W, W \subseteq S
    PROVE  IsSum(f, W, [s \in SUBSET W |-> g[s]])
  <1>. DEFINE e == [s \in SUBSET W |-> g[s]]
  <1>1. \A s \in SUBSET W : e[s] = g[s] /\ s \in SUBSET S /\ s \ {Some(s)} \in SUBSET W
    OBVIOUS
  <1>2. \A s \in SUBSET W :
            g[s] = IF s = {} THEN 0 ELSE f[Some(s)] + g[s \ {Some(s)}]
    <2>1. \A s \in SUBSET S : g[s] = IF s = {} THEN 0 ELSE f[Some(s)] + g[s \ {Some(s)}]
      BY SumAt
    <2>. HIDE DEF e
    <2>. QED  BY <1>1, <2>1
  <1>3. e = [s \in SUBSET W |-> IF s = {} THEN 0 ELSE f[Some(s)] + e[s \ {Some(s)}]]
    BY <1>1, <1>2
  <1>. HIDE DEF e
  <1>4. IsSum(f, W, e)
    BY <1>3 DEF IsSum
  <1>. QED  BY <1>4 DEF e

LEMMA SumExtends ==
    ASSUME NEW f, NEW T, IsFiniteSet(T), NEW sub, \A x \in T : IsSum(f, T \ {x}, sub[x])
    PROVE  \E g : IsSum(f, T, g)
  <1>. DEFINE part == [s \in SUBSET T |-> sub[Some(s)][s \ {Some(s)}]]
              g == [s \in SUBSET T |-> IF s = {} THEN 0 ELSE f[Some(s)] + part[s]]
  <1>1. \A x \in T : \A s \in SUBSET (T \ {x}) : sub[x][s] = g[s]
    <2>. SUFFICES ASSUME NEW x \in T, NEW s \in SUBSET (T \ {x}) PROVE sub[x][s] = g[s]
      OBVIOUS
    <2>0. s \in SUBSET T /\ IsSum(f, T \ {x}, sub[x])
      OBVIOUS
    <2>1. CASE s = {}
      <3>1. g[s] = 0
        BY <2>0, <2>1
      <3>2. s = {} => sub[x][s] = 0
        BY <2>0, SumAt
      <3>. HIDE DEF g
      <3>. QED  BY <2>1, <3>1, <3>2
    <2>2. CASE s # {}
      <3>. DEFINE y == Some(s)
                  w == s \ {y}
                  e == [z \in SUBSET w |-> sub[y][z]]
      <3>1. y \in s /\ y \in T
        BY <2>2, SomeIn
      <3>2. sub[x][s] = f[y] + sub[x][w]
        <4>1. \A z \in SUBSET (T \ {x}) :
                 sub[x][z] = IF z = {} THEN 0 ELSE f[Some(z)] + sub[x][z \ {Some(z)}]
          BY <2>0, SumAt
        <4>. HIDE DEF g
        <4>. QED  BY <2>2, <4>1
      <3>3. g[s] = f[y] + sub[y][w]
        BY <2>0, <2>2
      <3>4. w \subseteq T \ {x} /\ w \subseteq T \ {y} /\ w \in SUBSET w
        OBVIOUS
      <3>5. IsFiniteSet(w)
        BY FS_Subset
      <3>6. IsSum(f, T \ {y}, sub[y])
        BY <3>1
      <3>. HIDE DEF g, y, w
      <3>7. IsSum(f, w, e)
        BY <3>4, <3>6, SumRestricts
      <3>8. e[w] = sub[y][w]
        BY <3>4
      <3>. HIDE DEF e
      <3>9. e[w] = sub[x][w]
        BY <2>0, <3>4, <3>5, <3>7, SumUnique
      <3>. QED  BY <3>2, <3>3, <3>8, <3>9
    <2>. QED  BY <2>1, <2>2
  <1>2. \A s \in SUBSET T : s # {} => part[s] = g[s \ {Some(s)}]
    <2>. SUFFICES ASSUME NEW s \in SUBSET T, s # {} PROVE part[s] = g[s \ {Some(s)}]
      OBVIOUS
    <2>1. Some(s) \in s
      BY SomeIn
    <2>2. s \ {Some(s)} \in SUBSET (T \ {Some(s)}) /\ Some(s) \in T
      BY <2>1
    <2>3. part[s] = sub[Some(s)][s \ {Some(s)}]
      OBVIOUS
    <2>. HIDE DEF g, part
    <2>. QED  BY <1>1, <2>2, <2>3
  <1>3. g = [s \in SUBSET T |-> IF s = {} THEN 0 ELSE f[Some(s)] + part[s]]
    OBVIOUS
  <1>. HIDE DEF g, part
  <1>4. IsSum(f, T, g)
    BY <1>2, <1>3 DEF IsSum
  <1>. QED  BY <1>4

LEMMA SumExists ==
    ASSUME NEW f, NEW S, IsFiniteSet(S)
    PROVE  \E g : IsSum(f, S, g)
  <1>. DEFINE Good == {T \in SUBSET S : \E g : IsSum(f, T, g)}
  <1>1. ASSUME NEW T \in SUBSET S, \A x \in T : T \ {x} \in Good PROVE T \in Good
    <2>. DEFINE sub == [x \in T |-> CHOOSE g : IsSum(f, T \ {x}, g)]
    <2>1. \A x \in T : IsSum(f, T \ {x}, sub[x])
      BY <1>1
    <2>2. IsFiniteSet(T)
      BY FS_Subset
    <2>. HIDE DEF sub
    <2>. QED  BY <2>1, <2>2, SumExtends
  <1>. HIDE DEF Good
  <1>2. S \in Good
    BY <1>1, AllSubsets
  <1>. QED  BY <1>2 DEF Good

LEMMA SumIs ==
    ASSUME NEW f, NEW S, IsFiniteSet(S), NEW g, IsSum(f, S, g)
    PROVE  SumFunctionOnSet(f, S) = g[S]
  <1>. DEFINE it == CHOOSE h : h = [s \in SUBSET S |->
            IF s = {} THEN 0
            ELSE f[CHOOSE x \in s : TRUE] + h[s \ {CHOOSE x \in s : TRUE}]]
  <1>1. SumFunctionOnSet(f, S) = it[S]
    BY DEF SumFunctionOnSet, FoldFunctionOnSet, MapThenFoldSet
  <1>2. IsSum(f, S, it)
    BY DEF IsSum, Some
  <1>. HIDE DEF it
  <1>3. it[S] = g[S]
    BY <1>2, SumUnique
  <1>. QED  BY <1>1, <1>3

LEMMA SumEmpty ==
    ASSUME NEW f
    PROVE  SumFunctionOnSet(f, {}) = 0
  <1>1. IsFiniteSet({})
    BY FS_EmptySet
  <1>2. PICK g : IsSum(f, {}, g)
    BY <1>1, SumExists
  <1>3. g[{}] = 0
    BY <1>2, SumAt
  <1>. QED  BY <1>1, <1>2, <1>3, SumIs

LEMMA SumSome ==
    ASSUME NEW f, NEW S, IsFiniteSet(S), S # {}
    PROVE  /\ Some(S) \in S
           /\ SumFunctionOnSet(f, S) = f[Some(S)] + SumFunctionOnSet(f, S \ {Some(S)})
  <1>. DEFINE w == S \ {Some(S)}
  <1>1. PICK g : IsSum(f, S, g)
    BY SumExists
  <1>2. IsFiniteSet(w) /\ w \subseteq S
    BY FS_Subset
  <1>3. IsSum(f, w, [z \in SUBSET w |-> g[z]])
    BY <1>1, <1>2, SumRestricts
  <1>. HIDE DEF w
  <1>4. SumFunctionOnSet(f, w) = g[w]
    BY <1>2, <1>3, SumIs
  <1>5. SumFunctionOnSet(f, S) = g[S]
    BY <1>1, SumIs
  <1>6. g[S] = f[Some(S)] + g[w]
    BY <1>1, SumAt DEF w
  <1>. QED  BY <1>4, <1>5, <1>6, SomeIn DEF w

(* The sums of natural numbers. *)

LEMMA SumNat ==
    ASSUME NEW S, IsFiniteSet(S), NEW f, \A x \in S : f[x] \in Nat
    PROVE  \A T \in SUBSET S : SumFunctionOnSet(f, T) \in Nat
  <1>. DEFINE Good == {T \in SUBSET S : SumFunctionOnSet(f, T) \in Nat}
  <1>1. ASSUME NEW T \in SUBSET S, \A x \in T : T \ {x} \in Good PROVE T \in Good
    <2>1. CASE T = {}
      BY <2>1, SumEmpty
    <2>2. CASE T # {}
      <3>1. IsFiniteSet(T)
        BY FS_Subset
      <3>2. /\ Some(T) \in T
            /\ SumFunctionOnSet(f, T) = f[Some(T)] + SumFunctionOnSet(f, T \ {Some(T)})
        BY <2>2, <3>1, SumSome
      <3>3. SumFunctionOnSet(f, T \ {Some(T)}) \in Nat /\ f[Some(T)] \in Nat
        BY <1>1, <3>2
      <3>. QED  BY <3>2, <3>3
    <2>. QED  BY <2>1, <2>2
  <1>. HIDE DEF Good
  <1>2. \A T \in SUBSET S : T \in Good
    BY <1>1, AllSubsets
  <1>. QED  BY <1>2 DEF Good

LEMMA SumWithout ==
    ASSUME NEW S, IsFiniteSet(S), NEW f, \A x \in S : f[x] \in Nat
    PROVE  \A T \in SUBSET S : \A x \in T :
               SumFunctionOnSet(f, T) = f[x] + SumFunctionOnSet(f, T \ {x})
  <1>. DEFINE Good == {T \in SUBSET S : \A x \in T :
                         SumFunctionOnSet(f, T) = f[x] + SumFunctionOnSet(f, T \ {x})}
  <1>1. ASSUME NEW T \in SUBSET S, \A x \in T : T \ {x} \in Good PROVE T \in Good
    <2>. SUFFICES ASSUME NEW x \in T
                  PROVE  SumFunctionOnSet(f, T) = f[x] + SumFunctionOnSet(f, T \ {x})
      OBVIOUS
    <2>. DEFINE y == Some(T)
    <2>1. IsFiniteSet(T) /\ IsFiniteSet(T \ {x})
      BY FS_Subset
    <2>2. y \in T /\ SumFunctionOnSet(f, T) = f[y] + SumFunctionOnSet(f, T \ {y})
      BY <2>1, SumSome
    <2>. HIDE DEF y
    <2>3. CASE x = y
      BY <2>2, <2>3
    <2>4. CASE x # y
      <3>1. x \in T \ {y} /\ y \in T \ {x}
        BY <2>2, <2>4
      <3>2. SumFunctionOnSet(f, T \ {y}) = f[x] + SumFunctionOnSet(f, (T \ {y}) \ {x})
        BY <1>1, <2>2, <3>1
      <3>3. SumFunctionOnSet(f, T \ {x}) = f[y] + SumFunctionOnSet(f, (T \ {x}) \ {y})
        BY <1>1, <3>1
      <3>4. (T \ {y}) \ {x} = (T \ {x}) \ {y}
        OBVIOUS
      <3>5. SumFunctionOnSet(f, (T \ {x}) \ {y}) \in Nat /\ f[x] \in Nat /\ f[y] \in Nat
        BY <2>2, SumNat
      <3>. QED  BY <2>2, <3>2, <3>3, <3>4, <3>5
    <2>. QED  BY <2>3, <2>4
  <1>. HIDE DEF Good
  <1>2. \A T \in SUBSET S : T \in Good
    BY <1>1, AllSubsets
  <1>. QED  BY <1>2 DEF Good

LEMMA SumAtMost ==
    ASSUME NEW S, IsFiniteSet(S), NEW f, NEW g,
           \A x \in S : f[x] \in Nat /\ g[x] \in Nat /\ f[x] <= g[x]
    PROVE  \A T \in SUBSET S : SumFunctionOnSet(f, T) <= SumFunctionOnSet(g, T)
  <1>. DEFINE Good == {T \in SUBSET S : SumFunctionOnSet(f, T) <= SumFunctionOnSet(g, T)}
  <1>1. ASSUME NEW T \in SUBSET S, \A x \in T : T \ {x} \in Good PROVE T \in Good
    <2>1. CASE T = {}
      BY <2>1, SumEmpty
    <2>2. CASE T # {}
      <3>1. IsFiniteSet(T)
        BY FS_Subset
      <3>2. /\ Some(T) \in T
            /\ SumFunctionOnSet(f, T) = f[Some(T)] + SumFunctionOnSet(f, T \ {Some(T)})
            /\ SumFunctionOnSet(g, T) = g[Some(T)] + SumFunctionOnSet(g, T \ {Some(T)})
        BY <2>2, <3>1, SumSome
      <3>3. /\ SumFunctionOnSet(f, T \ {Some(T)}) \in Nat
            /\ SumFunctionOnSet(g, T \ {Some(T)}) \in Nat
        BY SumNat
      <3>4. SumFunctionOnSet(f, T \ {Some(T)}) <= SumFunctionOnSet(g, T \ {Some(T)})
        BY <1>1, <3>2
      <3>5. f[Some(T)] \in Nat /\ g[Some(T)] \in Nat /\ f[Some(T)] <= g[Some(T)]
        BY <3>2
      <3>. QED  BY <3>2, <3>3, <3>4, <3>5
    <2>. QED  BY <2>1, <2>2
  <1>. HIDE DEF Good
  <1>2. \A T \in SUBSET S : T \in Good
    BY <1>1, AllSubsets
  <1>. QED  BY <1>2 DEF Good

LEMMA SumSame ==
    ASSUME NEW S, IsFiniteSet(S), NEW f, NEW g,
           \A x \in S : f[x] \in Nat /\ g[x] = f[x]
    PROVE  SumFunctionOnSet(f, S) = SumFunctionOnSet(g, S)
  <1>1. SumFunctionOnSet(f, S) <= SumFunctionOnSet(g, S)
    BY SumAtMost
  <1>2. SumFunctionOnSet(g, S) <= SumFunctionOnSet(f, S)
    BY SumAtMost
  <1>3. SumFunctionOnSet(f, S) \in Nat /\ SumFunctionOnSet(g, S) \in Nat
    BY SumNat
  <1>. QED  BY <1>1, <1>2, <1>3

LEMMA SumOfBoth ==
    ASSUME NEW S, IsFiniteSet(S), NEW f, NEW g, NEW h,
           \A x \in S : f[x] \in Nat /\ g[x] \in Nat /\ h[x] \in Nat /\ h[x] <= f[x] + g[x]
    PROVE  \A T \in SUBSET S :
               SumFunctionOnSet(h, T) <= SumFunctionOnSet(f, T) + SumFunctionOnSet(g, T)
  <1>. DEFINE Good == {T \in SUBSET S :
                SumFunctionOnSet(h, T) <= SumFunctionOnSet(f, T) + SumFunctionOnSet(g, T)}
  <1>1. ASSUME NEW T \in SUBSET S, \A x \in T : T \ {x} \in Good PROVE T \in Good
    <2>1. CASE T = {}
      BY <2>1, SumEmpty
    <2>2. CASE T # {}
      <3>. DEFINE y == Some(T)
      <3>1. IsFiniteSet(T)
        BY FS_Subset
      <3>2. /\ y \in T
            /\ SumFunctionOnSet(f, T) = f[y] + SumFunctionOnSet(f, T \ {y})
            /\ SumFunctionOnSet(g, T) = g[y] + SumFunctionOnSet(g, T \ {y})
            /\ SumFunctionOnSet(h, T) = h[y] + SumFunctionOnSet(h, T \ {y})
        BY <2>2, <3>1, SumSome
      <3>. HIDE DEF y
      <3>3. /\ SumFunctionOnSet(f, T \ {y}) \in Nat
            /\ SumFunctionOnSet(g, T \ {y}) \in Nat
            /\ SumFunctionOnSet(h, T \ {y}) \in Nat
        BY SumNat
      <3>4. SumFunctionOnSet(h, T \ {y}) <=
              SumFunctionOnSet(f, T \ {y}) + SumFunctionOnSet(g, T \ {y})
        BY <1>1, <3>2
      <3>5. f[y] \in Nat /\ g[y] \in Nat /\ h[y] \in Nat /\ h[y] <= f[y] + g[y]
        BY <3>2
      <3>. QED  BY <3>2, <3>3, <3>4, <3>5
    <2>. QED  BY <2>1, <2>2
  <1>. HIDE DEF Good
  <1>2. \A T \in SUBSET S : T \in Good
    BY <1>1, AllSubsets
  <1>. QED  BY <1>2 DEF Good

(* One value changes: the sum changes by as much. *)
LEMMA SumChanges ==
    ASSUME NEW S, IsFiniteSet(S), NEW f, NEW g, NEW x \in S,
           \A y \in S : f[y] \in Nat /\ g[y] \in Nat,
           \A y \in S \ {x} : g[y] = f[y]
    PROVE  /\ SumFunctionOnSet(f, S) \in Nat /\ SumFunctionOnSet(g, S) \in Nat
           /\ SumFunctionOnSet(g, S) + f[x] = SumFunctionOnSet(f, S) + g[x]
  <1>1. SumFunctionOnSet(f, S) = f[x] + SumFunctionOnSet(f, S \ {x})
    BY SumWithout
  <1>2. SumFunctionOnSet(g, S) = g[x] + SumFunctionOnSet(g, S \ {x})
    BY SumWithout
  <1>3. IsFiniteSet(S \ {x})
    BY FS_Subset
  <1>4. SumFunctionOnSet(f, S \ {x}) = SumFunctionOnSet(g, S \ {x})
    BY <1>3, SumSame
  <1>5. /\ SumFunctionOnSet(f, S) \in Nat /\ SumFunctionOnSet(g, S) \in Nat
        /\ SumFunctionOnSet(f, S \ {x}) \in Nat
    BY SumNat
  <1>. QED  BY <1>1, <1>2, <1>4, <1>5

(* A sum over a part of S is one over S of what counts in the part. *)
LEMMA SumOfPart ==
    ASSUME NEW S, IsFiniteSet(S), NEW f, \A x \in S : f[x] \in Nat, NEW P, P \subseteq S
    PROVE  SumFunctionOnSet(f, P)
             = SumFunctionOnSet([x \in S |-> IF x \in P THEN f[x] ELSE 0], S)
  <1>. DEFINE g == [x \in S |-> IF x \in P THEN f[x] ELSE 0]
              Good == {T \in SUBSET S :
                         SumFunctionOnSet(g, T) = SumFunctionOnSet(f, T \cap P)}
  <1>0. \A x \in S : g[x] \in Nat /\ g[x] = IF x \in P THEN f[x] ELSE 0
    OBVIOUS
  <1>. HIDE DEF g
  <1>1. ASSUME NEW T \in SUBSET S, \A x \in T : T \ {x} \in Good PROVE T \in Good
    <2>1. CASE T = {}
      <3>1. T \cap P = {}
        BY <2>1
      <3>. QED  BY <2>1, <3>1, SumEmpty
    <2>2. CASE T # {}
      <3>. DEFINE y == Some(T)
      <3>0. IsFiniteSet(T)
        BY FS_Subset
      <3>1. y \in T /\ SumFunctionOnSet(g, T) = g[y] + SumFunctionOnSet(g, T \ {y})
        BY <2>2, <3>0, SumSome
      <3>. HIDE DEF y
      <3>2. SumFunctionOnSet(g, T \ {y}) = SumFunctionOnSet(f, (T \ {y}) \cap P)
        BY <1>1, <3>1
      <3>3. SumFunctionOnSet(f, (T \ {y}) \cap P) \in Nat
        BY SumNat
      <3>4. CASE y \in P
        <4>1. SumFunctionOnSet(f, T \cap P) = f[y] + SumFunctionOnSet(f, (T \cap P) \ {y})
          BY <3>1, <3>4, SumWithout
        <4>2. (T \cap P) \ {y} = (T \ {y}) \cap P
          OBVIOUS
        <4>. QED  BY <1>0, <3>1, <3>2, <3>4, <4>1, <4>2
      <3>5. CASE y \notin P
        <4>1. (T \ {y}) \cap P = T \cap P
          BY <3>5
        <4>2. g[y] = 0
          BY <1>0, <3>1, <3>5
        <4>. QED  BY <3>1, <3>2, <3>3, <4>1, <4>2, SMTT(30)
      <3>. QED  BY <3>4, <3>5
    <2>. QED  BY <2>1, <2>2
  <1>2. S \in Good
    <2>. HIDE DEF Good
    <2>. QED  BY <1>1, AllSubsets
  <1>3. S \cap P = P
    OBVIOUS
  <1>. QED  BY <1>2, <1>3 DEF g

-----------------------------------------------------------------------------
(* Rows w + 1 to u of a sequence, by their number.                          *)
LEMMA SubRows ==
    ASSUME NEW S, NEW rows \in Seq(S), NEW w \in 0..Len(rows), NEW u \in w..Len(rows)
    PROVE  LET b == SubSeq(rows, w + 1, u)
           IN  /\ b \in Seq(S) /\ Len(b) = u - w /\ DOMAIN b = 1..u - w
               /\ \A i \in 1..u - w : b[i] = rows[w + i]
  <1>. DEFINE b == SubSeq(rows, w + 1, u)
  <1>1. Len(rows) \in Nat /\ w \in Nat /\ u \in Nat /\ w <= u /\ u <= Len(rows)
    OBVIOUS
  <1>2. \A i \in w + 1..u : rows[i] \in S
    BY <1>1
  <1>3. b \in Seq(S) /\ Len(b) = IF w + 1 <= u THEN u - (w + 1) + 1 ELSE 0
    BY <1>1, <1>2, SubSeqProperties
  <1>4. \A i \in 1..u - (w + 1) + 1 : b[i] = rows[w + 1 + i - 1]
    BY <1>1, <1>2, SubSeqProperties
  <1>. HIDE DEF b
  <1>5. Len(b) = u - w
    BY <1>1, <1>3
  <1>6. \A i \in 1..u - w : b[i] = rows[w + i]
    BY <1>1, <1>4
  <1>. QED  BY <1>3, <1>5, <1>6 DEF b

-----------------------------------------------------------------------------
(* What is reached from some start in so many steps.  A step that never     *)
(* takes anything away from a finite set adds nothing after as many steps   *)
(* as the set has members.                                                  *)

IteratesOf(G, start, n, f) ==
    f = [i \in 0 .. n |-> IF i = 0 THEN start ELSE G[f[i - 1]]]

LEMMA IteratesExist ==
    ASSUME NEW G, NEW start
    PROVE  \A n \in Nat : \E f : IteratesOf(G, start, n, f)
  <1>. DEFINE T == {n \in Nat : ~\E f : IteratesOf(G, start, n, f)}
  <1>1. SUFFICES ASSUME T # {} PROVE FALSE
    OBVIOUS
  <1>2. PICK m \in T : \A i \in T : m <= i
    BY <1>1, LeastNat
  <1>3. m # 0
    <2>1. PICK f : f = [i \in 0 .. 0 |-> start]
      OBVIOUS
    <2>2. IteratesOf(G, start, 0, f)
      BY <2>1 DEF IteratesOf
    <2>. QED  BY <2>2
  <1>4. m \in Nat /\ m - 1 \in Nat /\ m - 1 \notin T
    BY <1>2, <1>3
  <1>5. PICK p : IteratesOf(G, start, m - 1, p)
    BY <1>4
  <1>6. PICK q : q = [i \in 0 .. m |-> IF i = 0 THEN start ELSE G[p[i - 1]]]
    OBVIOUS
  <1>. HIDE DEF T
  <1>7. \A i \in 0 .. m - 1 : q[i] = p[i]
    <2>1. \A i \in 0 .. m - 1 : i \in 0 .. m
      BY <1>4
    <2>. QED  BY <1>5, <1>6, <2>1 DEF IteratesOf
  <1>8. \A i \in 1 .. m : q[i - 1] = p[i - 1]
    BY <1>4, <1>7
  <1>9. IteratesOf(G, start, m, q)
    <2>1. \A i \in 0 .. m : i # 0 => i \in 1 .. m
      BY <1>4
    <2>2. [i \in 0 .. m |-> IF i = 0 THEN start ELSE G[p[i - 1]]]
             = [i \in 0 .. m |-> IF i = 0 THEN start ELSE G[q[i - 1]]]
      BY <1>8, <2>1
    <2>. QED  BY <1>6, <2>2 DEF IteratesOf
  <1>. QED  BY <1>2, <1>9 DEF T

LEMMA IteratesUnfold ==
    ASSUME NEW G, NEW start, NEW n \in Nat, NEW f, IteratesOf(G, start, n, f)
    PROVE  /\ f[0] = start
           /\ \A i \in 1 .. n : f[i] = G[f[i - 1]]
  <1>1. \A i \in 0 .. n : f[i] = IF i = 0 THEN start ELSE G[f[i - 1]]
    BY DEF IteratesOf
  <1>2. 0 \in 0 .. n /\ \A i \in 1 .. n : i \in 0 .. n /\ i # 0
    OBVIOUS
  <1>. QED  BY <1>1, <1>2

StepGrows(G, S) == \A T \in SUBSET S : G[T] \in SUBSET S /\ T \subseteq G[T]

LEMMA IteratesWithin ==
    ASSUME NEW S, NEW G, StepGrows(G, S), NEW n \in Nat, NEW f,
           f[0] \in SUBSET S, \A i \in 1 .. n : f[i] = G[f[i - 1]]
    PROVE  \A i \in 0 .. n : f[i] \in SUBSET S
  <1>. DEFINE T == {i \in Nat : i <= n /\ f[i] \notin SUBSET S}
  <1>1. SUFFICES ASSUME T # {} PROVE FALSE
    OBVIOUS
  <1>2. PICK m \in T : \A i \in T : m <= i
    BY <1>1, LeastNat
  <1>3. m \in Nat /\ m <= n /\ m # 0 /\ f[m] \notin SUBSET S
    OBVIOUS
  <1>4. m - 1 \in Nat /\ m - 1 <= n /\ ~(m <= m - 1) /\ m \in 1 .. n
    BY <1>3
  <1>5. f[m - 1] \in SUBSET S
    BY <1>2, <1>4
  <1>. HIDE DEF T
  <1>. QED  BY <1>3, <1>4, <1>5 DEF StepGrows

\* Once a step adds nothing, no later step does.
LEMMA IteratesStay ==
    ASSUME NEW S, NEW G, StepGrows(G, S), NEW n \in Nat, NEW f,
           f[0] \in SUBSET S, \A i \in 1 .. n : f[i] = G[f[i - 1]],
           NEW k \in 0 .. n, G[f[k]] = f[k]
    PROVE  G[f[n]] = f[n]
  <1>. DEFINE T == {i \in Nat : k <= i /\ i <= n /\ f[i] # f[k]}
  <1>1. CASE T = {}
    <2>1. n \notin T
      BY <1>1
    <2>. QED  BY <2>1
  <1>2. CASE T # {}
    <2>1. PICK m \in T : \A i \in T : m <= i
      BY <1>2, LeastNat
    <2>2. m \in Nat /\ k < m /\ m <= n /\ f[m] # f[k]
      OBVIOUS
    <2>3. m - 1 \in Nat /\ k <= m - 1 /\ m - 1 <= n /\ ~(m <= m - 1) /\ m \in 1 .. n
      BY <2>2
    <2>4. f[m - 1] = f[k]
      BY <2>1, <2>3
    <2>. HIDE DEF T
    <2>. QED  BY <2>2, <2>3, <2>4
  <1>. QED  BY <1>1, <1>2

LEMMA IteratesClose ==
    ASSUME NEW S, IsFiniteSet(S), NEW G, StepGrows(G, S),
           NEW n \in Nat, Cardinality(S) <= n, NEW f,
           f[0] \in SUBSET S, \A i \in 1 .. n : f[i] = G[f[i - 1]]
    PROVE  G[f[n]] = f[n]
  <1>1. \A i \in 0 .. n : f[i] \in SUBSET S
    BY IteratesWithin
  <1>2. SUFFICES ASSUME \A k \in 0 .. n : G[f[k]] # f[k] PROVE FALSE
    BY IteratesStay
  <1>3. \A i \in 0 .. n : IsFiniteSet(f[i]) /\ Cardinality(f[i]) \in Nat
                          /\ Cardinality(f[i]) <= Cardinality(S)
    BY <1>1, FS_Subset, FS_CardinalityType
  <1>. DEFINE T == {i \in Nat : i <= n /\ ~(i <= Cardinality(f[i]))}
  <1>4. CASE T # {}
    <2>1. PICK m \in T : \A i \in T : m <= i
      BY <1>4, LeastNat
    <2>2. m \in Nat /\ m <= n /\ ~(m <= Cardinality(f[m])) /\ m \in 0 .. n
      OBVIOUS
    <2>3. m # 0
      BY <1>3, <2>2
    <2>4. m - 1 \in Nat /\ m - 1 <= n /\ ~(m <= m - 1) /\ m \in 1 .. n /\ m - 1 \in 0 .. n
      BY <2>2, <2>3
    <2>5. m - 1 <= Cardinality(f[m - 1])
      BY <2>1, <2>4
    <2>. HIDE DEF T
    <2>6. f[m] = G[f[m - 1]] /\ f[m] # f[m - 1] /\ f[m - 1] \subseteq f[m]
      BY <1>1, <1>2, <2>4 DEF StepGrows
    <2>7. Cardinality(f[m - 1]) < Cardinality(f[m])
      BY <1>3, <2>2, <2>6, FS_Subset
    <2>8. Cardinality(f[m]) \in Nat /\ Cardinality(f[m - 1]) \in Nat
      BY <1>3, <2>2, <2>4
    <2>. QED  BY <2>2, <2>4, <2>5, <2>7, <2>8
  <1>5. CASE T = {}
    <2>1. n \notin T /\ n \in 0 .. n
      BY <1>5
    <2>2. n <= Cardinality(f[n]) /\ Cardinality(S) \in Nat
      BY <2>1, FS_CardinalityType
    <2>. HIDE DEF T
    <2>3. Cardinality(f[n]) = Cardinality(S)
      BY <1>3, <2>1, <2>2
    <2>4. f[n] = S
      BY <1>1, <2>1, <2>3, FS_Subset
    <2>5. S \in SUBSET S
      OBVIOUS
    <2>6. G[S] = S
      BY <2>5 DEF StepGrows
    <2>. QED  BY <1>2, <2>1, <2>4, <2>6
  <1>. QED  BY <1>4, <1>5

LEMMA IteratesMonotone ==
    ASSUME NEW S, NEW G, StepGrows(G, S), NEW n \in Nat, NEW f,
           f[0] \in SUBSET S, \A i \in 1 .. n : f[i] = G[f[i - 1]],
           NEW k \in 0 .. n
    PROVE  \A i \in k .. n : f[k] \subseteq f[i]
  <1>. DEFINE T == {i \in Nat : k <= i /\ i <= n /\ ~(f[k] \subseteq f[i])}
  <1>1. SUFFICES ASSUME T # {} PROVE FALSE
    OBVIOUS
  <1>2. PICK m \in T : \A i \in T : m <= i
    BY <1>1, LeastNat
  <1>3. m \in Nat /\ k < m /\ m <= n /\ ~(f[k] \subseteq f[m])
    OBVIOUS
  <1>4. m - 1 \in Nat /\ k <= m - 1 /\ m - 1 <= n /\ ~(m <= m - 1)
        /\ m \in 1 .. n /\ m - 1 \in 0 .. n
    BY <1>3
  <1>5. f[k] \subseteq f[m - 1]
    BY <1>2, <1>4
  <1>. HIDE DEF T
  <1>6. f[m - 1] \in SUBSET S
    BY <1>4, IteratesWithin
  <1>7. f[m - 1] \subseteq f[m]
    BY <1>4, <1>6 DEF StepGrows
  <1>. QED  BY <1>3, <1>5, <1>7

LEMMA IteratesHoldStart ==
    ASSUME NEW S, NEW G, StepGrows(G, S), NEW n \in Nat, NEW f,
           f[0] \in SUBSET S, \A i \in 1 .. n : f[i] = G[f[i - 1]]
    PROVE  \A i \in 0 .. n : f[0] \subseteq f[i]
  <1>1. 0 \in 0 .. n
    OBVIOUS
  <1>. QED  BY <1>1, IteratesMonotone

\* What growing steps within a finite set reach, all in one.
GrowsWithin(S, G, start, n) ==
    /\ IsFiniteSet(S) /\ StepGrows(G, S) /\ start \in SUBSET S
    /\ n \in Nat /\ Cardinality(S) <= n

ReachesBy(S, G, start, n, f) ==
    /\ IteratesOf(G, start, n, f) /\ f[0] = start
    /\ \A i \in 1 .. n : f[i] = G[f[i - 1]]
    /\ \A i \in 0 .. n : f[i] \in SUBSET S /\ f[i] \subseteq f[n]
    /\ G[f[n]] = f[n]

LEMMA IteratesWhole ==
    ASSUME NEW S, NEW G, NEW start, NEW n, GrowsWithin(S, G, start, n)
    PROVE  \E f : ReachesBy(S, G, start, n, f)
  <1>0. /\ IsFiniteSet(S) /\ StepGrows(G, S) /\ start \in SUBSET S
        /\ n \in Nat /\ Cardinality(S) <= n
    BY DEF GrowsWithin
  <1>1. PICK f : IteratesOf(G, start, n, f)
    BY <1>0, IteratesExist
  <1>2. f[0] = start /\ \A i \in 1 .. n : f[i] = G[f[i - 1]]
    BY <1>0, <1>1, IteratesUnfold
  <1>3. f[0] \in SUBSET S
    BY <1>0, <1>2
  <1>4. \A i \in 0 .. n : f[i] \in SUBSET S
    BY <1>0, <1>2, <1>3, IteratesWithin
  <1>5. G[f[n]] = f[n]
    BY <1>0, <1>2, <1>3, IteratesClose
  <1>6. \A i \in 0 .. n : f[i] \subseteq f[n]
    <2>. SUFFICES ASSUME NEW i \in 0 .. n PROVE f[i] \subseteq f[n]
      OBVIOUS
    <2>1. n \in i .. n
      BY <1>0
    <2>. QED  BY <1>0, <1>2, <1>3, <2>1, IteratesMonotone
  <1>. QED  BY <1>1, <1>2, <1>4, <1>5, <1>6 DEF ReachesBy
=============================================================================
