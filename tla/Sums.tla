-------------------------------- MODULE Sums --------------------------------
(***************************************************************************)
(* Facts about sums over finite sets, as MapThenSumSet of FiniteSetsExt    *)
(* computes them: element by element, in the order in which CHOOSE takes   *)
(* them out.  The facts are about the sum of a function; each specification *)
(* that sums something relates its own expression to one.                  *)
(*                                                                         *)
(* Induction is by the least counterexample: a set of naturals that is not *)
(* empty has a least element.                                              *)
(***************************************************************************)
EXTENDS Integers, FiniteSetsExt, FiniteSetTheorems, TLAPS

Pick(s) == CHOOSE x \in s : TRUE

SumOf(f, S) == MapThenSumSet(LAMBDA x : f[x], S)

(* f has integers to add for a finite set. *)
Summable(f, S) == IsFiniteSet(S) /\ \A x \in S : f[x] \in Int

(* g is the recursion behind SumOf(f, S). *)
Adds(g, f, S) ==
  g = [s \in SUBSET S |-> IF s = {} THEN 0 ELSE f[Pick(s)] + g[s \ {Pick(s)}]]

(* The same on the subsets of size n at most. *)
AddsUpTo(g, f, S, n) ==
  /\ g \in [{s \in SUBSET S : Cardinality(s) <= n} -> Int]
  /\ \A s \in DOMAIN g : g[s] = IF s = {} THEN 0 ELSE f[Pick(s)] + g[s \ {Pick(s)}]

(* g gives the sum of f over every subset of S. *)
IsSum(g, f, S) ==
  g \in [SUBSET S -> Int] /\ Adds(g, f, S) /\ \A T \in SUBSET S : SumOf(f, T) = g[T]

(* A set of naturals that is not empty has a least element. *)
LEMMA LeastOf ==
  ASSUME NEW T, T \subseteq Nat, T # {}
  PROVE  \E m \in T : \A n \in T : m <= n
<1>1. \E m \in T : \A n \in T : ~(n < m)
  <2>1. PICK m \in T : \A n \in T : <<n, m>> \notin OpToRel(<, Nat)
    BY NatLessThanWellFounded, WFMin, Zenon
  <2> QED  BY <2>1, Zenon DEF OpToRel
<1>2. PICK m \in T : \A n \in T : ~(n < m)
  BY <1>1
<1>3. \A n \in T : m \in Nat /\ n \in Nat
  OBVIOUS
<1> QED  BY <1>2, <1>3

(* Of sets with a property that are finite and exist, one is smallest. *)
LEMMA SmallestOf ==
  ASSUME NEW S, IsFiniteSet(S), NEW B, B \subseteq SUBSET S, B # {}
  PROVE  \E s \in B : \A t \in SUBSET S : Cardinality(t) < Cardinality(s) => t \notin B
<1> DEFINE T == {Cardinality(s) : s \in B}
<1>1. \A s \in SUBSET S : IsFiniteSet(s) /\ Cardinality(s) \in Nat
  BY FS_Subset, FS_CardinalityType
<1>2. T \subseteq Nat /\ T # {}
  BY <1>1
<1>3. PICK m \in T : \A n \in T : m <= n
  BY <1>2, LeastOf, Zenon
<1>4. PICK s \in B : m = Cardinality(s)
  BY <1>3
<1>5. \A t \in B : Cardinality(s) <= Cardinality(t)
  BY <1>3, <1>4
<1> QED  BY <1>1, <1>5

(* Taking an element out of a finite set makes it smaller. *)
LEMMA TakenOut ==
  ASSUME NEW S, IsFiniteSet(S), NEW s \in SUBSET S, NEW x \in s
  PROVE  /\ s \ {x} \in SUBSET S
         /\ Cardinality(s) \in Nat /\ Cardinality(s \ {x}) \in Nat
         /\ Cardinality(s \ {x}) = Cardinality(s) - 1
BY FS_Subset, FS_RemoveElement, FS_CardinalityType

(* An element is picked from what is not empty. *)
LEMMA PickIn ==
  ASSUME NEW s, s # {}
  PROVE  Pick(s) \in s
BY DEF Pick

(* The recursion has a solution on the subsets of size n at most, by       *)
(* induction over n. *)
LEMMA PartlySolved ==
  ASSUME NEW S, NEW f, Summable(f, S), NEW n \in Nat
  PROVE  \E g : AddsUpTo(g, f, S, n)
<1> DEFINE Small(k) == {s \in SUBSET S : Cardinality(s) <= k}
           Step(g, s) == IF s = {} THEN 0 ELSE f[Pick(s)] + g[s \ {Pick(s)}]
           Solved(k) == \E g \in [Small(k) -> Int] : \A s \in Small(k) : g[s] = Step(g, s)
           Bad == {k \in Nat : ~Solved(k)}
<1>0. IsFiniteSet(S) /\ \A x \in S : f[x] \in Int
  BY DEF Summable
<1>1. \A s \in SUBSET S : IsFiniteSet(s) /\ Cardinality(s) \in Nat
  BY <1>0, FS_Subset, FS_CardinalityType
<1>2. Solved(0)
  <2> DEFINE g == [s \in Small(0) |-> 0]
  <2>1. \A s \in Small(0) : s = {}
    BY <1>1, FS_EmptySet
  <2>2. g \in [Small(0) -> Int] /\ \A s \in Small(0) : g[s] = Step(g, s)
    BY <2>1
  <2> QED  BY <2>2
<1>3. ASSUME NEW k \in Nat, Solved(k)
      PROVE  Solved(k + 1)
  <2>1. PICK g \in [Small(k) -> Int] : \A s \in Small(k) : g[s] = Step(g, s)
    BY <1>3
  <2> DEFINE h == [s \in Small(k + 1) |-> Step(g, s)]
  <2>2. ASSUME NEW s \in Small(k + 1), s # {}
        PROVE  Pick(s) \in S /\ s \ {Pick(s)} \in Small(k)
    BY <1>0, <2>2, PickIn, TakenOut
  <2>3. h \in [Small(k + 1) -> Int]
    BY <1>0, <2>1, <2>2
  <2>4. \A s \in Small(k) : s \in Small(k + 1) /\ h[s] = g[s]
    BY <1>1, <2>1
  <2>5. \A s \in Small(k + 1) : h[s] = Step(h, s)
    BY <2>2, <2>4
  <2> QED  BY <2>3, <2>5
<1>4. Bad = {}
  <2> HIDE DEF Solved
  <2>1. SUFFICES ASSUME Bad # {} PROVE FALSE
    OBVIOUS
  <2>2. PICK m \in Bad : \A k \in Bad : m <= k
    BY <2>1, LeastOf
  <2>3. m # 0 /\ m - 1 \in Nat /\ m - 1 \notin Bad /\ m = (m - 1) + 1
    BY <1>2, <2>2
  <2> QED  BY <1>3, <2>2, <2>3
<1>5. PICK g \in [Small(n) -> Int] : \A s \in Small(n) : g[s] = Step(g, s)
  BY <1>4
<1> QED  BY <1>5 DEF AddsUpTo

(* The recursion has a solution, ... *)
LEMMA Solvable ==
  ASSUME NEW S, NEW f, Summable(f, S)
  PROVE  \E g : g \in [SUBSET S -> Int] /\ Adds(g, f, S)
<1>1. IsFiniteSet(S) /\ Cardinality(S) \in Nat
  BY FS_CardinalityType DEF Summable
<1>2. SUBSET S = {s \in SUBSET S : Cardinality(s) <= Cardinality(S)}
  BY <1>1, FS_Subset
<1>3. PICK g : AddsUpTo(g, f, S, Cardinality(S))
  BY <1>1, PartlySolved
<1>4. g \in [SUBSET S -> Int]
  BY <1>2, <1>3, Zenon DEF AddsUpTo
<1> QED  BY <1>3, <1>4 DEF Adds, AddsUpTo

(* ... and no other, also on a smaller set. *)
LEMMA SolvedOnce ==
  ASSUME NEW S, IsFiniteSet(S), NEW T \in SUBSET S, NEW f, NEW g, NEW h,
         Adds(g, f, S), Adds(h, f, T)
  PROVE  \A s \in SUBSET T : h[s] = g[s]
<1> DEFINE B == {s \in SUBSET T : h[s] # g[s]}
<1>1. IsFiniteSet(T)
  BY FS_Subset
<1>2. SUFFICES ASSUME B # {} PROVE FALSE
  OBVIOUS
<1>3. PICK s \in B : \A t \in SUBSET T : Cardinality(t) < Cardinality(s) => t \notin B
  BY <1>1, <1>2, SmallestOf
<1>4. /\ g[s] = IF s = {} THEN 0 ELSE f[Pick(s)] + g[s \ {Pick(s)}]
      /\ h[s] = IF s = {} THEN 0 ELSE f[Pick(s)] + h[s \ {Pick(s)}]
  BY DEF Adds
<1>5. s # {}
  BY <1>4
<1>6. h[s \ {Pick(s)}] = g[s \ {Pick(s)}]
  <2>1. /\ s \ {Pick(s)} \in SUBSET T
        /\ Cardinality(s \ {Pick(s)}) < Cardinality(s)
    BY <1>1, <1>5, PickIn, TakenOut
  <2> QED  BY <1>3, <2>1
<1> QED  BY <1>4, <1>5, <1>6

(* The sum of f over the subsets of S is the recursion's solution. *)
LEMMA SumSolves ==
  ASSUME NEW S, NEW f, Summable(f, S)
  PROVE  \E g : IsSum(g, f, S)
<1>1. PICK g : g \in [SUBSET S -> Int] /\ Adds(g, f, S)
  BY Solvable
<1>2. ASSUME NEW T \in SUBSET S
      PROVE  SumOf(f, T) = g[T]
  <2> DEFINE h == CHOOSE h : Adds(h, f, T)
  <2>1. SumOf(f, T) = h[T]
    BY DEF SumOf, MapThenSumSet, MapThenFoldSet, Adds, Pick
  <2>2. Summable(f, T)
    BY FS_Subset DEF Summable
  <2>3. Adds(h, f, T)
    BY <2>2, Solvable
  <2> QED  BY <1>1, <2>1, <2>3, SolvedOnce DEF Summable
<1> QED  BY <1>1, <1>2 DEF IsSum

(* Whatever else solves the recursion, also one that is written in other   *)
(* terms, is the sum. *)
LEMMA SumBy ==
  ASSUME NEW S, NEW f, Summable(f, S), NEW h, Adds(h, f, S)
  PROVE  SumOf(f, S) = h[S]
<1>1. PICK g : IsSum(g, f, S)
  BY SumSolves
<1>2. Adds(g, f, S) /\ SumOf(f, S) = g[S]
  BY <1>1 DEF IsSum
<1> QED  BY <1>2, SolvedOnce DEF Summable

(* What a sum is: 0 of nothing, an integer, and one element and the rest,  *)
(* whichever element is taken out. *)
LEMMA SumOne ==
  ASSUME NEW S, NEW f, Summable(f, S)
  PROVE  /\ SumOf(f, {}) = 0
         /\ SumOf(f, S) \in Int
         /\ \A x \in S : SumOf(f, S) = f[x] + SumOf(f, S \ {x})
<1>0. IsFiniteSet(S) /\ \A x \in S : f[x] \in Int
  BY DEF Summable
<1>g. PICK g : IsSum(g, f, S)
  BY SumSolves
<1>1. /\ g \in [SUBSET S -> Int] /\ Adds(g, f, S)
      /\ \A T \in SUBSET S : SumOf(f, T) = g[T]
  BY <1>g DEF IsSum
<1>2. \A s \in SUBSET S : g[s] = IF s = {} THEN 0 ELSE f[Pick(s)] + g[s \ {Pick(s)}]
  BY <1>1 DEF Adds
<1> DEFINE Splits(s) == \A x \in s : g[s] = f[x] + g[s \ {x}]
           B == {s \in SUBSET S : ~Splits(s)}
<1>3. B = {}
  <2>1. SUFFICES ASSUME B # {} PROVE FALSE
    OBVIOUS
  <2>2. PICK s \in B : \A t \in SUBSET S : Cardinality(t) < Cardinality(s) => t \notin B
    BY <1>0, <2>1, SmallestOf
  <2>3. PICK x \in s : g[s] # f[x] + g[s \ {x}]
    BY <2>2
  <2> DEFINE p == Pick(s)
             r == (s \ {p}) \ {x}
  <2>4. s \in SUBSET S /\ p \in s /\ g[s] = f[p] + g[s \ {p}] /\ p # x
    BY <1>2, <2>2, <2>3, PickIn
  <2>5. Splits(s \ {p}) /\ Splits(s \ {x})
    <3>1. /\ s \ {p} \in SUBSET S /\ s \ {x} \in SUBSET S
          /\ Cardinality(s \ {p}) < Cardinality(s)
          /\ Cardinality(s \ {x}) < Cardinality(s)
      BY <1>0, <2>3, <2>4, TakenOut
    <3>2. s \ {p} \notin B /\ s \ {x} \notin B
      BY <2>2, <3>1, Zenon
    <3> QED  BY <3>1, <3>2, Zenon
  <2>6. g[s \ {p}] = f[x] + g[r] /\ g[s \ {x}] = f[p] + g[r]
    <3>1. (s \ {x}) \ {p} = r
      OBVIOUS
    <3> QED  BY <2>3, <2>4, <2>5, <3>1
  <2>7. f[p] \in Int /\ f[x] \in Int /\ g[r] \in Int
    BY <1>0, <1>1, <2>3, <2>4
  <2> HIDE DEF p, r
  <2> QED  BY <2>3, <2>4, <2>6, <2>7
<1>4. \A x \in S : g[S] = f[x] + g[S \ {x}]
  BY <1>3
<1>5. \A T \in SUBSET S : SumOf(f, T) = g[T]
  BY <1>1
<1>6. SumOf(f, {}) = 0 /\ SumOf(f, S) \in Int
  BY <1>1, <1>2, <1>5
<1>7. \A x \in S : SumOf(f, S) = g[S] /\ SumOf(f, S \ {x}) = g[S \ {x}]
  BY <1>5
<1> QED  BY <1>4, <1>6, <1>7, Zenon

(* Functions that agree have the same sum. *)
LEMMA SumAgrees ==
  ASSUME NEW S, IsFiniteSet(S), NEW f, NEW h, \A x \in S : f[x] \in Int /\ h[x] = f[x]
  PROVE  SumOf(f, S) = SumOf(h, S)
<1> DEFINE B == {s \in SUBSET S : SumOf(f, s) # SumOf(h, s)}
<1>1. SUFFICES ASSUME B # {} PROVE FALSE
  OBVIOUS
<1>2. PICK s \in B : \A t \in SUBSET S : Cardinality(t) < Cardinality(s) => t \notin B
  BY <1>1, SmallestOf
<1>3. Summable(f, s) /\ Summable(h, s) /\ \A x \in s : f[x] \in Int /\ h[x] = f[x]
  BY FS_Subset DEF Summable
<1>4. s # {}
  BY <1>3, SumOne
<1>5. PICK x \in s : TRUE
  BY <1>4
<1>6. /\ SumOf(f, s) = f[x] + SumOf(f, s \ {x})
      /\ SumOf(h, s) = h[x] + SumOf(h, s \ {x})
  BY <1>3, SumOne
<1>7. s \ {x} \notin B /\ s \ {x} \in SUBSET S
  BY <1>2, TakenOut
<1> QED  BY <1>3, <1>6, <1>7

(* Naturals add up to a natural. *)
LEMMA SumNatural ==
  ASSUME NEW S, IsFiniteSet(S), NEW f, \A x \in S : f[x] \in Nat
  PROVE  SumOf(f, S) \in Nat
<1> DEFINE B == {s \in SUBSET S : SumOf(f, s) \notin Nat}
<1>1. SUFFICES ASSUME B # {} PROVE FALSE
  OBVIOUS
<1>2. PICK s \in B : \A t \in SUBSET S : Cardinality(t) < Cardinality(s) => t \notin B
  BY <1>1, SmallestOf
<1>3. Summable(f, s)
  BY FS_Subset DEF Summable
<1>4. PICK x \in s : TRUE
  BY <1>3, SumOne
<1>5. SumOf(f, s) = f[x] + SumOf(f, s \ {x})
  BY <1>3, SumOne
<1>6. s \ {x} \notin B /\ s \ {x} \in SUBSET S
  BY <1>2, TakenOut
<1> QED  BY <1>5, <1>6

(* A set of two has the smaller of them as least, the larger as greatest. *)
LEMMA OfTwo ==
  ASSUME NEW a \in Int, NEW b \in Int
  PROVE  /\ Min({a, b}) = IF a <= b THEN a ELSE b
         /\ Max({a, b}) = IF a >= b THEN a ELSE b
<1> DEFINE m == IF a <= b THEN a ELSE b
           n == IF a >= b THEN a ELSE b
<1>1. m \in {a, b} /\ \A y \in {a, b} : m <= y
  OBVIOUS
<1>2. n \in {a, b} /\ \A y \in {a, b} : n >= y
  OBVIOUS
<1>3. \A x \in {a, b} : (\A y \in {a, b} : x <= y) => x = m
  OBVIOUS
<1>4. \A x \in {a, b} : (\A y \in {a, b} : x >= y) => x = n
  OBVIOUS
<1> HIDE DEF m, n
<1>5. Min({a, b}) = m
  BY <1>1, <1>3 DEF Min
<1>6. Max({a, b}) = n
  BY <1>2, <1>4 DEF Max
<1> QED  BY <1>5, <1>6 DEF m, n

(* The same for a number and 0. *)
LEMMA AtLeastZero ==
  ASSUME NEW x \in Int
  PROVE  Max({0, x}) = IF x >= 0 THEN x ELSE 0
<1> DEFINE z == 0
<1>1. z \in Int
  OBVIOUS
<1> HIDE DEF z
<1>2. Max({z, x}) = IF z >= x THEN z ELSE x
  BY <1>1, OfTwo
<1> QED  BY <1>2 DEF z

(* Where one value changes, the sum changes by as much. *)
LEMMA SumChanged ==
  ASSUME NEW S, NEW f, NEW h, NEW x \in S, Summable(f, S), h[x] \in Int,
         \A y \in S \ {x} : h[y] = f[y]
  PROVE  Summable(h, S) /\ SumOf(h, S) = SumOf(f, S) - f[x] + h[x]
<1>1. Summable(h, S) /\ Summable(f, S \ {x})
  BY FS_Subset DEF Summable
<1>2. SumOf(f, S) = f[x] + SumOf(f, S \ {x}) /\ SumOf(h, S) = h[x] + SumOf(h, S \ {x})
  BY <1>1, SumOne
<1>3. SumOf(f, S \ {x}) = SumOf(h, S \ {x}) /\ SumOf(f, S \ {x}) \in Int
  BY <1>1, SumAgrees, SumOne DEF Summable
<1> QED  BY <1>2, <1>3 DEF Summable

(* A new element adds its value. *)
LEMMA SumWith ==
  ASSUME NEW S, NEW f, NEW h, NEW x, x \notin S, Summable(f, S), h[x] \in Int,
         \A y \in S : h[y] = f[y]
  PROVE  Summable(h, S \cup {x}) /\ SumOf(h, S \cup {x}) = SumOf(f, S) + h[x]
<1>1. Summable(h, S \cup {x}) /\ (S \cup {x}) \ {x} = S
  BY FS_AddElement DEF Summable
<1>2. SumOf(h, S \cup {x}) = h[x] + SumOf(h, S)
  BY <1>1, SumOne
<1>3. SumOf(f, S) = SumOf(h, S) /\ SumOf(f, S) \in Int
  BY SumAgrees, SumOne DEF Summable
<1> QED  BY <1>1, <1>2, <1>3

(* What counts for nothing may be left out. *)
LEMMA SumOfPart ==
  ASSUME NEW S, IsFiniteSet(S), NEW T \in SUBSET S, NEW f, NEW h,
         \A x \in T : f[x] \in Int /\ h[x] = f[x], \A x \in S \ T : f[x] = 0
  PROVE  SumOf(f, S) = SumOf(h, T)
<1> DEFINE B == {s \in SUBSET S : T \subseteq s /\ SumOf(f, s) # SumOf(h, T)}
<1>1. SUFFICES ASSUME B # {} PROVE FALSE
  OBVIOUS
<1>2. PICK s \in B : \A t \in SUBSET S : Cardinality(t) < Cardinality(s) => t \notin B
  <2>1. B \subseteq SUBSET S
    OBVIOUS
  <2> HIDE DEF B
  <2> QED  BY <1>1, <2>1, SmallestOf
<1>3. Summable(f, s) /\ IsFiniteSet(T)
  <2>1. \A x \in S : f[x] \in Int
    OBVIOUS
  <2> QED  BY <1>2, <2>1, FS_Subset DEF Summable
<1>4. s # T
  BY <1>2, <1>3, SumAgrees
<1>5. PICK x \in s : x \notin T
  BY <1>2, <1>4
<1>6. SumOf(f, s) = f[x] + SumOf(f, s \ {x}) /\ f[x] = 0
  BY <1>3, <1>5, SumOne
<1>7. SumOf(f, s \ {x}) \in Int
  BY <1>3, FS_Subset, SumOne DEF Summable
<1>8. s \ {x} \notin B /\ s \ {x} \in SUBSET S
  BY <1>2, TakenOut
<1> QED  BY <1>2, <1>5, <1>6, <1>7, <1>8

(* Sets that have nothing in common add up apart. *)
LEMMA SumApart ==
  ASSUME NEW S, NEW f, Summable(f, S), NEW A \in SUBSET S, NEW C \in SUBSET S,
         A \cap C = {}
  PROVE  SumOf(f, A \cup C) = SumOf(f, A) + SumOf(f, C)
<1> DEFINE B == {s \in SUBSET A : SumOf(f, s \cup C) # SumOf(f, s) + SumOf(f, C)}
<1>1. SUFFICES ASSUME B # {} PROVE FALSE
  OBVIOUS
<1>2. IsFiniteSet(A) /\ \A T \in SUBSET S : Summable(f, T) /\ SumOf(f, T) \in Int
  BY FS_Subset, SumOne DEF Summable
<1>3. PICK s \in B : \A t \in SUBSET A : Cardinality(t) < Cardinality(s) => t \notin B
  <2>1. B \subseteq SUBSET A
    OBVIOUS
  <2> HIDE DEF B
  <2> QED  BY <1>1, <1>2, <2>1, SmallestOf
<1>4. s # {}
  <2>1. SUFFICES ASSUME s = {} PROVE FALSE
    OBVIOUS
  <2>2. SumOf(f, s) = 0 /\ s \cup C = C /\ SumOf(f, C) \in Int
    BY <1>2, <2>1, SumOne
  <2> QED  BY <1>3, <2>2
<1>5. PICK x \in s : TRUE
  BY <1>4
<1>6. SumOf(f, s) = f[x] + SumOf(f, s \ {x}) /\ f[x] \in Int
  <2>1. s \in SUBSET S /\ x \in S
    BY <1>3, <1>5
  <2> QED  BY <1>2, <2>1, <1>5, SumOne DEF Summable
<1>7. SumOf(f, s \cup C) = f[x] + SumOf(f, (s \ {x}) \cup C)
  <2>1. s \cup C \in SUBSET S /\ x \in s \cup C /\ (s \cup C) \ {x} = (s \ {x}) \cup C
    BY <1>3, <1>5
  <2>2. Summable(f, s \cup C)
    BY <1>2, <2>1
  <2> QED  BY <2>1, <2>2, SumOne
<1>8. SumOf(f, (s \ {x}) \cup C) = SumOf(f, s \ {x}) + SumOf(f, C)
  <2>1. s \ {x} \in SUBSET A /\ Cardinality(s \ {x}) < Cardinality(s)
    BY <1>2, <1>3, <1>5, TakenOut
  <2>2. s \ {x} \notin B
    BY <1>3, <2>1, Zenon
  <2> QED  BY <2>1, <2>2
<1>9. SumOf(f, s \ {x}) \in Int /\ SumOf(f, C) \in Int
  <2>1. s \ {x} \in SUBSET S
    BY <1>3
  <2> QED  BY <1>2, <2>1
<1> QED  BY <1>3, <1>6, <1>7, <1>8, <1>9

(* What a function makes of finitely many is finitely many. *)
LEMMA ImageOf ==
  ASSUME NEW S, IsFiniteSet(S), NEW f
  PROVE  IsFiniteSet({f[x] : x \in S})
<1> DEFINE T == {f[x] : x \in S}
           g == [x \in S |-> f[x]]
<1>1. g \in Surjection(S, T)
  BY DEF Surjection
<1> HIDE DEF T, g
<1>2. IsFiniteSet(T)
  BY <1>1, FS_Surjection
<1> QED  BY <1>2 DEF T

(* The sum of a sum. *)
LEMMA SumOfBoth ==
  ASSUME NEW S, NEW f, NEW g, NEW h, Summable(f, S), Summable(g, S),
         \A x \in S : h[x] = f[x] + g[x]
  PROVE  SumOf(h, S) = SumOf(f, S) + SumOf(g, S)
<1> DEFINE B == {s \in SUBSET S : SumOf(h, s) # SumOf(f, s) + SumOf(g, s)}
<1>0. IsFiniteSet(S) /\ \A x \in S : f[x] \in Int /\ g[x] \in Int /\ h[x] \in Int
  BY DEF Summable
<1>1. SUFFICES ASSUME B # {} PROVE FALSE
  OBVIOUS
<1>2. PICK s \in B : \A t \in SUBSET S : Cardinality(t) < Cardinality(s) => t \notin B
  <2>1. B \subseteq SUBSET S
    OBVIOUS
  <2> HIDE DEF B
  <2> QED  BY <1>0, <1>1, <2>1, SmallestOf
<1>3. Summable(f, s) /\ Summable(g, s) /\ Summable(h, s)
  BY <1>0, <1>2, FS_Subset DEF Summable
<1>4. s # {}
  BY <1>2, <1>3, SumOne
<1>5. PICK x \in s : TRUE
  BY <1>4
<1>6. s \ {x} \in SUBSET S /\ s \ {x} \notin B
  <2>1. s \in SUBSET S
    BY <1>2
  <2>2. /\ s \ {x} \in SUBSET S
        /\ Cardinality(s) \in Nat /\ Cardinality(s \ {x}) \in Nat
        /\ Cardinality(s \ {x}) = Cardinality(s) - 1
    BY <1>0, <1>5, <2>1, TakenOut, Zenon
  <2>3. Cardinality(s \ {x}) < Cardinality(s)
    BY <2>2
  <2> HIDE DEF B
  <2> QED  BY <1>2, <2>2, <2>3
<1>7. /\ SumOf(f, s) = f[x] + SumOf(f, s \ {x})
      /\ SumOf(g, s) = g[x] + SumOf(g, s \ {x})
      /\ SumOf(h, s) = h[x] + SumOf(h, s \ {x})
  BY <1>3, <1>5, SumOne
<1>8. Summable(f, s \ {x}) /\ Summable(g, s \ {x})
  BY <1>0, <1>6, FS_Subset DEF Summable
<1>9. /\ SumOf(f, s \ {x}) \in Int /\ SumOf(g, s \ {x}) \in Int
      /\ f[x] \in Int /\ g[x] \in Int /\ h[x] = f[x] + g[x]
  BY <1>0, <1>2, <1>5, <1>8, SumOne
<1>10. SumOf(h, s \ {x}) = SumOf(f, s \ {x}) + SumOf(g, s \ {x})
  BY <1>6
<1> QED  BY <1>2, <1>7, <1>9, <1>10

(***************************************************************************)
(* Folds over a sequence, as FoldLeft of SequencesExt computes them: the   *)
(* greatest place of a set of places is taken out, what the others give is *)
(* found first.                                                            *)
(***************************************************************************)
(* A finite set of naturals that is not empty has a greatest element. *)
LEMMA GreatestOf ==
  ASSUME NEW T, IsFiniteSet(T), T \subseteq Nat, T # {}
  PROVE  Max(T) \in T /\ \A n \in T : n <= Max(T)
<1> DEFINE Tops(s) == \E m \in s : \A n \in s : m >= n
           B == {s \in SUBSET T : s # {} /\ ~Tops(s)}
<1>1. Tops(T)
  <2>1. SUFFICES ASSUME B # {} PROVE FALSE
    OBVIOUS
  <2>2. PICK s \in B : \A t \in SUBSET T : Cardinality(t) < Cardinality(s) => t \notin B
    <3>1. B \subseteq SUBSET T
      OBVIOUS
    <3> HIDE DEF B
    <3> QED  BY <2>1, <3>1, SmallestOf
  <2>3. PICK x \in s : TRUE
    BY <2>2
  <2>4. s \ {x} \notin B /\ s \ {x} \in SUBSET T
    <3>1. s \in SUBSET T
      BY <2>2
    <3> HIDE DEF B
    <3>3. /\ s \ {x} \in SUBSET T
          /\ Cardinality(s) \in Nat /\ Cardinality(s \ {x}) \in Nat
          /\ Cardinality(s \ {x}) = Cardinality(s) - 1
      BY <2>3, <3>1, TakenOut, Zenon
    <3>2. s \ {x} \in SUBSET T /\ Cardinality(s \ {x}) < Cardinality(s)
      BY <3>3
    <3> QED  BY <2>2, <3>2
  <2>5. CASE s \ {x} = {}
    <3>1. \A n \in s : x >= n
      BY <2>2, <2>3, <2>5
    <3> QED  BY <2>2, <2>3, <3>1
  <2>6. CASE s \ {x} # {}
    <3>1. PICK m \in s \ {x} : \A n \in s \ {x} : m >= n
      BY <2>4, <2>6
    <3>2. m \in Nat /\ x \in Nat /\ \A n \in s : n \in Nat
      BY <2>2, <2>3, <3>1
    <3>3. CASE m >= x
      BY <2>2, <3>1, <3>2, <3>3
    <3>4. CASE x >= m
      <4>1. \A n \in s : x >= n
        BY <3>1, <3>2, <3>4
      <4> QED  BY <2>2, <2>3, <4>1
    <3> QED  BY <3>2, <3>3, <3>4
  <2> QED  BY <2>5, <2>6
<1>2. Max(T) \in T /\ \A n \in T : Max(T) >= n
  BY <1>1 DEF Max
<1> QED  BY <1>2

(* The places up to n without the last one are those up to n - 1. *)
LEMMA LastPlace ==
  ASSUME NEW n \in Nat, n # 0
  PROVE  Max(1..n) = n /\ (1..n) \ {n} = 1..(n - 1)
<1>1. IsFiniteSet(1..n) /\ 1..n \subseteq Nat /\ n \in 1..n
  BY FS_Interval
<1>2. Max(1..n) \in 1..n /\ n <= Max(1..n)
  BY <1>1, GreatestOf
<1> QED  BY <1>2

(* g is the recursion behind a fold: what the last place does, F says. *)
Folding(g, F, base, N) ==
  \A s \in SUBSET (1..N) : g[s] = IF s = {} THEN base ELSE F[Max(s)][g[s \ {Max(s)}]]

(* The recursion behind a fold over N places has a solution, where every   *)
(* step stays in some set A. *)
LEMMA FoldSolves ==
  ASSUME NEW N \in Nat, NEW A, NEW base \in A, NEW F \in [1..N -> [A -> A]]
  PROVE  \E g \in [SUBSET (1..N) -> A] : Folding(g, F, base, N)
<1> DEFINE S == 1..N
           Small(k) == {s \in SUBSET S : Cardinality(s) <= k}
           Step(g, s) == IF s = {} THEN base ELSE F[Max(s)][g[s \ {Max(s)}]]
           Solved(k) == \E g \in [Small(k) -> A] : \A s \in Small(k) : g[s] = Step(g, s)
           Bad == {k \in Nat : ~Solved(k)}
<1>0. IsFiniteSet(S) /\ S \subseteq Nat
  BY FS_Interval
<1>1. \A s \in SUBSET S : IsFiniteSet(s) /\ Cardinality(s) \in Nat
  BY <1>0, FS_Subset, FS_CardinalityType
<1>2. Solved(0)
  <2> DEFINE g == [s \in Small(0) |-> base]
  <2>1. \A s \in Small(0) : s = {}
    BY <1>1, FS_EmptySet
  <2>2. g \in [Small(0) -> A] /\ \A s \in Small(0) : g[s] = Step(g, s)
    BY <2>1
  <2> QED  BY <2>2
<1>3. ASSUME NEW k \in Nat, Solved(k)
      PROVE  Solved(k + 1)
  <2>1. PICK g \in [Small(k) -> A] : \A s \in Small(k) : g[s] = Step(g, s)
    BY <1>3
  <2> DEFINE h == [s \in Small(k + 1) |-> Step(g, s)]
  <2>2. ASSUME NEW s \in Small(k + 1), s # {}
        PROVE  Max(s) \in S /\ s \ {Max(s)} \in Small(k)
    <3>1. Max(s) \in s
      BY <1>0, <1>1, <2>2, GreatestOf
    <3>2. s \in SUBSET S /\ Cardinality(s) <= k + 1
      OBVIOUS
    <3>3. s \ {Max(s)} \in SUBSET S /\ Cardinality(s) \in Nat /\ Cardinality(s \ {Max(s)}) \in Nat
          /\ Cardinality(s \ {Max(s)}) = Cardinality(s) - 1
      BY <1>0, <3>1, <3>2, TakenOut, Zenon
    <3>4. Cardinality(s \ {Max(s)}) <= k
      BY <3>2, <3>3
    <3> QED  BY <3>1, <3>2, <3>3, <3>4, Zenon
  <2>3. h \in [Small(k + 1) -> A]
    BY <2>1, <2>2
  <2>4. \A s \in Small(k) : s \in Small(k + 1) /\ h[s] = g[s]
    <3>1. \A s \in Small(k) : s \in Small(k + 1)
      BY <1>1
    <3>2. \A s \in Small(k) : h[s] = Step(g, s)
      BY <3>1
    <3> QED  BY <2>1, <3>1, <3>2
  <2>5. \A s \in Small(k + 1) : h[s] = Step(h, s)
    BY <2>2, <2>4
  <2> QED  BY <2>3, <2>5
<1>4. Bad = {}
  <2> HIDE DEF Solved
  <2>1. SUFFICES ASSUME Bad # {} PROVE FALSE
    OBVIOUS
  <2>2. PICK m \in Bad : \A k \in Bad : m <= k
    BY <2>1, LeastOf
  <2>3. m # 0 /\ m - 1 \in Nat /\ m - 1 \notin Bad /\ m = (m - 1) + 1
    BY <1>2, <2>2
  <2> QED  BY <1>3, <2>2, <2>3
<1>5. PICK g \in [Small(N) -> A] : \A s \in Small(N) : g[s] = Step(g, s)
  BY <1>4
<1>6. Small(N) = SUBSET S
  <2>1. Cardinality(S) = N
    BY FS_Interval
  <2>2. ASSUME NEW s \in SUBSET S PROVE Cardinality(s) <= N
    <3>1. Cardinality(s) <= Cardinality(S)
      BY <1>0, FS_Subset
    <3> QED  BY <2>1, <3>1
  <2> QED  BY <2>2
<1> QED  BY <1>5, <1>6 DEF Folding

(* Taking the greatest of some places leaves places. *)
LEMMA PlacesLeft ==
  ASSUME NEW N \in Nat, NEW p \in SUBSET (1..N), p # {}
  PROVE  Max(p) \in 1..N /\ p \ {Max(p)} \in SUBSET (1..N)
<1>1. IsFiniteSet(p) /\ p \subseteq Nat
  <2>1. IsFiniteSet(1..N) /\ 1..N \subseteq Nat
    BY FS_Interval
  <2> QED  BY <2>1, FS_Subset
<1>2. Max(p) \in p
  BY <1>1, GreatestOf
<1> QED  BY <1>2

(* What every step of a fold takes from one set of values to the next, the *)
(* fold takes from the first to the last. *)
LEMMA FoldKeeps ==
  ASSUME NEW N \in Nat, NEW I, NEW g, g[1..0] \in I[0],
         \A n \in 1..N : g[1..(n - 1)] \in I[n - 1] => g[1..n] \in I[n]
  PROVE  g[1..N] \in I[N]
<1> DEFINE B == {n \in 0..N : g[1..n] \notin I[n]}
<1>1. SUFFICES ASSUME B # {} PROVE FALSE
  OBVIOUS
<1>2. PICK m \in B : \A n \in B : m <= n
  <2>1. B \subseteq Nat
    OBVIOUS
  <2> QED  BY <1>1, <2>1, LeastOf
<1>3. m # 0
  BY <1>2
<1>4. m - 1 \in 0..N /\ m - 1 \notin B
  BY <1>2, <1>3
<1> QED  BY <1>2, <1>3, <1>4

(* A sum may be taken part by part. *)
LEMMA SumByParts ==
  ASSUME NEW D, NEW f, Summable(f, D), NEW V, IsFiniteSet(V), NEW F, NEW h,
         \A v \in V : F[v] \in SUBSET D /\ h[v] = SumOf(f, F[v]),
         \A v, w \in V : v # w => F[v] \cap F[w] = {}
  PROVE  /\ Summable(h, V)
         /\ SumOf(f, UNION {F[v] : v \in V}) = SumOf(h, V)
<1> DEFINE U(s) == UNION {F[v] : v \in s}
           B == {s \in SUBSET V : SumOf(f, U(s)) # SumOf(h, s)}
<1>1. \A T \in SUBSET D : Summable(f, T) /\ SumOf(f, T) \in Int
  BY FS_Subset, SumOne DEF Summable
<1>2. Summable(h, V)
  BY <1>1 DEF Summable
<1>3. B = {}
  <2>1. SUFFICES ASSUME B # {} PROVE FALSE
    OBVIOUS
  <2>2. PICK s \in B : \A t \in SUBSET V : Cardinality(t) < Cardinality(s) => t \notin B
    <3>1. B \subseteq SUBSET V
      OBVIOUS
    <3> HIDE DEF B
    <3> QED  BY <2>1, <3>1, SmallestOf
  <2>3. s \in SUBSET V /\ IsFiniteSet(s) /\ Summable(h, s)
    BY <1>2, FS_Subset DEF Summable
  <2>4. s # {}
    <3>1. SUFFICES ASSUME s = {} PROVE FALSE
      OBVIOUS
    <3>2. U(s) = {} /\ Summable(f, {}) /\ Summable(h, {})
      BY <1>1, <2>3, <3>1
    <3>3. SumOf(f, {}) = 0 /\ SumOf(h, {}) = 0
      BY <3>2, SumOne
    <3> QED  BY <2>2, <3>1, <3>2, <3>3
  <2>5. PICK v \in s : TRUE
    BY <2>4
  <2> DEFINE t == s \ {v}
  <2>6. t \in SUBSET V /\ Cardinality(t) < Cardinality(s)
    BY <2>3, <2>5, TakenOut
  <2>7. SumOf(f, U(t)) = SumOf(h, t)
    BY <2>2, <2>6
  <2>8. SumOf(h, s) = h[v] + SumOf(h, t)
    BY <2>3, <2>5, SumOne
  <2>9. U(s) = F[v] \cup U(t) /\ F[v] \in SUBSET D /\ U(t) \in SUBSET D /\ F[v] \cap U(t) = {}
    BY <2>3, <2>5
  <2>10. SumOf(f, U(s)) = SumOf(f, F[v]) + SumOf(f, U(t))
    <3> HIDE DEF U, t
    <3> QED  BY <2>9, SumApart
  <2>11. h[v] = SumOf(f, F[v])
    BY <2>3, <2>5
  <2> QED  BY <2>2, <2>7, <2>8, <2>10, <2>11
<1> QED  BY <1>2, <1>3
=============================================================================
