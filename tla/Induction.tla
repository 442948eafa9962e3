------------------------------ MODULE Induction ------------------------------
(***************************************************************************)
(* What the proofs of the other modules need of induction: over a set of   *)
(* natural numbers, over the subsets of a finite set, and from these what  *)
(* a function defined by recursion, a power of two and a sum over a finite *)
(* set are.  Induction is stated with a set T of the things the claim is   *)
(* true of, for which a predicate would have to be a parameter.  Facts     *)
(* that are used as hypotheses are wrapped in operators, and expanded      *)
(* where they are used.                                                    *)
(***************************************************************************)
EXTENDS Powers, Integers, FiniteSets, Functions, FiniteSetTheorems,
        NaturalsInduction, WellFoundedInduction, TLAPS

(* Induction: what holds of 0, and of n + 1 if of n, holds of every number. *)
LEMMA NatSet ==
    ASSUME NEW T, 0 \in T, \A n \in Nat : n \in T => n + 1 \in T
    PROVE  \A n \in Nat : n \in T
<1> DEFINE missing == {n \in Nat : n \notin T}
<1>1. SUFFICES ASSUME missing # {} PROVE FALSE
  OBVIOUS
<1>2. PICK x \in missing : \A y \in missing : ~(<<y, x>> \in OpToRel(<, Nat))
  <2>1. missing \subseteq Nat
    OBVIOUS
  <2> QED
    BY <1>1, <2>1, NatLessThanWellFounded, WFMin
<1>3. x # 0 /\ x \in Nat /\ x \notin T
  OBVIOUS
<1>4. x - 1 \in Nat /\ x - 1 < x /\ (x - 1) + 1 = x
  BY <1>3
<1>5. <<x - 1, x>> \in OpToRel(<, Nat)
  BY <1>3, <1>4 DEF OpToRel
<1>6. x - 1 \notin missing
  BY <1>2, <1>5
<1>7. x - 1 \in T
  BY <1>4, <1>6
<1> QED
  BY <1>3, <1>4, <1>7

-----------------------------------------------------------------------------

(* Functions defined by recursion on Nat, from their first values on.       *)

(* h is what the recursion gives for 0 .. n. *)
Starts(h, n, V, base, step) ==
    /\ h \in [0 .. n -> V] /\ h[0] = base
    /\ \A m \in 0 .. n - 1 : h[m + 1] = step[<<m, h[m]>>]

(* f is what the recursion gives for all of Nat. *)
IsRecursion(f, V, base, step) ==
    /\ f \in [Nat -> V] /\ f[0] = base
    /\ \A n \in Nat : f[n + 1] = step[<<n, f[n]>>]

(* step takes n and the value at n to the value at n + 1. *)
IsStep(step, V) == step \in [Nat \X V -> V]

(* g and h have the same value at i. *)
AgreeAt(g, h, i) == g[i] = h[i]

(* A start of the recursion can be made one longer. *)
LEMMA StartGrows ==
    ASSUME NEW V, NEW base \in V, NEW step, IsStep(step, V),
           NEW n \in Nat, NEW h, Starts(h, n, V, base, step)
    PROVE  \E g : Starts(g, n + 1, V, base, step)
<1> DEFINE g == [m \in 0 .. n + 1 |-> IF m <= n THEN h[m] ELSE step[<<n, h[n]>>]]
<1>1. h \in [0 .. n -> V] /\ h[0] = base
  BY DEF Starts
<1>2. g \in [0 .. n + 1 -> V] /\ g[0] = base
  <2>1. step[<<n, h[n]>>] \in V
    BY <1>1 DEF IsStep
  <2> QED
    BY <1>1, <2>1
<1>3. ASSUME NEW m \in 0 .. (n + 1) - 1 PROVE g[m + 1] = step[<<m, g[m]>>]
  <2>1. CASE m = n
    <3>1. g[n + 1] = step[<<n, h[n]>>] /\ g[n] = h[n]
      OBVIOUS
    <3> QED
      BY <2>1, <3>1
  <2>2. CASE m # n
    <3>1. g[m + 1] = h[m + 1] /\ g[m] = h[m] /\ m \in 0 .. n - 1
      BY <2>2
    <3> QED
      BY <3>1 DEF Starts
  <2> QED
    BY <2>1, <2>2
<1> HIDE DEF g
<1> QED
  BY <1>2, <1>3 DEF Starts

(* Two starts of the recursion agree as far as the shorter one goes. *)
LEMMA StartsAgree ==
    ASSUME NEW V, NEW base \in V, NEW step, IsStep(step, V),
           NEW i \in Nat, NEW j \in Nat, i <= j,
           NEW g, Starts(g, i, V, base, step), NEW h, Starts(h, j, V, base, step)
    PROVE  AgreeAt(g, h, i)
<1> DEFINE U == {m \in Nat : m <= i => g[m] = h[m]}
<1>1. 0 \in U
  BY DEF Starts
<1>2. ASSUME NEW m \in Nat, m \in U PROVE m + 1 \in U
  <2>1. CASE m + 1 <= i
    <3>1. m \in 0 .. i - 1 /\ m \in 0 .. j - 1 /\ g[m] = h[m]
      BY <1>2, <2>1
    <3>2. g[m + 1] = h[m + 1]
      BY <3>1 DEF Starts
    <3> QED
      BY <3>2
  <2> QED
    BY <2>1
<1>3. i \in U
  <2> HIDE DEF U
  <2> QED
    BY <1>1, <1>2, NatSet
<1> QED
  BY <1>3 DEF AgreeAt

(* There is a function of which all the values are those of the recursion. *)
LEMMA Recursion ==
    ASSUME NEW V, NEW base \in V, NEW step, IsStep(step, V)
    PROVE  \E f : IsRecursion(f, V, base, step)
<1> DEFINE T == {n \in Nat : \E h : Starts(h, n, V, base, step)}
<1>1. 0 \in T
  <2>1. Starts([m \in 0 .. 0 |-> base], 0, V, base, step)
    BY DEF Starts
  <2> QED
    BY <2>1
<1>2. ASSUME NEW n \in Nat, n \in T PROVE n + 1 \in T
  <2>1. PICK h : Starts(h, n, V, base, step)
    BY <1>2
  <2>2. \E g : Starts(g, n + 1, V, base, step)
    BY <2>1, StartGrows
  <2> QED
    BY <2>2
<1>3. \A n \in Nat : n \in T
  <2> HIDE DEF T
  <2> QED
    BY <1>1, <1>2, NatSet
<1> DEFINE pick == [n \in Nat |-> CHOOSE h : Starts(h, n, V, base, step)]
           f == [n \in Nat |-> pick[n][n]]
<1>4. \A n \in Nat : Starts(pick[n], n, V, base, step)
  BY <1>3
<1> HIDE DEF pick, T
<1>5. f \in [Nat -> V] /\ f[0] = base
  BY <1>4 DEF Starts
<1>6. ASSUME NEW n \in Nat PROVE f[n + 1] = step[<<n, f[n]>>]
  <2>1. pick[n][n] = pick[n + 1][n]
    <3>1. n + 1 \in Nat /\ n <= n + 1
      OBVIOUS
    <3>2. Starts(pick[n], n, V, base, step) /\ Starts(pick[n + 1], n + 1, V, base, step)
      BY <1>4, <3>1
    <3>3. AgreeAt(pick[n], pick[n + 1], n)
      BY <3>1, <3>2, StartsAgree
    <3> QED
      BY <3>3 DEF AgreeAt
  <2>2. pick[n + 1][n + 1] = step[<<n, pick[n + 1][n]>>]
    BY <1>4 DEF Starts
  <2> QED
    BY <2>1, <2>2
<1> HIDE DEF f
<1> QED
  BY <1>5, <1>6 DEF IsRecursion

(* f satisfies the definition of TwoTo. *)
IsTwoTo(f) == f = [n \in Nat |-> IF n = 0 THEN 1 ELSE 2 * f[n - 1]]

(* TwoTo is what its definition says, and never 0. *)
LEMMA TwoToRec ==
    /\ TwoTo \in [Nat -> Nat \ {0}]
    /\ TwoTo[0] = 1
    /\ \A n \in Nat : TwoTo[n + 1] = 2 * TwoTo[n]
<1> DEFINE Pos == Nat \ {0}
           step == [p \in Nat \X Pos |-> 2 * p[2]]
<1>1. IsStep(step, Pos) /\ 1 \in Pos
  BY DEF IsStep
<1>2. PICK f : IsRecursion(f, Pos, 1, step)
  <2> HIDE DEF step, Pos
  <2> QED
    BY <1>1, Recursion
<1>3. ASSUME NEW n \in Nat \ {0} PROVE f[n] = 2 * f[n - 1]
  <2>1. n - 1 \in Nat /\ (n - 1) + 1 = n
    OBVIOUS
  <2>2. f[n] = step[<<n - 1, f[n - 1]>>]
    BY <1>2, <2>1 DEF IsRecursion
  <2>3. f[n - 1] \in Pos
    BY <1>2, <2>1 DEF IsRecursion
  <2> QED
    BY <2>1, <2>2, <2>3
<1>4. IsTwoTo(f)
  BY <1>2, <1>3 DEF IsTwoTo, IsRecursion
<1>5. IsTwoTo(TwoTo)
  <2>1. IsTwoTo(CHOOSE g : IsTwoTo(g))
    BY <1>4
  <2> QED
    BY <2>1 DEF TwoTo, IsTwoTo
<1>6. \A n \in Nat : TwoTo[n] = IF n = 0 THEN 1 ELSE 2 * TwoTo[n - 1]
  BY <1>5 DEF IsTwoTo
<1>7. TwoTo = f
  <2> DEFINE U == {n \in Nat : TwoTo[n] = f[n]}
  <2>1. 0 \in U
    BY <1>2, <1>6 DEF IsRecursion
  <2>2. ASSUME NEW n \in Nat, n \in U PROVE n + 1 \in U
    BY <1>3, <1>6, <2>2
  <2>3. \A n \in Nat : n \in U
    <3> HIDE DEF U
    <3> QED
      BY <2>1, <2>2, NatSet
  <2> QED
    BY <1>4, <1>5, <2>3 DEF IsTwoTo
<1> QED
  BY <1>2, <1>6, <1>7 DEF IsRecursion

(* 2^n grows with n, *)
LEMMA TwoToGrows ==
    ASSUME NEW i \in Nat, NEW j \in Nat, i <= j
    PROVE  TwoTo[i] <= TwoTo[j]
<1> DEFINE U == {n \in Nat : i <= n => TwoTo[i] <= TwoTo[n]}
<1>1. 0 \in U
  BY TwoToRec
<1>2. ASSUME NEW n \in Nat, n \in U PROVE n + 1 \in U
  <2>1. TwoTo[i] \in Nat /\ TwoTo[n] \in Nat /\ TwoTo[n + 1] = 2 * TwoTo[n]
    BY TwoToRec
  <2>2. CASE i <= n
    BY <1>2, <2>1, <2>2
  <2>3. CASE i > n
    <3>1. i <= n + 1 => i = n + 1
      BY <2>3
    <3>2. TwoTo[n + 1] <= TwoTo[n + 1]
      BY <2>1
    <3> QED
      BY <3>1, <3>2
  <2> QED
    BY <2>2, <2>3
<1>3. \A n \in Nat : n \in U
  <2> HIDE DEF U
  <2> QED
    BY <1>1, <1>2, NatSet
<1> QED
  BY <1>3

(* so that below a power of two there is room for another doubling. *)
LEMMA RoomToDouble ==
    ASSUME NEW i \in Nat, NEW j \in Nat, TwoTo[i] < TwoTo[j]
    PROVE  2 * TwoTo[i] <= TwoTo[j]
<1>1. TwoTo[i] \in Nat /\ TwoTo[j] \in Nat /\ TwoTo[i + 1] = 2 * TwoTo[i]
  BY TwoToRec
<1>2. CASE i + 1 <= j
  BY <1>1, <1>2, TwoToGrows
<1>3. CASE ~(i + 1 <= j)
  <2>1. TwoTo[j] <= TwoTo[i]
    BY <1>3, TwoToGrows
  <2> QED
    BY <1>1, <2>1
<1> QED
  BY <1>2, <1>3

-----------------------------------------------------------------------------

(* Subsets of a finite set, and sums over them. *)

(* The element that a fold over s takes first. *)
Pick(s) == CHOOSE x \in s : TRUE

(* A set that is not empty has the element picked. *)
LEMMA PickIn ==
    ASSUME NEW s, s # {}
    PROVE  Pick(s) \in s
BY DEF Pick

(* Without it the set is a smaller subset. *)
LEMMA SmallerSubset ==
    ASSUME NEW S, IsFiniteSet(S), NEW s \in SUBSET S, s # {}
    PROVE  /\ Cardinality(s) \in Nat /\ Cardinality(s) # 0
           /\ s \ {Pick(s)} \in SUBSET S
           /\ Cardinality(s \ {Pick(s)}) = Cardinality(s) - 1
<1>1. IsFiniteSet(s)
  BY FS_Subset
<1>2. Cardinality(s) \in Nat /\ Cardinality(s) # 0
  BY <1>1, FS_CardinalityType, FS_EmptySet
<1>3. Cardinality(s \ {Pick(s)}) = Cardinality(s) - 1
  BY <1>1, PickIn, FS_RemoveElement
<1> QED
  BY <1>2, <1>3

(* Induction over the subsets of a finite set: what holds of {}, and of s   *)
(* if of s without the element picked, holds of every subset.               *)
LEMMA FiniteInduction ==
    ASSUME NEW S, IsFiniteSet(S), NEW T, {} \in T,
           \A s \in SUBSET S : s # {} /\ s \ {Pick(s)} \in T => s \in T
    PROVE  \A s \in SUBSET S : s \in T
<1> DEFINE U == {n \in Nat : \A s \in SUBSET S : Cardinality(s) = n => s \in T}
<1>1. 0 \in U
  <2>1. ASSUME NEW s \in SUBSET S, Cardinality(s) = 0 PROVE s \in T
    <3>1. s = {}
      BY <2>1, FS_Subset, FS_EmptySet
    <3> QED
      BY <3>1
  <2> QED
    BY <2>1
<1>2. ASSUME NEW n \in Nat, n \in U PROVE n + 1 \in U
  <2>1. ASSUME NEW s \in SUBSET S, Cardinality(s) = n + 1 PROVE s \in T
    <3>1. s # {}
      BY <2>1, FS_EmptySet
    <3>2. s \ {Pick(s)} \in SUBSET S /\ Cardinality(s \ {Pick(s)}) = n
      BY <2>1, <3>1, SmallerSubset
    <3>3. s \ {Pick(s)} \in T
      BY <1>2, <3>2
    <3> QED
      BY <3>1, <3>3
  <2> QED
    BY <2>1
<1>3. \A n \in Nat : n \in U
  <2> HIDE DEF U
  <2> QED
    BY <1>1, <1>2, NatSet
<1>4. ASSUME NEW s \in SUBSET S PROVE s \in T
  <2>1. Cardinality(s) \in Nat
    BY FS_Subset, FS_CardinalityType
  <2> QED
    BY <1>3, <2>1
<1> QED
  BY <1>4

(* t[s] is the sum of f over s, for the members of D. *)
Sums(t, f, D) ==
    t = [s \in D |-> IF s = {} THEN 0 ELSE f[Pick(s)] + t[s \ {Pick(s)}]]

(* Sums over the sets of up to n elements give those of up to n + 1. *)
LEMMA SumsGrow ==
    ASSUME NEW S, IsFiniteSet(S), NEW f, NEW n \in Nat,
           NEW t, Sums(t, f, {s \in SUBSET S : Cardinality(s) <= n})
    PROVE  \E u : Sums(u, f, {s \in SUBSET S : Cardinality(s) <= n + 1})
<1> DEFINE D == {s \in SUBSET S : Cardinality(s) <= n}
           E == {s \in SUBSET S : Cardinality(s) <= n + 1}
           Next(s) == IF s = {} THEN 0 ELSE f[Pick(s)] + t[s \ {Pick(s)}]
           u == [s \in E |-> Next(s)]
<1>1. \A s \in D : t[s] = Next(s)
  BY DEF Sums
<1>2. \A s \in E : s # {} => s \ {Pick(s)} \in D
  <2>1. ASSUME NEW s \in E, s # {} PROVE s \ {Pick(s)} \in D
    <3>1. /\ Cardinality(s) \in Nat /\ s \ {Pick(s)} \in SUBSET S
          /\ Cardinality(s \ {Pick(s)}) = Cardinality(s) - 1
      BY <2>1, SmallerSubset
    <3>2. Cardinality(s) <= n + 1
      OBVIOUS
    <3>3. Cardinality(s \ {Pick(s)}) <= n
      BY <3>1, <3>2
    <3> QED
      BY <3>1, <3>3
  <2> QED
    BY <2>1
<1>3. \A s \in D : s \in E
  <2>1. ASSUME NEW s \in D PROVE Cardinality(s) <= n + 1
    <3>1. Cardinality(s) \in Nat /\ Cardinality(s) <= n
      BY FS_Subset, FS_CardinalityType
    <3> QED
      BY <3>1
  <2> QED
    BY <2>1
<1> HIDE DEF D, E
<1>4. \A s \in D : u[s] = t[s]
  BY <1>1, <1>3
<1>5. u = [s \in E |-> IF s = {} THEN 0 ELSE f[Pick(s)] + u[s \ {Pick(s)}]]
  <2>1. \A s \in E : u[s] = IF s = {} THEN 0 ELSE f[Pick(s)] + u[s \ {Pick(s)}]
    BY <1>2, <1>4
  <2> QED
    BY <2>1
<1>6. Sums(u, f, E)
  <2> HIDE DEF u
  <2> QED
    BY <1>5 DEF Sums
<1> QED
  BY <1>6 DEF E

(* There are sums over all subsets of a finite set. *)
LEMMA SumsExist ==
    ASSUME NEW S, IsFiniteSet(S), NEW f
    PROVE  \E t : Sums(t, f, SUBSET S)
<1> DEFINE D(n) == {s \in SUBSET S : Cardinality(s) <= n}
           T == {n \in Nat : \E t : Sums(t, f, D(n))}
<1>1. 0 \in T
  <2> DEFINE t == [s \in {{}} |-> 0]
  <2>1. D(0) = {{}}
    <3>1. ASSUME NEW s \in SUBSET S, Cardinality(s) <= 0 PROVE s = {}
      <4>1. IsFiniteSet(s) /\ Cardinality(s) \in Nat
        BY FS_Subset, FS_CardinalityType
      <4> QED
        BY <3>1, <4>1, FS_EmptySet
    <3> QED
      BY <3>1, FS_EmptySet
  <2>2. t = [s \in {{}} |-> IF s = {} THEN 0 ELSE f[Pick(s)] + t[s \ {Pick(s)}]]
    OBVIOUS
  <2>3. Sums(t, f, {{}})
    <3> HIDE DEF t
    <3> QED
      BY <2>2 DEF Sums
  <2>4. Sums(t, f, D(0))
    BY <2>1, <2>3
  <2> QED
    BY <2>4
<1>2. ASSUME NEW n \in Nat, n \in T PROVE n + 1 \in T
  <2>1. PICK t : Sums(t, f, D(n))
    BY <1>2
  <2>2. \E u : Sums(u, f, D(n + 1))
    BY <2>1, SumsGrow
  <2> QED
    BY <2>2
<1>3. \A n \in Nat : n \in T
  <2> HIDE DEF T
  <2> QED
    BY <1>1, <1>2, NatSet
<1>4. PICK t : Sums(t, f, D(Cardinality(S)))
  BY <1>3, FS_CardinalityType
<1>5. D(Cardinality(S)) = SUBSET S
  BY FS_Subset
<1> QED
  BY <1>4, <1>5

(* SumFunctionOnSet is such a sum. *)
LEMMA SumIs ==
    ASSUME NEW S, IsFiniteSet(S), NEW f
    PROVE  \E t : Sums(t, f, SUBSET S) /\ SumFunctionOnSet(f, S) = t[S]
<1> DEFINE t == CHOOSE u : Sums(u, f, SUBSET S)
<1>1. Sums(t, f, SUBSET S)
  BY SumsExist
<1>2. SumFunctionOnSet(f, S) = t[S]
  BY DEF SumFunctionOnSet, FoldFunctionOnSet, MapThenFoldSet, Sums, Pick
<1> QED
  BY <1>1, <1>2

(* The sum over s is made from that over the rest. *)
AddsPicked(t, f, s) == t[s] = f[Pick(s)] + t[s \ {Pick(s)}]

(* The sum over no element is 0. *)
LEMMA SumsEmpty ==
    ASSUME NEW S, NEW f, NEW t, Sums(t, f, SUBSET S)
    PROVE  t[{}] = 0
BY DEF Sums

(* A sum over some is the element picked and the sum over the rest. *)
LEMMA SumsStep ==
    ASSUME NEW S, NEW f, NEW t, Sums(t, f, SUBSET S), NEW s \in SUBSET S, s # {}
    PROVE  AddsPicked(t, f, s)
BY DEF Sums, AddsPicked

(* Sums of integers are integers. *)
LEMMA SumsTyped ==
    ASSUME NEW S, IsFiniteSet(S), NEW f \in [S -> Int], NEW t, Sums(t, f, SUBSET S)
    PROVE  \A s \in SUBSET S : t[s] \in Int
<1> DEFINE T == {s \in SUBSET S : t[s] \in Int}
<1>1. {} \in T
  BY SumsEmpty
<1>2. ASSUME NEW s \in SUBSET S, s # {}, s \ {Pick(s)} \in T PROVE s \in T
  <2>1. Pick(s) \in S
    BY <1>2, PickIn
  <2>2. t[s] = f[Pick(s)] + t[s \ {Pick(s)}]
    BY <1>2, SumsStep DEF AddsPicked
  <2> QED
    BY <1>2, <2>1, <2>2
<1>3. \A s \in SUBSET S : s \in T
  <2> HIDE DEF T
  <2> QED
    BY <1>1, <1>2, FiniteInduction
<1> QED
  BY <1>3

(* The sum of integers over a finite set is an integer. *)
LEMMA SumType ==
    ASSUME NEW S, IsFiniteSet(S), NEW f \in [S -> Int]
    PROVE  SumFunctionOnSet(f, S) \in Int
<1>1. PICK t : Sums(t, f, SUBSET S) /\ SumFunctionOnSet(f, S) = t[S]
  BY SumIs
<1> QED
  BY <1>1, SumsTyped

(* The sum of no larger numbers is no larger. *)
LEMMA SumMonotone ==
    ASSUME NEW S, IsFiniteSet(S), NEW f \in [S -> Int], NEW g \in [S -> Int],
           \A x \in S : f[x] <= g[x]
    PROVE  SumFunctionOnSet(f, S) <= SumFunctionOnSet(g, S)
<1>1. PICK t : Sums(t, f, SUBSET S) /\ SumFunctionOnSet(f, S) = t[S]
  BY SumIs
<1>2. PICK u : Sums(u, g, SUBSET S) /\ SumFunctionOnSet(g, S) = u[S]
  BY SumIs
<1>3. \A s \in SUBSET S : t[s] \in Int /\ u[s] \in Int
  BY <1>1, <1>2, SumsTyped
<1> DEFINE T == {s \in SUBSET S : t[s] <= u[s]}
<1>4. {} \in T
  BY <1>1, <1>2, SumsEmpty
<1>5. ASSUME NEW s \in SUBSET S, s # {}, s \ {Pick(s)} \in T PROVE s \in T
  <2>1. Pick(s) \in S
    BY <1>5, PickIn
  <2>2. AddsPicked(t, f, s) /\ AddsPicked(u, g, s)
    BY <1>1, <1>2, <1>5, SumsStep
  <2> QED
    BY <1>3, <1>5, <2>1, <2>2 DEF AddsPicked
<1>6. \A s \in SUBSET S : s \in T
  <2> HIDE DEF T
  <2> QED
    BY <1>4, <1>5, FiniteInduction
<1> QED
  BY <1>1, <1>2, <1>6

(* The sum of the sums. *)
LEMMA SumPlus ==
    ASSUME NEW S, IsFiniteSet(S), NEW f \in [S -> Int], NEW g \in [S -> Int],
           NEW h \in [S -> Int], \A x \in S : h[x] = f[x] + g[x]
    PROVE  SumFunctionOnSet(h, S) = SumFunctionOnSet(f, S) + SumFunctionOnSet(g, S)
<1>1. PICK t : Sums(t, f, SUBSET S) /\ SumFunctionOnSet(f, S) = t[S]
  BY SumIs
<1>2. PICK u : Sums(u, g, SUBSET S) /\ SumFunctionOnSet(g, S) = u[S]
  BY SumIs
<1>3. PICK v : Sums(v, h, SUBSET S) /\ SumFunctionOnSet(h, S) = v[S]
  BY SumIs
<1>4. \A s \in SUBSET S : t[s] \in Int /\ u[s] \in Int /\ v[s] \in Int
  BY <1>1, <1>2, <1>3, SumsTyped
<1> DEFINE T == {s \in SUBSET S : v[s] = t[s] + u[s]}
<1>5. {} \in T
  BY <1>1, <1>2, <1>3, SumsEmpty
<1>6. ASSUME NEW s \in SUBSET S, s # {}, s \ {Pick(s)} \in T PROVE s \in T
  <2>1. Pick(s) \in S
    BY <1>6, PickIn
  <2>2. AddsPicked(t, f, s) /\ AddsPicked(u, g, s) /\ AddsPicked(v, h, s)
    BY <1>1, <1>2, <1>3, <1>6, SumsStep
  <2> QED
    BY <1>4, <1>6, <2>1, <2>2 DEF AddsPicked
<1>7. \A s \in SUBSET S : s \in T
  <2> HIDE DEF T
  <2> QED
    BY <1>5, <1>6, FiniteInduction
<1> QED
  BY <1>1, <1>2, <1>3, <1>7

(* A common factor. *)
LEMMA SumTimes ==
    ASSUME NEW S, IsFiniteSet(S), NEW f \in [S -> Int], NEW k \in Int,
           NEW h \in [S -> Int], \A x \in S : h[x] = k * f[x]
    PROVE  SumFunctionOnSet(h, S) = k * SumFunctionOnSet(f, S)
<1>1. PICK t : Sums(t, f, SUBSET S) /\ SumFunctionOnSet(f, S) = t[S]
  BY SumIs
<1>2. PICK u : Sums(u, h, SUBSET S) /\ SumFunctionOnSet(h, S) = u[S]
  BY SumIs
<1>3. \A s \in SUBSET S : t[s] \in Int /\ u[s] \in Int
  BY <1>1, <1>2, SumsTyped
<1> DEFINE T == {s \in SUBSET S : u[s] = k * t[s]}
<1>4. {} \in T
  BY <1>1, <1>2, SumsEmpty
<1>5. ASSUME NEW s \in SUBSET S, s # {}, s \ {Pick(s)} \in T PROVE s \in T
  <2>1. Pick(s) \in S
    BY <1>5, PickIn
  <2>2. AddsPicked(t, f, s) /\ AddsPicked(u, h, s)
    BY <1>1, <1>2, <1>5, SumsStep
  <2>3. u[s] = k * f[Pick(s)] + k * t[s \ {Pick(s)}]
    BY <1>5, <2>1, <2>2 DEF AddsPicked
  <2>4. ASSUME NEW a \in Int, NEW b \in Int PROVE k * (a + b) = k * a + k * b
    OBVIOUS
  <2>5. f[Pick(s)] \in Int /\ t[s \ {Pick(s)}] \in Int
    BY <1>3, <2>1
  <2> QED
    BY <2>2, <2>3, <2>4, <2>5 DEF AddsPicked
<1>6. \A s \in SUBSET S : s \in T
  <2> HIDE DEF T
  <2> QED
    BY <1>4, <1>5, FiniteInduction
<1> QED
  BY <1>1, <1>2, <1>6

(* The sum of a constant counts the elements. *)
LEMMA SumConstant ==
    ASSUME NEW S, IsFiniteSet(S), NEW k \in Int, NEW h \in [S -> Int], \A x \in S : h[x] = k
    PROVE  SumFunctionOnSet(h, S) = k * Cardinality(S)
<1>1. PICK u : Sums(u, h, SUBSET S) /\ SumFunctionOnSet(h, S) = u[S]
  BY SumIs
<1>2. \A s \in SUBSET S : u[s] \in Int /\ Cardinality(s) \in Nat
  BY <1>1, SumsTyped, FS_Subset, FS_CardinalityType
<1> DEFINE T == {s \in SUBSET S : u[s] = k * Cardinality(s)}
<1>3. {} \in T
  BY <1>1, SumsEmpty, FS_EmptySet
<1>4. ASSUME NEW s \in SUBSET S, s # {}, s \ {Pick(s)} \in T PROVE s \in T
  <2>1. Pick(s) \in S
    BY <1>4, PickIn
  <2>2. u[s] = k + u[s \ {Pick(s)}]
    <3>1. AddsPicked(u, h, s)
      BY <1>1, <1>4, SumsStep
    <3> QED
      BY <2>1, <3>1 DEF AddsPicked
  <2>3. Cardinality(s) = 1 + Cardinality(s \ {Pick(s)}) /\ Cardinality(s \ {Pick(s)}) \in Nat
    BY <1>2, <1>4, SmallerSubset
  <2>4. u[s \ {Pick(s)}] = k * Cardinality(s \ {Pick(s)})
    BY <1>4
  <2>5. ASSUME NEW a \in Nat PROVE k * (1 + a) = k + k * a
    OBVIOUS
  <2>6. u[s] = k * Cardinality(s)
    BY <2>2, <2>3, <2>4, <2>5
  <2> QED
    BY <2>6
<1>5. \A s \in SUBSET S : s \in T
  <2> HIDE DEF T
  <2> QED
    BY <1>3, <1>4, FiniteInduction
<1> QED
  BY <1>1, <1>5

(* The first n values of a recursion. *)
LEMMA SomeStart ==
    ASSUME NEW V, NEW base \in V, NEW step, IsStep(step, V), NEW n \in Nat
    PROVE  \E h : Starts(h, n, V, base, step)
<1> DEFINE T == {m \in Nat : \E h : Starts(h, m, V, base, step)}
<1>1. 0 \in T
  <2>1. Starts([m \in 0 .. 0 |-> base], 0, V, base, step)
    BY DEF Starts
  <2> QED
    BY <2>1
<1>2. ASSUME NEW m \in Nat, m \in T PROVE m + 1 \in T
  <2>1. PICK h : Starts(h, m, V, base, step)
    BY <1>2
  <2>2. \E g : Starts(g, m + 1, V, base, step)
    BY <2>1, StartGrows
  <2> QED
    BY <2>2
<1>3. n \in T
  <2> HIDE DEF T
  <2> QED
    BY <1>1, <1>2, NatSet
<1> QED
  BY <1>3

(* A set of numbers up to n that is not empty has a last one. *)
LEMMA LastMember ==
    ASSUME NEW n \in Nat, NEW S \in SUBSET (1 .. n), S # {}
    PROVE  \E i \in S : \A j \in i + 1 .. n : j \notin S
<1> DEFINE T == {m \in Nat : m <= n /\ (\E i \in S : i > n - m) => \E i \in S : \A j \in i + 1 .. n : j \notin S}
<1>1. 0 \in T
  OBVIOUS
<1>2. ASSUME NEW m \in Nat, m \in T PROVE m + 1 \in T
  <2> SUFFICES ASSUME m + 1 <= n, NEW i \in S, i > n - (m + 1)
               PROVE  \E l \in S : \A j \in l + 1 .. n : j \notin S
    OBVIOUS
  <2>1. CASE \E l \in S : l > n - m
    BY <1>2, <2>1
  <2>2. CASE ~ \E l \in S : l > n - m
    <3>1. i = n - m
      BY <2>2
    <3>2. \A j \in i + 1 .. n : j \notin S
      BY <2>2, <3>1
    <3> QED
      BY <3>2
  <2> QED
    BY <2>1, <2>2
<1>3. n \in T
  <2> HIDE DEF T
  <2> QED
    BY <1>1, <1>2, NatSet
<1>4. \E i \in S : i > n - n
  <2>1. PICK i \in S : TRUE
    OBVIOUS
  <2>2. i \in 1 .. n
    OBVIOUS
  <2> QED
    BY <2>2
<1> QED
  BY <1>3, <1>4

-----------------------------------------------------------------------------
(* What any sequence of rungs sells. *)

=============================================================================
