---------------------------- MODULE TickWalkProofs ----------------------------
(***************************************************************************)
(* Proofs about TickWalk, for any ranges and any bins that the             *)
(* constructors accept, any reference price, fixed cost and max_size, any  *)
(* amount that is quoted, and any rounding of the sum by at most one unit  *)
(* at a boundary.                                                          *)
(*                                                                         *)
(* A pool is a list of rungs, each a price and what can be sold at it.     *)
(* The first part says what a list of rungs sells (Taken) and where the    *)
(* gain over a reference price is greatest; the second finds the rungs of  *)
(* a piece, and what is held before it (Held); the third follows the two   *)
(* loops of the code from boundary to boundary.                            *)
(***************************************************************************)
EXTENDS TickWalk, Induction

Rung == [price : Nat, size : Nat]

IsUpTo(f, rungs) ==
    f = [n \in 0 .. Len(rungs) |-> IF n = 0 THEN 0 ELSE f[n - 1] + rungs[n].size]

(* What a list of rungs is. *)
LEMMA RungType ==
    ASSUME NEW rungs \in Seq(Rung)
    PROVE  /\ Len(rungs) \in Nat
           /\ \A n \in 1 .. Len(rungs) : rungs[n].price \in Nat /\ rungs[n].size \in Nat
<1>1. Len(rungs) \in Nat /\ \A n \in 1 .. Len(rungs) : rungs[n] \in Rung
  OBVIOUS
<1> QED
  BY <1>1 DEF Rung

(* UpTo is defined: it counts the units above each rung. *)
LEMMA UpToRec ==
    ASSUME NEW rungs \in Seq(Rung)
    PROVE  /\ UpTo(rungs) \in [0 .. Len(rungs) -> Nat]
           /\ UpTo(rungs)[0] = 0
           /\ \A n \in 1 .. Len(rungs) : UpTo(rungs)[n] = UpTo(rungs)[n - 1] + rungs[n].size
<1> DEFINE N == Len(rungs)
           size(n) == IF n \in 1 .. N THEN rungs[n].size ELSE 0
           step == [q \in Nat \X Nat |-> q[2] + size(q[1] + 1)]
<1>1. N \in Nat /\ \A n \in 1 .. N : rungs[n].size \in Nat
  BY RungType
<1>2. IsStep(step, Nat)
  BY <1>1 DEF IsStep
<1>3. PICK h : Starts(h, N, Nat, 0, step)
  <2> HIDE DEF step, N
  <2> QED
    BY <1>1, <1>2, SomeStart
<1>4. h \in [0 .. N -> Nat] /\ h[0] = 0
  BY <1>3 DEF Starts
<1>5. ASSUME NEW n \in 1 .. N PROVE h[n] = h[n - 1] + rungs[n].size
  <2>1. n - 1 \in 0 .. N - 1 /\ (n - 1) + 1 = n /\ n - 1 \in Nat
    BY <1>1
  <2>2. h[n] = step[<<n - 1, h[n - 1]>>]
    <3> HIDE DEF step
    <3>1. \A m \in 0 .. N - 1 : h[m + 1] = step[<<m, h[m]>>]
      BY <1>3 DEF Starts
    <3>2. h[(n - 1) + 1] = step[<<n - 1, h[n - 1]>>]
      BY <2>1, <3>1
    <3> QED
      BY <2>1, <3>2
  <2>3. h[n - 1] \in Nat
    <3>1. n - 1 \in 0 .. N
      BY <1>1
    <3> QED
      BY <1>4, <3>1
  <2>4. step[<<n - 1, h[n - 1]>>] = h[n - 1] + size((n - 1) + 1)
    BY <2>1, <2>3
  <2> QED
    BY <2>1, <2>2, <2>4
<1>6. IsUpTo(h, rungs)
  BY <1>1, <1>4, <1>5 DEF IsUpTo
<1>7. IsUpTo(UpTo(rungs), rungs)
  <2>1. IsUpTo(CHOOSE f : IsUpTo(f, rungs), rungs)
    BY <1>6
  <2> QED
    BY <2>1 DEF UpTo, IsUpTo
<1> DEFINE u == UpTo(rungs)
<1>8. /\ u[0] = 0 /\ DOMAIN u = 0 .. N
      /\ \A n \in 1 .. N : u[n] = u[n - 1] + rungs[n].size
  BY <1>1, <1>7 DEF IsUpTo
<1> DEFINE T == {n \in Nat : n <= N => u[n] \in Nat}
<1>9. \A n \in Nat : n \in T
  <2> HIDE DEF u
  <2>1. 0 \in T
    BY <1>8
  <2>2. ASSUME NEW n \in Nat, n \in T PROVE n + 1 \in T
    <3>1. CASE n + 1 <= N
      <4>1. n + 1 \in 1 .. N /\ (n + 1) - 1 = n
        BY <1>1, <3>1
      <4>2. u[n + 1] = u[n] + rungs[n + 1].size
        BY <1>8, <4>1
      <4>3. u[n] \in Nat /\ rungs[n + 1].size \in Nat
        BY <1>1, <2>2, <3>1, <4>1
      <4> QED
        BY <4>2, <4>3
    <3> QED
      BY <3>1
  <2> HIDE DEF T
  <2> QED
    BY <2>1, <2>2, NatSet
<1>10. u = [n \in 0 .. N |-> u[n]]
  BY <1>7 DEF IsUpTo
<1>11. \A n \in 0 .. N : u[n] \in Nat
  BY <1>1, <1>9
<1> HIDE DEF u
<1>12. u \in [0 .. N -> Nat]
  BY <1>10, <1>11
<1> QED
  BY <1>8, <1>12 DEF u

Balance == [left : Nat, out : Nat]

(* A rung takes what it can. *)
LEMMA TakeFacts ==
    ASSUME NEW rung \in Rung, NEW b \in Balance
    PROVE  /\ Take(rung, b) \in Balance
           /\ b.left <= rung.size =>
                 Take(rung, b).left = 0 /\ Take(rung, b).out = b.out + rung.price * b.left
           /\ b.left >= rung.size =>
                 /\ Take(rung, b).left = b.left - rung.size
                 /\ Take(rung, b).out = b.out + rung.price * rung.size
<1> DEFINE taken == Smaller(b.left, rung.size)
<1>1. rung.price \in Nat /\ rung.size \in Nat /\ b.left \in Nat /\ b.out \in Nat
  BY DEF Rung, Balance
<1>2. taken \in Nat /\ taken <= b.left
      /\ (b.left <= rung.size => taken = b.left) /\ (b.left >= rung.size => taken = rung.size)
  BY <1>1 DEF Smaller
<1>3. Take(rung, b) = [left |-> b.left - taken, out |-> b.out + rung.price * taken]
  BY DEF Take
<1> HIDE DEF taken
<1>4. rung.price * taken \in Nat
  BY <1>1, <1>2
<1>5. b.left - taken \in Nat /\ b.out + rung.price * taken \in Nat
  BY <1>1, <1>2, <1>4
<1>6. Take(rung, b).left = b.left - taken /\ Take(rung, b).out = b.out + rung.price * taken
  BY <1>3
<1>7. b.left - b.left = 0
  BY <1>1
<1> QED
  BY <1>2, <1>3, <1>5, <1>6, <1>7 DEF Balance

IsTaking(f, rungs, x) ==
    f = [n \in 0 .. Len(rungs) |-> IF n = 0 THEN [left |-> x, out |-> 0] ELSE Take(rungs[n], f[n - 1])]

(* Taking is defined: each rung takes from what the one before has left. *)
LEMMA TakingRec ==
    ASSUME NEW rungs \in Seq(Rung), NEW x \in Nat
    PROVE  /\ \A n \in 0 .. Len(rungs) : Taking(rungs, x)[n] \in Balance
           /\ Taking(rungs, x)[0] = [left |-> x, out |-> 0]
           /\ \A n \in 1 .. Len(rungs) : Taking(rungs, x)[n] = Take(rungs[n], Taking(rungs, x)[n - 1])
<1> DEFINE N == Len(rungs)
           start == [left |-> x, out |-> 0]
           After(n, b) == IF n \in 1 .. N THEN Take(rungs[n], b) ELSE b
           step == [q \in Nat \X Balance |-> After(q[1] + 1, q[2])]
<1>1. N \in Nat /\ start \in Balance /\ \A n \in 1 .. N : rungs[n] \in Rung
  BY DEF Balance
<1>2. IsStep(step, Balance)
  <2>1. \A n \in Nat : \A b \in Balance : After(n, b) \in Balance
    BY <1>1, TakeFacts
  <2> HIDE DEF After
  <2>2. \A q \in Nat \X Balance : After(q[1] + 1, q[2]) \in Balance
    BY <2>1
  <2> QED
    BY <2>2 DEF IsStep
<1>3. PICK h : Starts(h, N, Balance, start, step)
  <2> HIDE DEF step, N, start
  <2> QED
    BY <1>1, <1>2, SomeStart
<1>4. h \in [0 .. N -> Balance] /\ h[0] = start
  BY <1>3 DEF Starts
<1>5. ASSUME NEW n \in 1 .. N PROVE h[n] = Take(rungs[n], h[n - 1])
  <2>1. n - 1 \in 0 .. N - 1 /\ (n - 1) + 1 = n /\ n - 1 \in Nat /\ n - 1 \in 0 .. N
    BY <1>1
  <2>2. h[n] = step[<<n - 1, h[n - 1]>>]
    <3> HIDE DEF step, start
    <3>1. \A m \in 0 .. N - 1 : h[m + 1] = step[<<m, h[m]>>]
      BY <1>3 DEF Starts
    <3>2. h[(n - 1) + 1] = step[<<n - 1, h[n - 1]>>]
      BY <2>1, <3>1
    <3> QED
      BY <2>1, <3>2
  <2>3. h[n - 1] \in Balance
    BY <1>4, <2>1
  <2>4. step[<<n - 1, h[n - 1]>>] = After((n - 1) + 1, h[n - 1])
    <3> HIDE DEF After
    <3> QED
      BY <2>1, <2>3
  <2> QED
    BY <2>1, <2>2, <2>4
<1>6. IsTaking(h, rungs, x)
  <2> HIDE DEF step
  <2> QED
    BY <1>1, <1>4, <1>5 DEF IsTaking
<1>7. IsTaking(Taking(rungs, x), rungs, x)
  <2>1. IsTaking(CHOOSE f : IsTaking(f, rungs, x), rungs, x)
    BY <1>6
  <2> QED
    BY <2>1 DEF Taking, IsTaking
<1> DEFINE t == Taking(rungs, x)
<1>8. /\ t[0] = start
      /\ \A n \in 1 .. N : t[n] = Take(rungs[n], t[n - 1])
  BY <1>1, <1>7 DEF IsTaking
<1> DEFINE T == {n \in Nat : n <= N => t[n] \in Balance}
<1>9. \A n \in Nat : n \in T
  <2> HIDE DEF t, start
  <2>1. 0 \in T
    BY <1>1, <1>8
  <2>2. ASSUME NEW n \in Nat, n \in T PROVE n + 1 \in T
    <3>1. CASE n + 1 <= N
      <4>1. n + 1 \in 1 .. N /\ (n + 1) - 1 = n
        BY <1>1, <3>1
      <4>2. t[n + 1] = Take(rungs[n + 1], t[n])
        BY <1>8, <4>1
      <4>3. t[n] \in Balance /\ rungs[n + 1] \in Rung
        BY <1>1, <2>2, <3>1, <4>1
      <4> QED
        BY <4>2, <4>3, TakeFacts
    <3> QED
      BY <3>1
  <2> HIDE DEF T
  <2> QED
    BY <2>1, <2>2, NatSet
<1>10. \A n \in 0 .. N : t[n] \in Balance
  BY <1>1, <1>9
<1> HIDE DEF step
<1> QED
  BY <1>8, <1>10

-----------------------------------------------------------------------------
(* The rungs together.                                                     *)

All(rungs) == UpTo(rungs)[Len(rungs)]

Taken(rungs, x) == Taking(rungs, x)[Len(rungs)].out

(* The count of units never falls. *)
LEMMA UpToGrows ==
    ASSUME NEW rungs \in Seq(Rung), NEW i \in 0 .. Len(rungs), NEW j \in i .. Len(rungs)
    PROVE  UpTo(rungs)[i] <= UpTo(rungs)[j]
<1> DEFINE N == Len(rungs)
           T == {n \in Nat : i <= n /\ n <= N => UpTo(rungs)[i] <= UpTo(rungs)[n]}
<1>1. 0 \in T
  <2>1. UpTo(rungs)[0] \in Nat
    BY UpToRec
  <2>2. i <= 0 => i = 0
    OBVIOUS
  <2> QED
    BY <2>1, <2>2
<1>2. ASSUME NEW n \in Nat, n \in T PROVE n + 1 \in T
  <2>1. CASE i <= n /\ n + 1 <= N
    <3>1. n + 1 \in 1 .. N /\ (n + 1) - 1 = n /\ n \in 0 .. N
      BY <2>1
    <3>2. UpTo(rungs)[n + 1] = UpTo(rungs)[n] + rungs[n + 1].size
      BY <3>1, UpToRec
    <3>3. /\ UpTo(rungs)[i] \in Nat /\ UpTo(rungs)[n] \in Nat /\ rungs[n + 1].size \in Nat
          /\ UpTo(rungs)[i] <= UpTo(rungs)[n]
      BY <1>2, <2>1, <3>1, UpToRec, RungType
    <3> QED
      BY <3>2, <3>3
  <2>2. CASE i = n + 1
    <3>1. n + 1 \in 0 .. N
      BY <2>2
    <3>2. UpTo(rungs)[n + 1] \in Nat
      BY <3>1, UpToRec
    <3> QED
      BY <2>2, <3>2
  <2> QED
    BY <2>1, <2>2
<1>3. j \in T /\ j \in Nat
  <2> HIDE DEF T
  <2>1. j \in Nat
    OBVIOUS
  <2> QED
    BY <1>1, <1>2, <2>1, NatSet
<1> QED
  BY <1>3

(* Two amounts that reach rung n leave the same in it, *)
LEMMA TakenBefore ==
    ASSUME NEW rungs \in Seq(Rung), NEW n \in 0 .. Len(rungs),
           NEW x \in Nat, UpTo(rungs)[n] <= x
    PROVE  /\ Taking(rungs, x)[n].left = x - UpTo(rungs)[n]
           /\ Taking(rungs, x)[n].out = Taking(rungs, UpTo(rungs)[n])[n].out
<1> DEFINE N == Len(rungs)
           u == UpTo(rungs)
           z == u[n]
           f == Taking(rungs, x)
           g == Taking(rungs, z)
           T == {i \in Nat : i <= n => /\ f[i].left = x - u[i] /\ g[i].left = z - u[i]
                                       /\ f[i].out = g[i].out}
<1>0. z \in Nat /\ N \in Nat
  BY UpToRec
<1>1. 0 \in T
  <2>1. f[0] = [left |-> x, out |-> 0] /\ g[0] = [left |-> z, out |-> 0] /\ u[0] = 0
    BY <1>0, TakingRec, UpToRec
  <2> HIDE DEF f, g, z
  <2> QED
    BY <1>0, <2>1
<1>2. ASSUME NEW i \in Nat, i \in T PROVE i + 1 \in T
  <2> SUFFICES ASSUME i + 1 <= n
               PROVE  /\ f[i + 1].left = x - u[i + 1] /\ g[i + 1].left = z - u[i + 1]
                      /\ f[i + 1].out = g[i + 1].out
    OBVIOUS
  <2>1. /\ i + 1 \in 1 .. N /\ (i + 1) - 1 = i /\ i \in 0 .. N /\ i + 1 \in 0 .. N
        /\ n \in i + 1 .. N
    BY <1>0
  <2>2. f[i + 1] = Take(rungs[i + 1], f[i]) /\ g[i + 1] = Take(rungs[i + 1], g[i])
    <3>1. \A m \in 1 .. N : f[m] = Take(rungs[m], f[m - 1])
      BY TakingRec
    <3>2. \A m \in 1 .. N : g[m] = Take(rungs[m], g[m - 1])
      BY <1>0, TakingRec
    <3> HIDE DEF f, g, N
    <3> QED
      BY <2>1, <3>1, <3>2
  <2>3. /\ f[i] \in Balance /\ g[i] \in Balance /\ rungs[i + 1] \in Rung
        /\ rungs[i + 1].size \in Nat
    <3>1. f[i] \in Balance /\ g[i] \in Balance
      BY <1>0, <2>1, TakingRec
    <3>2. rungs[i + 1] \in Rung
      BY <2>1
    <3> QED
      BY <2>1, <3>1, <3>2, RungType
  <2>4. /\ u[i + 1] = u[i] + rungs[i + 1].size /\ u[i] \in Nat /\ u[i + 1] \in Nat
        /\ u[i + 1] <= z
    BY <2>1, UpToRec, UpToGrows
  <2>5. f[i].left = x - u[i] /\ g[i].left = z - u[i] /\ f[i].out = g[i].out
    BY <1>2
  <2> HIDE DEF f, g, u, z
  <2>6. f[i].left >= rungs[i + 1].size /\ g[i].left >= rungs[i + 1].size
    <3>1. z <= x
      BY DEF z, u
    <3>2. \A a, b, s, y, w \in Nat : b = a + s /\ b <= y /\ y <= w => w - a >= s /\ y - a >= s
      BY SMT
    <3>3. x - u[i] >= rungs[i + 1].size /\ z - u[i] >= rungs[i + 1].size
      BY <1>0, <2>3, <2>4, <3>1, <3>2
    <3> QED
      BY <2>5, <3>3
  <2>7. /\ f[i + 1].left = f[i].left - rungs[i + 1].size
        /\ g[i + 1].left = g[i].left - rungs[i + 1].size
        /\ f[i + 1].out = f[i].out + rungs[i + 1].price * rungs[i + 1].size
        /\ g[i + 1].out = g[i].out + rungs[i + 1].price * rungs[i + 1].size
    BY <2>2, <2>3, <2>6, TakeFacts
  <2> QED
    BY <1>0, <2>3, <2>4, <2>5, <2>7
<1>3. n \in T
  <2> HIDE DEF T
  <2> QED
    BY <1>1, <1>2, NatSet
<1> QED
  BY <1>3

(* and what has been taken up is not taken again. *)
LEMMA NothingLeft ==
    ASSUME NEW rungs \in Seq(Rung), NEW n \in 0 .. Len(rungs),
           NEW x \in Nat, Taking(rungs, x)[n].left = 0
    PROVE  Taken(rungs, x) = Taking(rungs, x)[n].out
<1> DEFINE N == Len(rungs)
           f == Taking(rungs, x)
           T == {i \in Nat : n <= i /\ i <= N => f[i].left = 0 /\ f[i].out = f[n].out}
<1>1. 0 \in T
  <2>1. n <= 0 => n = 0
    OBVIOUS
  <2> QED
    BY <2>1
<1>2. ASSUME NEW i \in Nat, i \in T PROVE i + 1 \in T
  <2>1. CASE n <= i /\ i + 1 <= N
    <3>1. i + 1 \in 1 .. N /\ (i + 1) - 1 = i /\ i \in 0 .. N
      BY <2>1
    <3>2. f[i + 1] = Take(rungs[i + 1], f[i])
      BY <3>1, TakingRec
    <3>3. /\ f[i] \in Balance /\ rungs[i + 1] \in Rung
          /\ rungs[i + 1].size \in Nat /\ rungs[i + 1].price \in Nat
      <4>1. f[i] \in Balance
        BY <3>1, TakingRec
      <4>2. rungs[i + 1] \in Rung
        BY <3>1
      <4> QED
        BY <3>1, <4>1, <4>2, RungType
    <3>4. f[i].left = 0 /\ f[i].out = f[n].out
      BY <1>2, <2>1
    <3>5. f[i].out \in Nat
      BY <3>3 DEF Balance
    <3> HIDE DEF f
    <3>6. f[i + 1].left = 0 /\ f[i + 1].out = f[i].out + rungs[i + 1].price * f[i].left
      BY <3>2, <3>3, <3>4, TakeFacts
    <3>7. rungs[i + 1].price * 0 = 0
      BY <3>3
    <3> QED
      BY <3>4, <3>5, <3>6, <3>7
  <2>2. CASE n = i + 1
    BY <2>2
  <2> QED
    BY <2>1, <2>2
<1>3. N \in T
  <2> HIDE DEF T
  <2> QED
    BY <1>1, <1>2, NatSet
<1> QED
  BY <1>3 DEF Taken

(* Outputs are numbers, *)
LEMMA TakenType ==
    ASSUME NEW rungs \in Seq(Rung), NEW x \in Nat
    PROVE  Taken(rungs, x) \in Nat
<1>1. Len(rungs) \in 0 .. Len(rungs)
  OBVIOUS
<1>2. Taking(rungs, x)[Len(rungs)] \in Balance
  BY <1>1, TakingRec
<1> QED
  BY <1>2 DEF Taken, Balance

(* A rung gives its price for every unit that it takes, *)
LEMMA TakenInRung ==
    ASSUME NEW rungs \in Seq(Rung), NEW n \in 1 .. Len(rungs), NEW y \in 0 .. rungs[n].size
    PROVE  Taken(rungs, UpTo(rungs)[n - 1] + y)
              = Taken(rungs, UpTo(rungs)[n - 1]) + rungs[n].price * y
<1> DEFINE z == UpTo(rungs)[n - 1]
           f == Taking(rungs, z + y)
           g == Taking(rungs, z)
<1>1. /\ n - 1 \in 0 .. Len(rungs) /\ n \in 0 .. Len(rungs)
      /\ rungs[n].size \in Nat /\ rungs[n].price \in Nat /\ y \in Nat
  BY RungType
<1>2. z \in Nat /\ z + y \in Nat
  <2>1. \A m \in 0 .. Len(rungs) : UpTo(rungs)[m] \in Nat
    BY UpToRec
  <2>2. z \in Nat
    BY <1>1, <2>1
  <2> HIDE DEF z
  <2> QED
    BY <1>1, <2>2
<1>3. f[n - 1].left = y /\ f[n - 1].out = g[n - 1].out
  <2>1. f[n - 1].left = (z + y) - z /\ f[n - 1].out = g[n - 1].out
    <3>1. z <= z + y
      BY <1>1, <1>2
    <3> HIDE DEF f
    <3> QED
      BY <1>1, <1>2, <3>1, TakenBefore DEF f
  <2>2. (z + y) - z = y
    BY <1>1, <1>2
  <2> QED
    BY <2>1, <2>2
<1>4. g[n - 1].left = 0
  <2>1. z <= z /\ z - z = 0
    BY <1>2
  <2> QED
    BY <1>1, <1>2, <2>1, TakenBefore
<1>5. f[n].left = 0 /\ f[n].out = f[n - 1].out + rungs[n].price * y
  <2>1. f[n] = Take(rungs[n], f[n - 1])
    BY <1>2, TakingRec
  <2>2. f[n - 1] \in Balance
    BY <1>1, <1>2, TakingRec
  <2>3. rungs[n] \in Rung /\ y <= rungs[n].size
    OBVIOUS
  <2> HIDE DEF f
  <2> QED
    BY <1>3, <2>1, <2>2, <2>3, TakeFacts
<1>6. Taken(rungs, z + y) = f[n].out
  BY <1>1, <1>2, <1>5, NothingLeft
<1>7. Taken(rungs, z) = g[n - 1].out
  BY <1>1, <1>2, <1>4, NothingLeft
<1> HIDE DEF f, g
<1> QED
  BY <1>3, <1>5, <1>6, <1>7

(* all of them together give no more for more, *)
LEMMA TakenBeyond ==
    ASSUME NEW rungs \in Seq(Rung), NEW x \in Nat, All(rungs) <= x
    PROVE  Taken(rungs, x) = Taken(rungs, All(rungs))
<1>1. Len(rungs) \in 0 .. Len(rungs)
  OBVIOUS
<1> QED
  BY <1>1, TakenBefore DEF Taken, All

(* and nothing for nothing. *)
LEMMA TakenNothing ==
    ASSUME NEW rungs \in Seq(Rung)
    PROVE  Taken(rungs, 0) = 0
<1>1. 0 \in 0 .. Len(rungs)
  OBVIOUS
<1>2. Taking(rungs, 0)[0].left = 0 /\ Taking(rungs, 0)[0].out = 0
  <2>1. \A x \in Nat : Taking(rungs, x)[0] = [left |-> x, out |-> 0]
    BY TakingRec
  <2>2. Taking(rungs, 0)[0] = [left |-> 0, out |-> 0]
    BY <2>1
  <2> QED
    BY <2>2
<1> QED
  BY <1>1, <1>2, NothingLeft

(* No rung is beyond the last. *)
LEMMA AllType ==
    ASSUME NEW rungs \in Seq(Rung)
    PROVE  /\ All(rungs) \in Nat
           /\ \A n \in 0 .. Len(rungs) : UpTo(rungs)[n] \in Nat /\ UpTo(rungs)[n] <= All(rungs)
<1>1. Len(rungs) \in 0 .. Len(rungs)
  OBVIOUS
<1>2. \A n \in 0 .. Len(rungs) : Len(rungs) \in n .. Len(rungs)
  OBVIOUS
<1> QED
  BY <1>1, <1>2, UpToRec, UpToGrows DEF All

(* Every unit is in a rung, and sells at its price. *)
LEMMA TakenUnit ==
    ASSUME NEW rungs \in Seq(Rung), NEW x \in Nat, x < All(rungs)
    PROVE  \E n \in 1 .. Len(rungs) :
              /\ UpTo(rungs)[n - 1] <= x /\ x < UpTo(rungs)[n]
              /\ Taken(rungs, x + 1) = Taken(rungs, x) + rungs[n].price
<1> DEFINE N == Len(rungs)
           u == UpTo(rungs)
           S == {n \in 1 .. N : u[n - 1] <= x}
<1>1. N \in Nat /\ N # 0 /\ u[0] = 0
  BY UpToRec DEF All
<1>2. 1 \in S
  BY <1>1
<1>3. PICK n \in S : \A j \in n + 1 .. N : j \notin S
  <2>1. S \in SUBSET (1 .. N) /\ S # {}
    BY <1>2
  <2> HIDE DEF S
  <2> QED
    BY <1>1, <2>1, LastMember
<1>4. n \in 1 .. N /\ u[n - 1] <= x
  OBVIOUS
<1>5. x < u[n]
  <2>1. CASE n = N
    BY <2>1 DEF All
  <2>2. CASE n # N
    <3>1. n + 1 \in 1 .. N /\ n + 1 \in n + 1 .. N /\ (n + 1) - 1 = n /\ n \in 0 .. N
      BY <1>1, <1>4, <2>2
    <3>2. ~(u[(n + 1) - 1] <= x)
      BY <1>3, <3>1
    <3>3. u[n] \in Nat
      BY <3>1, UpToRec
    <3> QED
      BY <3>1, <3>2, <3>3
  <2> QED
    BY <2>1, <2>2
<1> DEFINE y == x - u[n - 1]
<1>6. /\ u[n - 1] \in Nat /\ u[n] = u[n - 1] + rungs[n].size
      /\ rungs[n].size \in Nat /\ rungs[n].price \in Nat
  <2>1. n - 1 \in 0 .. N
    BY <1>4
  <2> QED
    BY <1>4, <2>1, UpToRec, RungType
<1> HIDE DEF u, S
<1>7. /\ y \in 0 .. rungs[n].size /\ y + 1 \in 0 .. rungs[n].size /\ y \in Nat
      /\ u[n - 1] + y = x /\ u[n - 1] + (y + 1) = x + 1
  BY <1>4, <1>5, <1>6
<1> HIDE DEF y
<1>8. /\ Taken(rungs, x) = Taken(rungs, u[n - 1]) + rungs[n].price * y
      /\ Taken(rungs, x + 1) = Taken(rungs, u[n - 1]) + rungs[n].price * (y + 1)
  BY <1>4, <1>7, TakenInRung DEF u
<1>9. /\ rungs[n].price * (y + 1) = rungs[n].price * y + rungs[n].price
      /\ rungs[n].price * y \in Nat /\ Taken(rungs, u[n - 1]) \in Nat
  <2>1. \A a, b \in Nat : a * (b + 1) = a * b + a /\ a * b \in Nat
    BY SMT
  <2> QED
    BY <1>6, <1>7, <2>1, TakenType
<1>10. Taken(rungs, x + 1) = Taken(rungs, x) + rungs[n].price
  BY <1>6, <1>8, <1>9
<1> QED
  BY <1>4, <1>5, <1>10 DEF u

-----------------------------------------------------------------------------
(* The best size.                                                          *)

Gain(rungs, ref, x) == Taken(rungs, x) - ref * x

(* The rungs up to r are worth more than the reference price, the rest not. *)
Divides(rungs, ref, r) ==
    /\ r \in 0 .. Len(rungs)
    /\ \A n \in 1 .. r : rungs[n].price > ref
    /\ \A n \in r + 1 .. Len(rungs) : rungs[n].price <= ref

(* Gains are numbers, *)
LEMMA GainType ==
    ASSUME NEW rungs \in Seq(Rung), NEW ref \in Nat, NEW x \in Nat
    PROVE  Gain(rungs, ref, x) \in Int
<1>1. Taken(rungs, x) \in Nat
  BY TakenType
<1>2. ref * x \in Nat
  OBVIOUS
<1> QED
  BY <1>1, <1>2 DEF Gain

(* One more unit is worth it before rung r, and not after it. *)
LEMMA GainUnit ==
    ASSUME NEW rungs \in Seq(Rung), NEW ref \in Nat, NEW r, Divides(rungs, ref, r),
           NEW x \in Nat, x < All(rungs)
    PROVE  /\ x < UpTo(rungs)[r] => Gain(rungs, ref, x) <= Gain(rungs, ref, x + 1)
           /\ x >= UpTo(rungs)[r] => Gain(rungs, ref, x) >= Gain(rungs, ref, x + 1)
<1> DEFINE u == UpTo(rungs)
<1>1. PICK n \in 1 .. Len(rungs) :
          /\ u[n - 1] <= x /\ x < u[n]
          /\ Taken(rungs, x + 1) = Taken(rungs, x) + rungs[n].price
  BY TakenUnit
<1>2. rungs[n].price \in Nat /\ r \in 0 .. Len(rungs) /\ n - 1 \in 0 .. Len(rungs)
      /\ n \in 0 .. Len(rungs) /\ u[n - 1] \in Nat /\ u[n] \in Nat /\ u[r] \in Nat
  <2>1. n - 1 \in 0 .. Len(rungs) /\ n \in 0 .. Len(rungs) /\ r \in 0 .. Len(rungs)
    BY DEF Divides
  <2> QED
    BY <2>1, RungType, UpToRec
<1>3. ref * (x + 1) = ref * x + ref /\ ref * x \in Nat
  <2>1. \A a, b \in Nat : a * (b + 1) = a * b + a /\ a * b \in Nat
    BY SMT
  <2> QED
    BY <2>1
<1>4. Taken(rungs, x) \in Nat /\ Taken(rungs, x + 1) \in Nat
  <2>1. \A i \in Nat : Taken(rungs, i) \in Nat
    BY TakenType
  <2>2. x + 1 \in Nat
    OBVIOUS
  <2> QED
    BY <2>1, <2>2
<1>5. Gain(rungs, ref, x + 1) = Gain(rungs, ref, x) + (rungs[n].price - ref)
  <2>1. \A t, w, c \in Nat : (t + w) - (c + ref) = (t - c) + (w - ref)
    BY SMT
  <2>2. /\ Gain(rungs, ref, x + 1) = (Taken(rungs, x) + rungs[n].price) - (ref * x + ref)
        /\ Gain(rungs, ref, x) = Taken(rungs, x) - ref * x
    BY <1>1, <1>3 DEF Gain
  <2> QED
    BY <1>2, <1>3, <1>4, <2>1, <2>2
<1>6. Gain(rungs, ref, x) \in Int
  BY GainType
<1>7. ASSUME x < u[r] PROVE rungs[n].price > ref
  <2>1. ~(r <= n - 1)
    <3>1. ASSUME r <= n - 1 PROVE FALSE
      <4>1. n - 1 \in r .. Len(rungs)
        BY <1>2, <3>1
      <4>2. u[r] <= u[n - 1]
        BY <1>2, <4>1, UpToGrows
      <4> QED
        BY <1>1, <1>2, <1>7, <4>2
    <3> QED
      BY <3>1
  <2>2. n \in 1 .. r
    BY <1>2, <2>1
  <2> QED
    BY <2>2 DEF Divides
<1>8. ASSUME x >= u[r] PROVE rungs[n].price <= ref
  <2>1. ~(n <= r)
    <3>1. ASSUME n <= r PROVE FALSE
      <4>1. r \in n .. Len(rungs)
        BY <1>2, <3>1
      <4>2. u[n] <= u[r]
        BY <1>2, <4>1, UpToGrows
      <4> QED
        BY <1>1, <1>2, <1>8, <4>2
    <3> QED
      BY <3>1
  <2>2. n \in r + 1 .. Len(rungs)
    BY <1>2, <2>1
  <2> QED
    BY <2>2 DEF Divides
<1> HIDE DEF u
<1> QED
  BY <1>2, <1>5, <1>6, <1>7, <1>8 DEF u

(* So the gain rises up to the rung r that divides the list, *)
LEMMA GainRises ==
    ASSUME NEW rungs \in Seq(Rung), NEW ref \in Nat, NEW r, Divides(rungs, ref, r),
           NEW x \in Nat, NEW y \in Nat, x <= y, y <= UpTo(rungs)[r]
    PROVE  Gain(rungs, ref, x) <= Gain(rungs, ref, y)
<1> DEFINE T == {n \in Nat : x <= n /\ n <= UpTo(rungs)[r] => Gain(rungs, ref, x) <= Gain(rungs, ref, n)}
<1>0. UpTo(rungs)[r] \in Nat /\ UpTo(rungs)[r] <= All(rungs) /\ All(rungs) \in Nat
  BY AllType DEF Divides
<1>1. 0 \in T
  <2>1. x <= 0 => x = 0
    OBVIOUS
  <2>2. Gain(rungs, ref, 0) \in Int
    BY GainType
  <2> QED
    BY <2>1, <2>2
<1>2. ASSUME NEW n \in Nat, n \in T PROVE n + 1 \in T
  <2>0. Gain(rungs, ref, x) \in Int /\ Gain(rungs, ref, n) \in Int /\ Gain(rungs, ref, n + 1) \in Int
    <3>1. n + 1 \in Nat
      OBVIOUS
    <3>2. \A i \in Nat : Gain(rungs, ref, i) \in Int
      BY GainType
    <3> QED
      BY <3>1, <3>2
  <2>1. CASE x <= n /\ n + 1 <= UpTo(rungs)[r]
    <3>1. Gain(rungs, ref, n) <= Gain(rungs, ref, n + 1)
      BY <1>0, <2>1, GainUnit
    <3>2. Gain(rungs, ref, x) <= Gain(rungs, ref, n)
      BY <1>0, <1>2, <2>1
    <3> QED
      BY <2>0, <3>1, <3>2
  <2>2. CASE x = n + 1
    BY <2>0, <2>2
  <2> QED
    BY <2>1, <2>2
<1>3. y \in T
  <2> HIDE DEF T
  <2> QED
    BY <1>1, <1>2, NatSet
<1> QED
  BY <1>3

(* and falls beyond it. *)
LEMMA GainFalls ==
    ASSUME NEW rungs \in Seq(Rung), NEW ref \in Nat, NEW r, Divides(rungs, ref, r),
           NEW x \in Nat, NEW y \in Nat, UpTo(rungs)[r] <= x, x <= y, y <= All(rungs)
    PROVE  Gain(rungs, ref, y) <= Gain(rungs, ref, x)
<1> DEFINE T == {n \in Nat : x <= n /\ n <= All(rungs) => Gain(rungs, ref, n) <= Gain(rungs, ref, x)}
<1>0. UpTo(rungs)[r] \in Nat /\ All(rungs) \in Nat
  BY AllType DEF Divides
<1>1. 0 \in T
  <2>1. x <= 0 => x = 0
    OBVIOUS
  <2>2. Gain(rungs, ref, 0) \in Int
    BY GainType
  <2> QED
    BY <2>1, <2>2
<1>2. ASSUME NEW n \in Nat, n \in T PROVE n + 1 \in T
  <2>0. Gain(rungs, ref, x) \in Int /\ Gain(rungs, ref, n) \in Int /\ Gain(rungs, ref, n + 1) \in Int
    <3>1. n + 1 \in Nat
      OBVIOUS
    <3>2. \A i \in Nat : Gain(rungs, ref, i) \in Int
      BY GainType
    <3> QED
      BY <3>1, <3>2
  <2>1. CASE x <= n /\ n + 1 <= All(rungs)
    <3>0. n >= UpTo(rungs)[r] /\ n < All(rungs)
      BY <1>0, <2>1
    <3>1. Gain(rungs, ref, n) >= Gain(rungs, ref, n + 1)
      BY <3>0, GainUnit
    <3>2. Gain(rungs, ref, n) <= Gain(rungs, ref, x)
      BY <1>0, <1>2, <2>1
    <3> QED
      BY <2>0, <3>1, <3>2
  <2>2. CASE x = n + 1
    BY <2>0, <2>2
  <2> QED
    BY <2>1, <2>2
<1>3. y \in T
  <2> HIDE DEF T
  <2> QED
    BY <1>1, <1>2, NatSet
<1> QED
  BY <1>3

(* Pools and the rungs that they sell. *)

(* What the constructor of ranges lets through, *)
LEMMA TicksFacts ==
    ASSUME NEW q, Accepted(q), IsTicks(q)
    PROVE  /\ Len(q.pieces) \in Nat \ {0} /\ q.current \in Nat
           /\ \A i \in 1 .. Len(q.pieces) :
                 /\ q.pieces[i].lower \in Nat /\ q.pieces[i].upper \in Nat
                 /\ q.pieces[i].liquidity \in Nat \ {0}
           /\ \A i, j \in 1 .. Len(q.pieces) : i <= j => q.pieces[i].lower <= q.pieces[j].lower
           /\ \E i \in 1 .. Len(q.pieces) :
                 q.pieces[i].lower <= q.current /\ q.current <= q.pieces[i].upper
<1> DEFINE Bounds == [lower : Nat, upper : Nat, liquidity : Nat]
           ranges == q.pieces
<1>1. TicksAccepted(q)
  BY DEF Accepted
<1>2. ranges \in Seq(Bounds) /\ ranges # <<>> /\ q.current \in Nat
  BY <1>1 DEF TicksAccepted
<1>3. /\ Len(ranges) \in Nat /\ DOMAIN ranges = 1 .. Len(ranges) /\ Len(ranges) # 0
      /\ \A i \in 1 .. Len(ranges) : ranges[i] \in Bounds
  <2> HIDE DEF ranges, Bounds
  <2> QED
    BY <1>2
<1>4. \A i \in 1 .. Len(ranges) :
          ranges[i].lower \in Nat /\ ranges[i].upper \in Nat /\ ranges[i].liquidity \in Nat
  <2> HIDE DEF ranges
  <2> QED
    BY <1>3
<1> HIDE DEF Bounds
<1>5. \A i \in 1 .. Len(ranges) : ranges[i].liquidity > 0
  BY <1>1, <1>3 DEF TicksAccepted
<1>6. \A i, j \in 1 .. Len(ranges) : i < j => ranges[i].lower <= ranges[j].lower
  BY <1>1, <1>3 DEF TicksAccepted
<1>7. \E i \in 1 .. Len(ranges) : ranges[i].lower <= q.current /\ q.current <= ranges[i].upper
  BY <1>1, <1>3 DEF TicksAccepted
<1>8. \A i, j \in 1 .. Len(ranges) : i <= j => ranges[i].lower <= ranges[j].lower
  <2> HIDE DEF ranges
  <2>1. ASSUME NEW i \in 1 .. Len(ranges), NEW j \in 1 .. Len(ranges), i <= j
        PROVE  ranges[i].lower <= ranges[j].lower
    <3>1. i = j \/ i < j
      BY <1>3, <2>1
    <3>2. ranges[i].lower \in Nat
      BY <1>4
    <3> QED
      BY <1>6, <3>1, <3>2
  <2> QED
    BY <2>1
<1>9. \A i \in 1 .. Len(ranges) : ranges[i].liquidity \in Nat \ {0}
  <2> HIDE DEF ranges
  <2> QED
    BY <1>4, <1>5
<1> QED
  BY <1>2, <1>3, <1>4, <1>7, <1>8, <1>9

(* and that of bins. *)
LEMMA BinsFacts ==
    ASSUME NEW q, Accepted(q), ~IsTicks(q)
    PROVE  /\ q.pieces \in Seq(Rung) /\ q.active \in 1 .. Len(q.pieces)
           /\ Active(q) = q.active /\ Len(q.pieces) \in Nat \ {0}
           /\ \A i \in 1 .. Len(q.pieces) : q.pieces[i].price \in Nat /\ q.pieces[i].size \in Nat
<1>1. q.pieces \in Seq(Rung) /\ q.active \in DOMAIN q.pieces
  BY DEF Accepted, BinsAccepted, Rung
<1>2. Len(q.pieces) \in Nat /\ DOMAIN q.pieces = 1 .. Len(q.pieces)
  BY <1>1
<1>3. Active(q) = q.active
  BY DEF Active
<1> QED
  BY <1>1, <1>2, <1>3, RungType

(* The active piece exists: the CHOOSE of Active has a value. *)
LEMMA ActiveFacts ==
    ASSUME NEW q, Accepted(q)
    PROVE  /\ Active(q) \in 1 .. Len(q.pieces)
           /\ IsTicks(q) => q.pieces[Active(q)].lower <= q.current
<1>1. CASE ~IsTicks(q)
  BY <1>1, BinsFacts
<1>2. CASE IsTicks(q)
  <2> DEFINE n == Len(q.pieces)
             S == {i \in 1 .. n : q.pieces[i].lower <= q.current /\ q.current <= q.pieces[i].upper}
  <2>1. n \in Nat /\ S \in SUBSET (1 .. n) /\ S # {}
    BY <1>2, TicksFacts
  <2>2. PICK i \in S : \A j \in i + 1 .. n : j \notin S
    <3> HIDE DEF S, n
    <3> QED
      BY <2>1, LastMember
  <2>3. DOMAIN q.pieces = 1 .. n
    BY <1>2 DEF Accepted, TicksAccepted
  <2>4. \A j \in i + 1 .. n : j \in 1 .. n
    OBVIOUS
  <2>5. \A j \in i + 1 .. n : ~(q.pieces[j].lower <= q.current /\ q.current <= q.pieces[j].upper)
    BY <2>2, <2>4
  <2>6. \A j \in i + 1 .. n : q.current < q.pieces[j].lower \/ q.current > q.pieces[j].upper
    BY <1>2, <2>4, <2>5, TicksFacts
  <2> DEFINE Is(l) == /\ q.pieces[l].lower <= q.current /\ q.current <= q.pieces[l].upper
                      /\ \A j \in l + 1 .. Len(q.pieces) :
                            q.current < q.pieces[j].lower \/ q.current > q.pieces[j].upper
  <2>7. i \in DOMAIN q.pieces /\ Is(i)
    BY <2>2, <2>3, <2>6
  <2>8. Active(q) = CHOOSE l \in DOMAIN q.pieces : Is(l)
    BY <1>2 DEF Active
  <2> HIDE DEF Is
  <2>9. Active(q) \in DOMAIN q.pieces /\ Is(Active(q))
    BY <2>7, <2>8
  <2> QED
    BY <2>3, <2>9 DEF Is
<1> QED
  BY <1>1, <1>2

(* So does that of SellerAt, *)
LEMMA SellerFacts ==
    ASSUME NEW q, Accepted(q), IsTicks(q), NEW r \in Nat, LowestPrice(q) < r
    PROVE  /\ SellerAt(q, r) \in 1 .. Active(q)
           /\ q.pieces[SellerAt(q, r)].lower < r
           /\ \A j \in SellerAt(q, r) + 1 .. Active(q) : q.pieces[j].lower >= r
<1> DEFINE n == Active(q)
           S == {i \in 1 .. n : q.pieces[i].lower < r}
<1>1. n \in Nat /\ n \in 1 .. Len(q.pieces) /\ Len(q.pieces) \in Nat
  BY ActiveFacts, TicksFacts
<1>2. S \in SUBSET (1 .. n) /\ 1 \in S
  BY <1>1 DEF LowestPrice
<1>3. PICK i \in S : \A j \in i + 1 .. n : j \notin S
  <2> HIDE DEF S, n
  <2> QED
    BY <1>1, <1>2, LastMember
<1> DEFINE Is(l) == q.pieces[l].lower < r /\ \A j \in l + 1 .. Active(q) : q.pieces[j].lower >= r
<1>4. Is(i) /\ i \in 1 .. Active(q)
  <2>1. i \in 1 .. n /\ q.pieces[i].lower < r
    BY <1>3
  <2>2. ASSUME NEW j \in i + 1 .. n PROVE q.pieces[j].lower >= r
    <3>1. j \in 1 .. n /\ j \notin S /\ j \in 1 .. Len(q.pieces)
      BY <1>1, <1>3, <2>1
    <3>2. ~(q.pieces[j].lower < r) /\ q.pieces[j].lower \in Nat
      BY <3>1, TicksFacts
    <3> QED
      BY <3>2
  <2> QED
    BY <2>1, <2>2
<1>5. SellerAt(q, r) = CHOOSE l \in 1 .. Active(q) : Is(l)
  BY DEF SellerAt
<1> HIDE DEF Is
<1>6. SellerAt(q, r) \in 1 .. Active(q) /\ Is(SellerAt(q, r))
  BY <1>4, <1>5
<1> QED
  BY <1>6 DEF Is

(* There is one last range that begins below a price. *)
LEMMA SellerIs ==
    ASSUME NEW q, Accepted(q), IsTicks(q), NEW r \in Nat,
           NEW i \in 1 .. Active(q), q.pieces[i].lower < r,
           \A j \in i + 1 .. Active(q) : q.pieces[j].lower >= r
    PROVE  LowestPrice(q) < r /\ SellerAt(q, r) = i
<1>1. Active(q) \in 1 .. Len(q.pieces) /\ Len(q.pieces) \in Nat
  BY ActiveFacts, TicksFacts
<1>2. 1 \in 1 .. Len(q.pieces) /\ i \in 1 .. Len(q.pieces) /\ 1 <= i
  BY <1>1
<1>3. q.pieces[1].lower \in Nat /\ q.pieces[i].lower \in Nat /\ q.pieces[1].lower <= q.pieces[i].lower
  BY <1>2, TicksFacts
<1>4. LowestPrice(q) < r
  BY <1>3 DEF LowestPrice
<1> DEFINE s == SellerAt(q, r)
<1>5. /\ s \in 1 .. Active(q) /\ q.pieces[s].lower < r
      /\ \A j \in s + 1 .. Active(q) : q.pieces[j].lower >= r
  BY <1>4, SellerFacts
<1> HIDE DEF s
<1>6. s \in 1 .. Len(q.pieces)
  BY <1>1, <1>5
<1>7. q.pieces[s].lower \in Nat
  BY <1>6, TicksFacts
<1>8. ~(s < i)
  <2>1. ASSUME s < i PROVE FALSE
    <3>1. i \in s + 1 .. Active(q)
      BY <1>1, <1>5, <2>1
    <3> QED
      BY <1>3, <1>5, <3>1
  <2> QED
    BY <2>1
<1>9. ~(i < s)
  <2>1. ASSUME i < s PROVE FALSE
    <3>1. s \in i + 1 .. Active(q)
      BY <1>1, <1>5, <2>1
    <3> QED
      BY <1>5, <1>7, <3>1
  <2> QED
    BY <2>1
<1>10. s = i
  BY <1>1, <1>5, <1>8, <1>9
<1> QED
  BY <1>4, <1>10 DEF s

(* The rungs of ranges: one for each price, *)
LEMMA TicksRungs ==
    ASSUME NEW q, Accepted(q), IsTicks(q)
    PROVE  /\ Rungs(q) \in Seq(Rung)
           /\ LowestPrice(q) \in Nat /\ LowestPrice(q) <= q.current
           /\ Len(Rungs(q)) = q.current - LowestPrice(q)
           /\ \A n \in 1 .. Len(Rungs(q)) :
                 /\ Rungs(q)[n].price = q.current - n + 1
                 /\ Rungs(q)[n].size = q.pieces[SellerAt(q, q.current - n + 1)].liquidity
<1> DEFINE N == q.current - LowestPrice(q)
           R(n) == [price |-> q.current - n + 1,
                    size |-> q.pieces[SellerAt(q, q.current - n + 1)].liquidity]
           f == [n \in 1 .. N |-> R(n)]
<1>1. /\ Active(q) \in 1 .. Len(q.pieces) /\ Len(q.pieces) \in Nat /\ q.current \in Nat
      /\ q.pieces[Active(q)].lower <= q.current
  BY ActiveFacts, TicksFacts
<1>2. LowestPrice(q) \in Nat /\ LowestPrice(q) <= q.current
  <2>1. 1 \in 1 .. Len(q.pieces) /\ 1 <= Active(q)
    BY <1>1
  <2>2. /\ q.pieces[1].lower \in Nat /\ q.pieces[Active(q)].lower \in Nat
        /\ q.pieces[1].lower <= q.pieces[Active(q)].lower
    BY <1>1, <2>1, TicksFacts
  <2> QED
    BY <1>1, <2>2 DEF LowestPrice
<1>3. N \in Nat
  BY <1>1, <1>2
<1>4. Rungs(q) = f
  BY DEF Rungs
<1>5. ASSUME NEW n \in 1 .. N PROVE R(n) \in Rung
  <2> DEFINE r == q.current - n + 1
  <2>1. r \in Nat /\ LowestPrice(q) < r
    BY <1>1, <1>2
  <2> HIDE DEF r
  <2>2. SellerAt(q, r) \in 1 .. Active(q)
    BY <2>1, SellerFacts
  <2>3. SellerAt(q, r) \in 1 .. Len(q.pieces)
    BY <1>1, <2>2
  <2>4. q.pieces[SellerAt(q, r)].liquidity \in Nat
    BY <2>3, TicksFacts
  <2>5. R(n) = [price |-> r, size |-> q.pieces[SellerAt(q, r)].liquidity]
    BY DEF r
  <2> HIDE DEF R
  <2> QED
    BY <2>1, <2>4, <2>5 DEF Rung
<1> HIDE DEF N
<1>6. /\ f \in Seq(Rung) /\ Len(f) = N /\ \A n \in 1 .. N : f[n] = R(n)
  <2> HIDE DEF R
  <2> QED
    BY <1>3, <1>5
<1>7. \A n \in 1 .. N : R(n).price = q.current - n + 1
                        /\ R(n).size = q.pieces[SellerAt(q, q.current - n + 1)].liquidity
  OBVIOUS
<1> HIDE DEF f, R
<1> QED
  BY <1>2, <1>4, <1>6, <1>7 DEF N

(* and those of bins: the bins themselves, from the active one on. *)
LEMMA BinsRungs ==
    ASSUME NEW q, Accepted(q), ~IsTicks(q)
    PROVE  /\ Rungs(q) \in Seq(Rung)
           /\ Len(Rungs(q)) = Len(q.pieces) - q.active + 1
           /\ \A n \in 1 .. Len(Rungs(q)) : Rungs(q)[n] = q.pieces[q.active + n - 1]
<1> DEFINE s == q.pieces
           a == q.active
           N == Len(s)
<1>1. s \in Seq(Rung) /\ a \in 1 .. N /\ N \in Nat
  BY BinsFacts
<1>2. Rungs(q) = SubSeq(s, a, N)
  BY DEF Rungs
<1>3. \A i \in a .. N : s[i] \in Rung
  <2> HIDE DEF s, a
  <2> QED
    BY <1>1
<1>4. /\ SubSeq(s, a, N) \in Seq(Rung) /\ Len(SubSeq(s, a, N)) = N - a + 1
      /\ \A n \in 1 .. N - a + 1 : SubSeq(s, a, N)[n] = s[a + n - 1]
  <2> HIDE DEF s, a, N
  <2> QED
    BY <1>1, <1>3
<1> HIDE DEF s, a
<1> QED
  BY <1>2, <1>4 DEF s, a

(* Total and Sold are those of the rungs, however the pool is made. *)
LEMMA RungsType ==
    ASSUME NEW q, Accepted(q)
    PROVE  /\ Rungs(q) \in Seq(Rung)
           /\ Total(q) = All(Rungs(q))
           /\ \A x : Sold(q, x) = Taken(Rungs(q), x)
BY TicksRungs, BinsRungs DEF Total, Sold, All, Taken

-----------------------------------------------------------------------------
(* The boundaries of a walk: piece i, entered at price r. *)

AtBoundary(q, i, r) ==
    /\ i \in 1 .. Len(q.pieces)
    /\ IF IsTicks(q)
       THEN /\ i <= Active(q) /\ r \in Nat /\ q.pieces[i].lower <= r /\ r <= q.current
            /\ \A j \in i + 1 .. Active(q) : q.pieces[j].lower >= r
       ELSE Active(q) <= i /\ r = 0

(* The rungs that are left behind there, and what they hold. *)
Behind(q, i, r) == IF IsTicks(q) THEN q.current - r ELSE i - q.active

Held(q, i, r) == UpTo(Rungs(q))[Behind(q, i, r)]

(* A range sells the same amount at every price. *)
LEMMA RangeRung ==
    ASSUME NEW q, Accepted(q), IsTicks(q), NEW i, NEW r, AtBoundary(q, i, r),
           NEW f \in 0 .. r - q.pieces[i].lower - 1
    PROVE  /\ q.current - r + f + 1 \in 1 .. Len(Rungs(q))
           /\ Rungs(q)[q.current - r + f + 1].price = r - f
           /\ Rungs(q)[q.current - r + f + 1].size = q.pieces[i].liquidity
<1> DEFINE n == q.current - r + f + 1
<1>1. /\ i \in 1 .. Len(q.pieces) /\ i \in 1 .. Active(q) /\ r \in Nat
      /\ q.pieces[i].lower <= r /\ r <= q.current /\ q.current \in Nat
      /\ \A j \in i + 1 .. Active(q) : q.pieces[j].lower >= r
      /\ Active(q) \in 1 .. Len(q.pieces) /\ Len(q.pieces) \in Nat
  <2>1. Active(q) \in 1 .. Len(q.pieces) /\ Len(q.pieces) \in Nat /\ q.current \in Nat
    BY ActiveFacts, TicksFacts
  <2>2. i \in 1 .. Len(q.pieces) /\ i <= Active(q)
    BY DEF AtBoundary
  <2>3. i \in 1 .. Active(q)
    BY <2>1, <2>2
  <2> QED
    BY <2>1, <2>2, <2>3 DEF AtBoundary
<1>2. q.pieces[i].lower \in Nat /\ \A j \in i + 1 .. Active(q) : q.pieces[j].lower \in Nat
  <2>1. \A j \in i + 1 .. Active(q) : j \in 1 .. Len(q.pieces)
    BY <1>1
  <2> QED
    BY <1>1, <2>1, TicksFacts
<1>3. r - f \in Nat /\ q.pieces[i].lower < r - f /\ q.current - n + 1 = r - f
  <2> DEFINE low == q.pieces[i].lower
             top == q.current
  <2>1. low \in Nat /\ r \in Nat /\ top \in Nat /\ f \in 0 .. r - low - 1
    BY <1>1, <1>2
  <2> HIDE DEF low, top
  <2>2. f \in Nat /\ r - f \in Nat /\ low < r - f /\ top - (top - r + f + 1) + 1 = r - f
    BY <2>1
  <2> QED
    BY <2>2 DEF low, top
<1>4. \A j \in i + 1 .. Active(q) : q.pieces[j].lower >= r - f
  BY <1>1, <1>2
<1>5. LowestPrice(q) < r - f /\ SellerAt(q, r - f) = i
  <2> DEFINE e == r - f
  <2> HIDE DEF e
  <2>1. e \in Nat /\ q.pieces[i].lower < e /\ \A j \in i + 1 .. Active(q) : q.pieces[j].lower >= e
    BY <1>3, <1>4 DEF e
  <2>2. LowestPrice(q) < e /\ SellerAt(q, e) = i
    BY <1>1, <2>1, SellerIs
  <2> QED
    BY <2>2 DEF e
<1>6. n \in 1 .. Len(Rungs(q))
  <2> DEFINE N == Len(Rungs(q))
             top == q.current
             first == LowestPrice(q)
  <2>1. N = top - first /\ first \in Nat /\ first < r - f
    BY <1>5, TicksRungs
  <2>2. top \in Nat /\ r <= top /\ r \in Nat /\ f \in Nat
    BY <1>1, <1>2
  <2> HIDE DEF N, top, first
  <2>3. top - r + f + 1 \in 1 .. N
    BY <2>1, <2>2
  <2> QED
    BY <2>3 DEF N, top
<1>7. /\ Rungs(q)[n].price = q.current - n + 1
      /\ Rungs(q)[n].size = q.pieces[SellerAt(q, q.current - n + 1)].liquidity
  BY <1>6, TicksRungs
<1> QED
  BY <1>3, <1>5, <1>6, <1>7

(* What f units at each of f prices cost, from price r down. *)
Slope(r, f) == f * r - (f * (f - 1)) \div 2

(* The step of the sum of the prices from r down. *)
LEMMA SlopeStep ==
    ASSUME NEW r \in Nat, NEW f \in Nat
    PROVE  /\ Slope(r, f) \in Int /\ Slope(r, 0) = 0
           /\ Slope(r, f + 1) = Slope(r, f) + (r - f)
<1>1. (f + 1) * ((f + 1) - 1) = f * (f - 1) + 2 * f
  BY Z3
<1>2. \A a, b \in Int : (a + 2 * b) \div 2 = a \div 2 + b
  BY Z3
<1>3. f * (f - 1) \in Int /\ (f * (f - 1)) \div 2 \in Int /\ f * r \in Int
  <2>1. f * (f - 1) \in Int /\ f * r \in Int
    BY Z3
  <2>2. \A a \in Int : a \div 2 \in Int
    BY Z3
  <2> QED
    BY <2>1, <2>2
<1>4. (f + 1) * r = f * r + r
  BY Z3
<1>5. ((f + 1) * ((f + 1) - 1)) \div 2 = (f * (f - 1)) \div 2 + f
  BY <1>1, <1>2, <1>3
<1>6. Slope(r, f) \in Int
  BY <1>3 DEF Slope
<1>7. Slope(r, 0) = 0
  <2>1. 0 * r = 0 /\ 0 * (0 - 1) = 0 /\ 0 \div 2 = 0
    BY Z3
  <2> QED
    BY <2>1 DEF Slope
<1>8. Slope(r, f + 1) = Slope(r, f) + (r - f)
  <2>1. \A a, b, c, d \in Int : (a + b) - (c + d) = (a - c) + (b - d)
    OBVIOUS
  <2> QED
    BY <1>3, <1>4, <1>5, <2>1 DEF Slope
<1> QED
  BY <1>6, <1>7, <1>8

(* The part of a range above a price. *)
LEMMA RangeSells ==
    ASSUME NEW q, Accepted(q), IsTicks(q), NEW i, NEW r, AtBoundary(q, i, r),
           NEW f \in 0 .. r - q.pieces[i].lower
    PROVE  LET L == q.pieces[i].liquidity
               b == q.current - r
               u == UpTo(Rungs(q))
           IN /\ b + f \in 0 .. Len(Rungs(q))
              /\ u[b + f] = u[b] + L * f
              /\ Taken(Rungs(q), u[b + f]) = Taken(Rungs(q), u[b]) + L * Slope(r, f)
<1> DEFINE L == q.pieces[i].liquidity
           b == q.current - r
           u == UpTo(Rungs(q))
           R == Rungs(q)
           low == q.pieces[i].lower
<1>1. /\ i \in 1 .. Len(q.pieces) /\ i <= Active(q) /\ r \in Nat
      /\ low <= r /\ r <= q.current /\ q.current \in Nat
      /\ L \in Nat /\ low \in Nat
  <2>1. i \in 1 .. Len(q.pieces) 
    BY DEF AtBoundary
  <2> QED
    BY <2>1, TicksFacts DEF AtBoundary
<1>2. R \in Seq(Rung) /\ Len(R) \in Nat /\ b \in 0 .. Len(R)
  <2>1. /\ R \in Seq(Rung) /\ Len(R) = q.current - LowestPrice(q) /\ LowestPrice(q) \in Nat
        /\ LowestPrice(q) <= q.current
    BY TicksRungs
  <2>2. LowestPrice(q) <= low
    <3>1. 1 \in 1 .. Len(q.pieces) /\ 1 <= i
      BY <1>1
    <3> QED
      BY <1>1, <3>1, TicksFacts DEF LowestPrice
  <2>3. \A c, l, m, n \in Nat : m <= l /\ l <= n /\ n <= c => c - m \in Nat /\ c - n \in 0 .. c - m
    BY SMT
  <2>4. q.current - LowestPrice(q) \in Nat /\ q.current - r \in 0 .. q.current - LowestPrice(q)
    BY <1>1, <2>1, <2>2, <2>3
  <2> QED
    BY <2>1, <2>4
<1>3. u[b] \in Nat /\ Taken(R, u[b]) \in Nat
  BY <1>2, UpToRec, TakenType
<1> DEFINE T == {n \in Nat : n <= r - low =>
                    /\ b + n \in 0 .. Len(R) /\ u[b + n] = u[b] + L * n
                    /\ Taken(R, u[b + n]) = Taken(R, u[b]) + L * Slope(r, n)}
<1>4. 0 \in T
  <2>1. L * 0 = 0 /\ Slope(r, 0) = 0 /\ b + 0 = b
    <3>1. Slope(r, 0) = 0
      BY <1>1, SlopeStep
    <3> HIDE DEF L, b
    <3>2. L * 0 = 0 /\ b + 0 = b
      BY <1>1, <1>2
    <3> QED
      BY <3>1, <3>2
  <2> HIDE DEF L, b, u, R
  <2> QED
    BY <1>2, <1>3, <2>1
<1>5. ASSUME NEW n \in Nat, n \in T PROVE n + 1 \in T
  <2> SUFFICES ASSUME n + 1 <= r - low
               PROVE  /\ b + (n + 1) \in 0 .. Len(R) /\ u[b + (n + 1)] = u[b] + L * (n + 1)
                      /\ Taken(R, u[b + (n + 1)]) = Taken(R, u[b]) + L * Slope(r, n + 1)
    OBVIOUS
  <2>1. /\ b + n \in 0 .. Len(R) /\ u[b + n] = u[b] + L * n
        /\ Taken(R, u[b + n]) = Taken(R, u[b]) + L * Slope(r, n)
    BY <1>1, <1>5
  <2> DEFINE m == b + (n + 1)
  <2>2. m \in 1 .. Len(R) /\ R[m].price = r - n /\ R[m].size = L
    <3>1. n \in 0 .. r - q.pieces[i].lower - 1
      BY <1>1
    <3>2. q.current - r + n + 1 = m
      <4>1. \A c, d, e \in Int : c - d + e + 1 = (c - d) + (e + 1)
        BY SMT
      <4>2. q.current \in Int /\ r \in Int
        BY <1>1
      <4> QED
        BY <4>1, <4>2
    <3> QED
      BY <3>1, <3>2, RangeRung
  <2>3. m - 1 = b + n
    <3>1. b \in Int
      BY <1>1
    <3> HIDE DEF b
    <3> QED
      BY <3>1
  <2> HIDE DEF m
  <2>4. u[m] = u[b + n] + L
    BY <1>2, <2>2, <2>3, UpToRec
  <2>5. L \in 0 .. R[m].size
    BY <1>1, <2>2
  <2>6. Taken(R, u[b + n] + L) = Taken(R, u[b + n]) + (r - n) * L
    BY <1>2, <2>2, <2>3, <2>5, TakenInRung
  <2>7. /\ L * (n + 1) = L * n + L /\ L * n \in Nat
        /\ L * (Slope(r, n) + (r - n)) = L * Slope(r, n) + (r - n) * L
        /\ L * Slope(r, n) \in Int /\ (r - n) * L \in Int
        /\ Slope(r, n + 1) = Slope(r, n) + (r - n)
    <3>1. \A x, y, z \in Int : x * (y + z) = x * y + z * x /\ x * y \in Int /\ z * x \in Int
      BY SMT
    <3>2. Slope(r, n) \in Int /\ Slope(r, n + 1) = Slope(r, n) + (r - n) /\ r - n \in Int
      BY <1>1, SlopeStep
    <3> HIDE DEF L
    <3>3. L * (n + 1) = L * n + L /\ L * n \in Nat
      <4>1. \A x, y \in Nat : x * (y + 1) = x * y + x /\ x * y \in Nat
        BY SMT
      <4> QED
        BY <1>1, <4>1
    <3> QED
      BY <1>1, <3>1, <3>2, <3>3
  <2> HIDE DEF L, b, u, R
  <2>8. u[m] = u[b] + L * (n + 1)
    BY <1>1, <1>3, <2>1, <2>4, <2>7
  <2>9. Taken(R, u[m]) = Taken(R, u[b]) + L * Slope(r, n + 1)
    <3>1. Taken(R, u[m]) = (Taken(R, u[b]) + L * Slope(r, n)) + (r - n) * L
      BY <2>1, <2>4, <2>6
    <3> QED
      BY <1>3, <2>7, <3>1
  <2> QED
    BY <2>2, <2>8, <2>9 DEF m
<1>6. f \in T /\ f <= r - low
  <2>1. f \in Nat /\ f <= r - low
    BY <1>1
  <2> HIDE DEF T
  <2> QED
    BY <1>4, <1>5, <2>1, NatSet
<1> QED
  BY <1>6

(* Both walks begin at a boundary, with nothing held. *)
LEMMA EntryIsBoundary ==
    ASSUME NEW q, Accepted(q)
    PROVE  AtBoundary(q, Active(q), EntryPrice(q)) /\ Held(q, Active(q), EntryPrice(q)) = 0
<1>1. Active(q) \in 1 .. Len(q.pieces) /\ UpTo(Rungs(q))[0] = 0
  BY ActiveFacts, RungsType, UpToRec
<1>2. CASE IsTicks(q)
  <2>1. /\ Len(q.pieces) \in Nat /\ q.current \in Nat
        /\ q.pieces[Active(q)].lower <= q.current
    BY <1>2, ActiveFacts, TicksFacts
  <2>2. \A j \in Active(q) + 1 .. Active(q) : FALSE
    BY <1>1
  <2>3. Behind(q, Active(q), EntryPrice(q)) = 0
    BY <1>2, <2>1 DEF Behind, EntryPrice
  <2> QED
    BY <1>1, <1>2, <2>1, <2>2, <2>3 DEF AtBoundary, EntryPrice, Held
<1>3. CASE ~IsTicks(q)
  <2>1. Active(q) = q.active /\ q.active \in 1 .. Len(q.pieces)
    BY <1>3, BinsFacts
  <2>2. Behind(q, Active(q), EntryPrice(q)) = 0
    BY <1>3, <2>1 DEF Behind
  <2> QED
    BY <1>1, <1>3, <2>1, <2>2 DEF AtBoundary, EntryPrice, Held
<1> QED
  BY <1>2, <1>3

-----------------------------------------------------------------------------
(* A range. *)

(* What is known at a boundary of ranges. *)
LEMMA RangeBoundary ==
    ASSUME NEW q, Accepted(q), IsTicks(q), NEW i, NEW r, AtBoundary(q, i, r)
    PROVE  /\ i \in 1 .. Len(q.pieces) /\ i <= Active(q) /\ r \in Nat
           /\ Active(q) \in 1 .. Len(q.pieces) /\ Len(q.pieces) \in Nat
           /\ q.pieces[i].lower \in Nat /\ q.pieces[i].lower <= r
           /\ q.current \in Nat /\ r <= q.current
           /\ q.pieces[i].liquidity \in Nat \ {0}
           /\ Rungs(q) \in Seq(Rung) /\ Len(Rungs(q)) \in Nat
           /\ q.current - r \in 0 .. Len(Rungs(q)) /\ Held(q, i, r) = UpTo(Rungs(q))[q.current - r]
           /\ Held(q, i, r) \in Nat
<1>1. /\ i \in 1 .. Len(q.pieces) /\ i <= Active(q) /\ r \in Nat
      /\ q.pieces[i].lower <= r /\ r <= q.current
  BY DEF AtBoundary
<1>2. /\ q.current \in Nat /\ q.pieces[i].lower \in Nat /\ q.pieces[i].liquidity \in Nat \ {0}
      /\ Len(q.pieces) \in Nat /\ Active(q) \in 1 .. Len(q.pieces)
  BY <1>1, TicksFacts, ActiveFacts
<1>3. 0 \in 0 .. r - q.pieces[i].lower
  <2> DEFINE low == q.pieces[i].lower
  <2>1. low \in Nat /\ low <= r
    BY <1>1, <1>2
  <2> HIDE DEF low
  <2>2. 0 \in 0 .. r - low
    BY <1>1, <2>1
  <2> QED
    BY <2>2 DEF low
<1>4. q.current - r + 0 \in 0 .. Len(Rungs(q))
  BY <1>3, RangeSells
<1>5. q.current - r + 0 = q.current - r
  BY <1>1, <1>2
<1>6. Rungs(q) \in Seq(Rung) /\ Len(Rungs(q)) \in Nat
  BY RungsType, RungType
<1>7. q.current - r \in 0 .. Len(Rungs(q)) /\ Held(q, i, r) = UpTo(Rungs(q))[q.current - r]
  BY <1>4, <1>5 DEF Held, Behind
<1>8. Held(q, i, r) \in Nat
  BY <1>6, <1>7, UpToRec
<1> QED
  BY <1>1, <1>2, <1>6, <1>7, <1>8

(* From where the walk enters a range, its capacity is what is sold down to *)
(* its lower price,                                                         *)
LEMMA RangeCapacity ==
    ASSUME NEW q, Accepted(q), IsTicks(q), NEW i, NEW r, AtBoundary(q, i, r)
    PROVE  /\ Capacity(q, i, r) \in Nat
           /\ q.current - q.pieces[i].lower \in 0 .. Len(Rungs(q))
           /\ Held(q, i, r) + Capacity(q, i, r) = UpTo(Rungs(q))[q.current - q.pieces[i].lower]
<1> DEFINE L == q.pieces[i].liquidity
           low == q.pieces[i].lower
           u == UpTo(Rungs(q))
           b == q.current - r
<1>1. /\ L \in Nat /\ low \in Nat /\ r \in Nat /\ low <= r /\ q.current \in Nat
      /\ Held(q, i, r) = u[b]
  BY RangeBoundary
<1>2. r - low \in 0 .. r - low /\ b + (r - low) = q.current - low
  <2> HIDE DEF low
  <2> QED
    BY <1>1
<1>3. b + (r - low) \in 0 .. Len(Rungs(q)) /\ u[b + (r - low)] = u[b] + L * (r - low)
  BY <1>2, RangeSells
<1>4. Capacity(q, i, r) = L * (r - low)
  BY DEF Capacity
<1>5. L * (r - low) \in Nat
  <2> HIDE DEF L, low
  <2>1. r - low \in Nat
    BY <1>1
  <2> QED
    BY <1>1, <2>1
<1> QED
  BY <1>1, <1>2, <1>3, <1>4, <1>5

(* and the formula of the range is the sum over its prices. *)
LEMMA RangeFilled ==
    ASSUME NEW q, Accepted(q), IsTicks(q), NEW i, NEW r, AtBoundary(q, i, r),
           NEW x \in 0 .. Capacity(q, i, r)
    PROVE  Sold(q, Held(q, i, r) + x) = Sold(q, Held(q, i, r)) + Filled(q, i, r, x)
<1> DEFINE L == q.pieces[i].liquidity
           low == q.pieces[i].lower
           R == Rungs(q)
           u == UpTo(R)
           b == q.current - r
           f == x \div L
           y == x % L
           h == Held(q, i, r)
<1>1. /\ L \in Nat \ {0} /\ low \in Nat /\ r \in Nat /\ low <= r /\ q.current \in Nat
      /\ h = u[b] /\ R \in Seq(Rung) /\ h \in Nat
  BY RangeBoundary
<1>2. x \in Nat /\ x <= L * (r - low)
  <2>1. Capacity(q, i, r) = L * (r - low) /\ Capacity(q, i, r) \in Nat
    BY RangeCapacity DEF Capacity
  <2> HIDE DEF L
  <2>2. x \in 0 .. Capacity(q, i, r)
    OBVIOUS
  <2> QED
    BY <2>1, <2>2
<1>3. /\ f \in Nat /\ y \in Nat /\ y < L /\ x = L * f + y
      /\ f <= r - low /\ (f = r - low => y = 0)
  <2>1. ASSUME NEW m \in Nat, NEW n \in Nat \ {0}, NEW w \in Nat, m <= n * w
        PROVE  /\ m \div n \in Nat /\ m % n \in Nat /\ m % n < n /\ m = n * (m \div n) + (m % n)
               /\ m \div n <= w /\ (m \div n = w => m % n = 0)
    <3>1. m \div n \in Nat /\ m % n \in Nat /\ m % n < n
      BY Z3
    <3>2. m = n * (m \div n) + (m % n)
      BY Z3
    <3> DEFINE d == m \div n
               e == m % n
    <3>3. d \in Nat /\ e \in Nat /\ m = n * d + e
      BY <3>1, <3>2
    <3> HIDE DEF d, e
    <3>4. d <= w
      <4>1. \A a, c \in Nat : a + 1 <= c => n * a + n <= n * c
        BY SMT
      <4>2. \A a, c \in Nat : n * a \in Nat
        BY SMT
      <4>3. ~(w + 1 <= d)
        <5>1. ASSUME w + 1 <= d PROVE FALSE
          <6>1. n * w + n <= n * d
            BY <3>3, <4>1, <5>1
          <6>2. n * w \in Nat /\ n * d \in Nat
            BY <3>3, <4>2
          <6> QED
            BY <2>1, <3>3, <6>1, <6>2
        <5> QED
          BY <5>1
      <4> QED
        BY <3>3, <4>3
    <3>5. d = w => e = 0
      <4>1. n * w \in Nat
        BY SMT
      <4> QED
        BY <2>1, <3>3, <4>1
    <3> QED
      BY <3>1, <3>2, <3>4, <3>5 DEF d, e
  <2>2. r - low \in Nat
    <3> HIDE DEF low
    <3> QED
      BY <1>1
  <2> HIDE DEF L, low
  <2>3. x \in Nat
    BY <1>2
  <2> HIDE DEF h
  <2> QED
    BY <1>1, <1>2, <2>1, <2>2
<1>4. /\ b + f \in 0 .. Len(R) /\ u[b + f] = h + L * f
      /\ Taken(R, u[b + f]) = Taken(R, h) + L * Slope(r, f)
  <2>1. f \in 0 .. r - low
    <3> HIDE DEF f, low
    <3> QED
      BY <1>1, <1>3
  <2> HIDE DEF f
  <2> QED
    BY <1>1, <2>1, RangeSells
<1>5. Taken(R, u[b + f] + y) = Taken(R, u[b + f]) + (r - f) * y
  <2>0. u[b + f] \in Nat
    BY <1>1, <1>4, UpToRec
  <2>1. CASE y = 0
    <3>1. u[b + f] + 0 = u[b + f] /\ (r - f) * 0 = 0 /\ Taken(R, u[b + f]) \in Nat
      <4>1. r - f \in Int /\ Taken(R, u[b + f]) \in Nat
        <5>1. f \in Nat
          BY <1>3
        <5>2. \A e \in Nat : Taken(R, e) \in Nat
          <6> HIDE DEF R
          <6> QED
            BY <1>1, TakenType
        <5>3. Taken(R, u[b + f]) \in Nat
          <6> HIDE DEF f, u, b, R
          <6> QED
            BY <2>0, <5>2
        <5> HIDE DEF f, u, b
        <5> QED
          BY <1>1, <5>1, <5>3
      <4> HIDE DEF f, u, b
      <4> QED
        BY <2>0, <4>1
    <3> HIDE DEF y, f, u, b
    <3> QED
      BY <2>1, <3>1
  <2>2. CASE y # 0
    <3>1. f \in 0 .. r - low - 1
      <4> HIDE DEF f, y, low, L, b, u, h
      <4> QED
        BY <1>1, <1>3, <2>2
    <3>2. /\ b + f + 1 \in 1 .. Len(R) /\ R[b + f + 1].price = r - f /\ R[b + f + 1].size = L
      <4> HIDE DEF f
      <4> QED
        BY <3>1, RangeRung
    <3>3. (b + f + 1) - 1 = b + f /\ y \in 0 .. L
      <4>1. b \in Int
        BY <1>1
      <4> HIDE DEF f, y, L, b, u, h
      <4> QED
        BY <1>1, <1>3, <4>1
    <3> HIDE DEF b, f, y, R, u
    <3> QED
      BY <1>1, <3>2, <3>3, TakenInRung DEF u
  <2> QED
    BY <2>1, <2>2
<1>6. Filled(q, i, r, x) = L * Slope(r, f) + y * (r - f)
  BY DEF Filled, Slope
<1>7. h + x = u[b + f] + y
  <2>1. L * f \in Nat
    <3> HIDE DEF L, f, h, u, b, y
    <3> QED
      BY <1>1, <1>3
  <2> HIDE DEF L, f, h, u, b, y
  <2> QED
    BY <1>1, <1>2, <1>3, <1>4, <2>1
<1>8. Sold(q, h + x) = Taken(R, u[b + f]) + (r - f) * y /\ Sold(q, h) = Taken(R, h)
  BY <1>5, <1>7, RungsType
<1>9. /\ (r - f) * y = y * (r - f) /\ y * (r - f) \in Int /\ L * Slope(r, f) \in Int
      /\ Taken(R, h) \in Nat
  <2>1. \A m, n \in Int : m * n = n * m /\ m * n \in Int
    BY SMT
  <2>2. r - f \in Int /\ y \in Int /\ L \in Int /\ Slope(r, f) \in Int
    <3>1. f \in Nat /\ y \in Nat /\ L \in Nat
      BY <1>1, <1>3
    <3> HIDE DEF f, y, L
    <3> QED
      BY <1>1, <3>1, SlopeStep
  <2>3. Taken(R, h) \in Nat
    BY <1>1, TakenType
  <2> HIDE DEF f, y, L, h, R
  <2> QED
    BY <2>1, <2>2, <2>3
<1> HIDE DEF L, f, y, R, u, b
<1>10. Sold(q, h + x) = Sold(q, h) + (L * Slope(r, f) + y * (r - f))
  BY <1>4, <1>8, <1>9
<1> QED
  BY <1>6, <1>10

(* Below the lower price of a range the next one sells, gap or overlap. *)
LEMMA RangeFollows ==
    ASSUME NEW q, Accepted(q), IsTicks(q), NEW i, NEW r, AtBoundary(q, i, r), ~IsLast(q, i)
    PROVE  /\ AtBoundary(q, Following(q, i), ExitPrice(q, i))
           /\ Held(q, Following(q, i), ExitPrice(q, i)) = Held(q, i, r) + Capacity(q, i, r)
<1> DEFINE low == q.pieces[i].lower
<1>1. /\ i \in 1 .. Len(q.pieces) /\ i # 1 /\ i <= Active(q) /\ low \in Nat /\ low <= r
      /\ r <= q.current /\ q.current \in Nat /\ r \in Nat /\ Len(q.pieces) \in Nat
      /\ Active(q) \in 1 .. Len(q.pieces)
  BY RangeBoundary DEF IsLast
<1>2. Following(q, i) = i - 1 /\ ExitPrice(q, i) = low
  BY DEF Following, ExitPrice
<1>3. /\ i - 1 \in 1 .. Len(q.pieces) /\ i - 1 <= Active(q) /\ i - 1 <= i
      /\ (i - 1) + 1 = i /\ \A j \in i .. Active(q) : j \in 1 .. Len(q.pieces) /\ i <= j
  BY <1>1
<1>4. q.pieces[i - 1].lower <= low /\ \A j \in i .. Active(q) : q.pieces[j].lower >= low
  <2>1. \A j \in i .. Active(q) : q.pieces[i].lower <= q.pieces[j].lower
    BY <1>1, <1>3, TicksFacts
  <2>2. \A j \in i .. Active(q) : q.pieces[j].lower \in Nat
    BY <1>3, TicksFacts
  <2>3. q.pieces[i - 1].lower <= q.pieces[i].lower
    BY <1>1, <1>3, TicksFacts
  <2> HIDE DEF low
  <2>4. \A j \in i .. Active(q) : q.pieces[j].lower >= low
    BY <1>1, <2>1, <2>2 DEF low
  <2> QED
    BY <2>3, <2>4 DEF low
<1>5. low <= q.current
  <2> HIDE DEF low
  <2> QED
    BY <1>1
<1>6. AtBoundary(q, i - 1, low)
  <2> HIDE DEF low
  <2> QED
    BY <1>1, <1>3, <1>4, <1>5 DEF AtBoundary
<1>7. Held(q, i - 1, low) = UpTo(Rungs(q))[q.current - low]
  BY DEF Held, Behind
<1> QED
  BY <1>2, <1>6, <1>7, RangeCapacity

-----------------------------------------------------------------------------
(* A bin. *)

(* What is known at a boundary of bins. *)
LEMMA BinBoundary ==
    ASSUME NEW q, Accepted(q), ~IsTicks(q), NEW i, NEW r, AtBoundary(q, i, r)
    PROVE  LET n == i - q.active + 1
           IN /\ i \in 1 .. Len(q.pieces) /\ q.active \in 1 .. Len(q.pieces) /\ q.active <= i
              /\ Len(q.pieces) \in Nat /\ r = 0
              /\ Rungs(q) \in Seq(Rung) /\ n \in 1 .. Len(Rungs(q))
              /\ Len(Rungs(q)) = Len(q.pieces) - q.active + 1
              /\ Rungs(q)[n] = q.pieces[i]
              /\ q.pieces[i].price \in Nat /\ q.pieces[i].size \in Nat
              /\ Held(q, i, r) = UpTo(Rungs(q))[n - 1] /\ Held(q, i, r) \in Nat
              /\ Capacity(q, i, r) = q.pieces[i].size
              /\ UpTo(Rungs(q))[n] = Held(q, i, r) + Capacity(q, i, r)
<1> DEFINE n == i - q.active + 1
<1>1. /\ i \in 1 .. Len(q.pieces) /\ q.active \in 1 .. Len(q.pieces) /\ q.active <= i
      /\ Len(q.pieces) \in Nat /\ r = 0 
  BY BinsFacts DEF AtBoundary
<1>2. /\ Rungs(q) \in Seq(Rung) /\ Len(Rungs(q)) = Len(q.pieces) - q.active + 1
      /\ \A m \in 1 .. Len(Rungs(q)) : Rungs(q)[m] = q.pieces[q.active + m - 1]
  BY BinsRungs
<1>3. n \in 1 .. Len(Rungs(q)) /\ q.active + n - 1 = i /\ n - 1 = i - q.active
      /\ n - 1 \in 0 .. Len(Rungs(q))
  <2> DEFINE a == q.active
             l == Len(q.pieces)
             w == Len(Rungs(q))
  <2>1. i \in 1 .. l /\ a \in 1 .. l /\ a <= i /\ l \in Nat /\ w = l - a + 1
    BY <1>1, <1>2
  <2> HIDE DEF a, l, w
  <2>2. i - a + 1 \in 1 .. w /\ a + (i - a + 1) - 1 = i /\ (i - a + 1) - 1 = i - a
        /\ i - a + 1 - 1 \in 0 .. w
    BY <2>1
  <2> QED
    BY <2>2 DEF a, l, w
<1> HIDE DEF n
<1>4. Rungs(q)[n] = q.pieces[i]
  BY <1>2, <1>3
<1>5. q.pieces[i].price \in Nat /\ q.pieces[i].size \in Nat
  BY <1>1, BinsFacts
<1>6. Held(q, i, r) = UpTo(Rungs(q))[n - 1] /\ Capacity(q, i, r) = q.pieces[i].size
  BY <1>3 DEF Held, Behind, Capacity
<1>7. UpTo(Rungs(q))[n - 1] \in Nat /\ UpTo(Rungs(q))[n] = UpTo(Rungs(q))[n - 1] + Rungs(q)[n].size
  BY <1>2, <1>3, UpToRec
<1> QED
  BY <1>1, <1>2, <1>3, <1>4, <1>5, <1>6, <1>7 DEF n

(* A part of a bin is sold at its price. *)
LEMMA BinFilled ==
    ASSUME NEW q, Accepted(q), ~IsTicks(q), NEW i, NEW r, AtBoundary(q, i, r),
           NEW x \in 0 .. Capacity(q, i, r)
    PROVE  Sold(q, Held(q, i, r) + x) = Sold(q, Held(q, i, r)) + Filled(q, i, r, x)
<1> DEFINE n == i - q.active + 1
<1>1. /\ Rungs(q) \in Seq(Rung) /\ n \in 1 .. Len(Rungs(q)) /\ Rungs(q)[n] = q.pieces[i]
      /\ Held(q, i, r) = UpTo(Rungs(q))[n - 1] /\ Capacity(q, i, r) = q.pieces[i].size
  BY BinBoundary
<1>2. Filled(q, i, r, x) = q.pieces[i].price * x
  BY DEF Filled
<1>3. x \in 0 .. Rungs(q)[n].size
  BY <1>1
<1> HIDE DEF n
<1>4. Taken(Rungs(q), UpTo(Rungs(q))[n - 1] + x)
         = Taken(Rungs(q), UpTo(Rungs(q))[n - 1]) + Rungs(q)[n].price * x
  BY <1>1, <1>3, TakenInRung
<1> QED
  BY <1>1, <1>2, <1>4, RungsType

(* The next bin begins where this one ends. *)
LEMMA BinFollows ==
    ASSUME NEW q, Accepted(q), ~IsTicks(q), NEW i, NEW r, AtBoundary(q, i, r), ~IsLast(q, i)
    PROVE  /\ AtBoundary(q, Following(q, i), ExitPrice(q, i))
           /\ Held(q, Following(q, i), ExitPrice(q, i)) = Held(q, i, r) + Capacity(q, i, r)
<1>1. /\ i \in 1 .. Len(q.pieces) /\ q.active \in 1 .. Len(q.pieces) /\ q.active <= i
      /\ Len(q.pieces) \in Nat /\ i # Len(q.pieces) /\ Active(q) = q.active
      /\ UpTo(Rungs(q))[i - q.active + 1] = Held(q, i, r) + Capacity(q, i, r)
  BY BinBoundary, BinsFacts DEF IsLast
<1>2. Following(q, i) = i + 1 /\ ExitPrice(q, i) = 0
  BY DEF Following, ExitPrice
<1>3. i + 1 \in 1 .. Len(q.pieces) /\ q.active <= i + 1 /\ (i + 1) - q.active = i - q.active + 1
  BY <1>1
<1>4. AtBoundary(q, i + 1, 0)
  BY <1>1, <1>3 DEF AtBoundary
<1>5. Held(q, i + 1, 0) = UpTo(Rungs(q))[i - q.active + 1]
  BY <1>3 DEF Held, Behind
<1> QED
  BY <1>1, <1>2, <1>4, <1>5

-----------------------------------------------------------------------------
(* Any piece. *)

(* What both kinds of pieces have in common: they hold what they hold, *)
LEMMA PieceFacts ==
    ASSUME NEW q, Accepted(q), NEW i, NEW r, AtBoundary(q, i, r)
    PROVE  /\ i \in 1 .. Len(q.pieces) /\ r \in Nat
           /\ Capacity(q, i, r) \in Nat /\ Held(q, i, r) \in Nat /\ Total(q) \in Nat
           /\ Held(q, i, r) + Capacity(q, i, r) <= Total(q)
           /\ IsLast(q, i) => Held(q, i, r) + Capacity(q, i, r) = Total(q)
<1>1. Rungs(q) \in Seq(Rung) /\ Total(q) = All(Rungs(q)) /\ Total(q) \in Nat
  BY RungsType, AllType
<1>2. CASE IsTicks(q)
  <2> DEFINE n == q.current - q.pieces[i].lower
  <2>1. /\ Capacity(q, i, r) \in Nat /\ n \in 0 .. Len(Rungs(q))
        /\ Held(q, i, r) + Capacity(q, i, r) = UpTo(Rungs(q))[n]
    BY <1>2, RangeCapacity
  <2>2. i \in 1 .. Len(q.pieces) /\ r \in Nat /\ Held(q, i, r) \in Nat
    BY <1>2, RangeBoundary
  <2>3. IsLast(q, i) => n = Len(Rungs(q))
    BY <1>2, TicksRungs DEF IsLast, LowestPrice
  <2> HIDE DEF n
  <2>4. UpTo(Rungs(q))[n] <= All(Rungs(q))
    BY <1>1, <2>1, AllType
  <2> QED
    BY <1>1, <2>1, <2>2, <2>3, <2>4 DEF All
<1>3. CASE ~IsTicks(q)
  <2> DEFINE n == i - q.active + 1
  <2>1. /\ n \in 1 .. Len(Rungs(q)) /\ i \in 1 .. Len(q.pieces) /\ r = 0
        /\ Len(Rungs(q)) = Len(q.pieces) - q.active + 1
        /\ Held(q, i, r) \in Nat /\ Capacity(q, i, r) = q.pieces[i].size
        /\ q.pieces[i].size \in Nat
        /\ UpTo(Rungs(q))[n] = Held(q, i, r) + Capacity(q, i, r)
    BY <1>3, BinBoundary
  <2>2. IsLast(q, i) => n = Len(Rungs(q))
    BY <1>3, <2>1 DEF IsLast
  <2>3. n \in 0 .. Len(Rungs(q))
    BY <2>1
  <2> HIDE DEF n
  <2>4. UpTo(Rungs(q))[n] <= All(Rungs(q))
    BY <1>1, <2>3, AllType
  <2> QED
    BY <1>1, <2>1, <2>2, <2>4 DEF All
<1> QED
  BY <1>2, <1>3

(* the formula of quote gives what their rungs sell, *)
LEMMA PieceFilled ==
    ASSUME NEW q, Accepted(q), NEW i, NEW r, AtBoundary(q, i, r),
           NEW x \in 0 .. Capacity(q, i, r)
    PROVE  Sold(q, Held(q, i, r) + x) = Sold(q, Held(q, i, r)) + Filled(q, i, r, x)
BY RangeFilled, BinFilled

(* and the next boundary is the next piece. *)
LEMMA PieceFollows ==
    ASSUME NEW q, Accepted(q), NEW i, NEW r, AtBoundary(q, i, r), ~IsLast(q, i)
    PROVE  /\ AtBoundary(q, Following(q, i), ExitPrice(q, i))
           /\ Held(q, Following(q, i), ExitPrice(q, i)) = Held(q, i, r) + Capacity(q, i, r)
BY RangeFollows, BinFollows

(* A pool's market quotes its only leg, *)
LEMMA OneLeg ==
    ASSUME NEW m, NEW leg, m.legs = <<leg>>, NEW x
    PROVE  Output(m, x) = Quote(leg, x)
<1> DEFINE IsOutput(f) ==
             f = [i \in 0 .. Len(m.legs) |-> IF i = 0 THEN x ELSE Quote(m.legs[i], f[i - 1])]
           g == [i \in 0 .. 1 |-> IF i = 0 THEN x ELSE Quote(leg, x)]
<1>1. Len(m.legs) = 1 /\ m.legs[1] = leg
  OBVIOUS
<1>2. g = [i \in 0 .. 1 |-> IF i = 0 THEN x ELSE Quote(m.legs[i], g[i - 1])]
  <2>1. \A i \in 0 .. 1 : g[i] = IF i = 0 THEN x ELSE Quote(m.legs[i], g[i - 1])
    <3>1. g[0] = x /\ g[1] = Quote(leg, x)
      OBVIOUS
    <3> HIDE DEF g
    <3>2. \A i \in 0 .. 1 : i = 0 \/ i = 1
      OBVIOUS
    <3>3. 1 - 1 = 0
      OBVIOUS
    <3>4. g[1] = Quote(m.legs[1], g[1 - 1])
      BY <1>1, <3>1, <3>3
    <3> QED
      BY <3>1, <3>2, <3>4
  <2> QED
    BY <2>1
<1>3. IsOutput(g)
  <2> HIDE DEF g
  <2> QED
    BY <1>1, <1>2
<1> DEFINE f == CHOOSE h : IsOutput(h)
<1>4. IsOutput(f)
  <2> HIDE DEF IsOutput, g
  <2> QED
    BY <1>3
<1>5. Output(m, x) = f[Len(m.legs)]
  BY DEF Output
<1> HIDE DEF f
<1>6. f[0] = x /\ f[1] = Quote(m.legs[1], f[0])
  <2>1. f = [i \in 0 .. 1 |-> IF i = 0 THEN x ELSE Quote(m.legs[i], f[i - 1])]
    BY <1>1, <1>4
  <2>2. 0 \in 0 .. 1 /\ 1 \in 0 .. 1 /\ 1 - 1 = 0
    OBVIOUS
  <2> QED
    BY <2>1, <2>2
<1> QED
  BY <1>1, <1>5, <1>6

(* The inputs that a market has an output for. *)
InTable(m, x) ==
    x <= Total(m.pool) \/ (~IsTicks(m.pool) /\ x <= Total(m.pool) + Surplus)

(* which is a table of what its pool sells. *)
LEMMA OutputIsSold ==
    ASSUME NEW m \in Markets, NEW x \in Nat, InTable(m, x)
    PROVE  Output(m, x) = Sold(m.pool, x) /\ Sold(m.pool, x) \in Nat
<1> DEFINE q == m.pool
           D == 0 .. IF IsTicks(q) THEN Total(q) ELSE Total(q) + Surplus
<1>1. Accepted(q) /\ m.legs = <<OutputTable(q)>> /\ Surplus \in Nat
  BY TickAssumption
<1>2. Output(m, x) = Quote(OutputTable(q), x)
  BY <1>1, OneLeg
<1>3. /\ Rungs(q) \in Seq(Rung) /\ Total(q) \in Nat /\ Sold(q, x) = Taken(Rungs(q), x)
  BY <1>1, RungsType, AllType
<1>4. x \in D
  <2>1. CASE IsTicks(q)
    BY <1>3, <2>1 DEF InTable
  <2>2. CASE ~IsTicks(q)
    BY <1>1, <1>3, <2>2 DEF InTable
  <2> QED
    BY <2>1, <2>2
<1>5. OutputTable(q) = [y \in D |-> Sold(q, y)]
  BY DEF OutputTable
<1> HIDE DEF D
<1>6. Quote(OutputTable(q), x) = Sold(q, x)
  BY <1>4, <1>5 DEF Quote
<1>7. Taken(Rungs(q), x) \in Nat
  BY <1>3, TakenType
<1> QED
  BY <1>2, <1>3, <1>6, <1>7

(* More than a market's table holds cannot be filled. *)
LEMMA OutputBeyond ==
    ASSUME NEW m \in Markets, NEW x \in Nat, Feasible(m, x)
    PROVE  InTable(m, x)
<1> DEFINE q == m.pool
           D == 0 .. IF IsTicks(q) THEN Total(q) ELSE Total(q) + Surplus
<1>1. Accepted(q) /\ m.legs = <<OutputTable(q)>> /\ Surplus \in Nat
  BY TickAssumption
<1>2. Output(m, x) = Quote(OutputTable(q), x)
  BY <1>1, OneLeg
<1>3. Total(q) \in Nat
  BY <1>1, RungsType, AllType
<1>4. DOMAIN OutputTable(q) = D
  BY DEF OutputTable
<1>5. x \in D
  <2> HIDE DEF D
  <2> QED
    BY <1>2, <1>4, MarketAssumption DEF Quote, Feasible
<1> QED
  BY <1>1, <1>3, <1>5 DEF InTable

(* The net profit is the gain less the fixed cost. *)
LEMMA ProfitIsGain ==
    ASSUME NEW m \in Markets, NEW x \in Nat, x <= Total(m.pool)
    PROVE  /\ NetProfit(m, x) = Gain(Rungs(m.pool), m.price, x) - m.fixed
           /\ Gain(Rungs(m.pool), m.price, x) \in Int
           /\ m.price \in Nat /\ m.fixed \in Nat
<1>1. m.price \in Nat /\ m.fixed \in Nat
  BY MarketAssumption
<1>2. Accepted(m.pool)
  BY TickAssumption
<1>3. Output(m, x) = Taken(Rungs(m.pool), x) /\ Rungs(m.pool) \in Seq(Rung)
  <2>1. Output(m, x) = Sold(m.pool, x)
    BY OutputIsSold DEF InTable
  <2>2. Rungs(m.pool) \in Seq(Rung) /\ Sold(m.pool, x) = Taken(Rungs(m.pool), x)
    BY <1>2, RungsType
  <2> QED
    BY <2>1, <2>2
<1>4. Gain(Rungs(m.pool), m.price, x) \in Int
  BY <1>1, <1>3, GainType
<1>5. NetProfit(m, x) = Gain(Rungs(m.pool), m.price, x) - m.fixed
  BY <1>3 DEF NetProfit, Gain
<1> QED
  BY <1>1, <1>4, <1>5

(* max_size only makes a size smaller. *)
LEMMA ClipFacts ==
    ASSUME NEW x \in Nat, limit \in Limits \cup {NoLimit}
    PROVE  /\ Clip(x) \in Nat /\ Clip(x) <= x /\ Within(limit, Clip(x))
           /\ Clip(x) = x \/ (limit \in Nat /\ Clip(x) = limit)
<1>1. limit = NoLimit \/ (limit # NoLimit /\ limit \in Nat)
  BY MarketAssumption
<1> QED
  BY <1>1 DEF Clip, Smaller, Within

(* The best size is where the rungs stop being worth more than the          *)
(* reference price, as far as max_size allows.                              *)
LEMMA RootIsBest ==
    ASSUME market \in Markets, limit \in Limits \cup {NoLimit},
           NEW r, Divides(Rungs(pool), market.price, r)
    PROVE  /\ UpTo(Rungs(pool))[r] \in Nat
           /\ Clip(UpTo(Rungs(pool))[r]) \in 0 .. Total(pool)
           /\ Within(limit, Clip(UpTo(Rungs(pool))[r]))
           /\ IsBest(Clip(UpTo(Rungs(pool))[r]))
<1> DEFINE R == Rungs(pool)
           z == UpTo(R)[r]
           b == Clip(z)
           G(x) == Gain(R, market.price, x)
<1>1. Accepted(pool) /\ market.price \in Nat
  BY TickAssumption, MarketAssumption DEF pool
<1>2. R \in Seq(Rung) /\ Total(pool) = All(R) /\ All(R) \in Nat
  BY <1>1, RungsType, AllType
<1>3. z \in Nat /\ z <= Total(pool)
  BY <1>2, AllType DEF Divides
<1>4. b \in Nat /\ b <= z /\ Within(limit, b) /\ (b = z \/ (limit \in Nat /\ b = limit))
  <2> HIDE DEF z
  <2> QED
    BY <1>3, ClipFacts
<1>5. b \in 0 .. Total(pool)
  <2> HIDE DEF z, b
  <2> QED
    BY <1>2, <1>3, <1>4
<1>6. ASSUME NEW y \in 0 .. Total(pool), Within(limit, y)
      PROVE  NetProfit(market, y) <= NetProfit(market, b)
  <2>1. y \in Nat /\ y <= Total(pool)
    BY <1>2
  <2>2. G(y) <= G(b)
    <3>1. CASE y <= b
      <4> HIDE DEF b, R
      <4> QED
        BY <1>1, <1>2, <1>3, <1>4, <2>1, <3>1, GainRises DEF R
    <3>2. CASE b < y
      <4>1. b = z
        <5>1. limit \notin Nat \/ y <= limit
          <6>1. NoLimit \notin Nat
            BY MarketAssumption
          <6> QED
            BY <1>6, <6>1 DEF Within
        <5> HIDE DEF b, z
        <5> QED
          BY <1>4, <2>1, <3>2, <5>1
      <4> HIDE DEF b, R
      <4>2. UpTo(R)[r] <= b /\ b <= y /\ y <= All(R)
        BY <1>2, <1>3, <1>4, <2>1, <3>2, <4>1
      <4> QED
        BY <1>1, <1>2, <1>4, <2>1, <4>2, GainFalls DEF R
    <3> QED
      BY <1>4, <2>1, <3>1, <3>2
  <2>3. /\ NetProfit(market, y) = G(y) - market.fixed
        /\ NetProfit(market, b) = G(b) - market.fixed
        /\ G(y) \in Int /\ G(b) \in Int /\ market.fixed \in Nat
    <3>1. \A x \in Nat : x <= Total(pool) => /\ NetProfit(market, x) = G(x) - market.fixed
                                             /\ G(x) \in Int /\ market.fixed \in Nat
      BY ProfitIsGain DEF pool
    <3>2. b <= Total(pool)
      BY <1>2, <1>5
    <3> HIDE DEF b, G
    <3> QED
      BY <1>4, <2>1, <3>1, <3>2
  <2> HIDE DEF G, b
  <2> QED
    BY <2>2, <2>3
<1> HIDE DEF b
<1>7. IsBest(b)
  BY <1>6 DEF IsBest
<1> QED
  BY <1>3, <1>4, <1>5, <1>7 DEF b

(* Nothing that max_size allows earns anything. *)
NothingPays == \A y \in 0 .. Total(pool) : Within(limit, y) => NetProfit(market, y) <= 0

(* If the best size is nothing, nothing pays. *)
LEMMA NothingIsBest ==
    ASSUME market \in Markets, limit \in Limits \cup {NoLimit},
           NEW r, Divides(Rungs(pool), market.price, r), Clip(UpTo(Rungs(pool))[r]) = 0
    PROVE  NothingPays
<1>1. IsBest(0)
  BY RootIsBest
<1>2. Accepted(pool)
  BY TickAssumption DEF pool
<1>3. Rungs(pool) \in Seq(Rung) /\ Total(pool) \in Nat
  BY <1>2, RungsType, AllType
<1>4. NetProfit(market, 0) <= 0
  <2>1. /\ NetProfit(market, 0) = Gain(Rungs(pool), market.price, 0) - market.fixed
        /\ market.price \in Nat /\ market.fixed \in Nat
    BY <1>3, ProfitIsGain DEF pool
  <2>2. Taken(Rungs(pool), 0) = 0
    BY <1>3, TakenNothing
  <2>3. market.price * 0 = 0
    BY <2>1
  <2> QED
    BY <2>1, <2>2, <2>3 DEF Gain
<1>5. ASSUME NEW y \in 0 .. Total(pool), Within(limit, y) PROVE NetProfit(market, y) <= 0
  <2>1. NetProfit(market, y) <= NetProfit(market, 0)
    BY <1>1, <1>5 DEF IsBest
  <2>2. NetProfit(market, y) \in Int /\ NetProfit(market, 0) \in Int
    <3>1. \A x \in Nat : x <= Total(pool) => NetProfit(market, x) \in Int
      <4>1. ASSUME NEW x \in Nat, x <= Total(pool) PROVE NetProfit(market, x) \in Int
        <5>1. /\ NetProfit(market, x) = Gain(Rungs(pool), market.price, x) - market.fixed
              /\ Gain(Rungs(pool), market.price, x) \in Int /\ market.fixed \in Nat
          BY <4>1, ProfitIsGain DEF pool
        <5> QED
          BY <5>1
      <4> QED
        BY <4>1
    <3> QED
      BY <1>3, <3>1
  <2> QED
    BY <1>4, <2>1, <2>2
<1> QED
  BY <1>5 DEF NothingPays

(* The sum s is as far from h as n roundings can bring it, and nothing only *)
(* if h is.                                                                  *)
NearSum(s, h, n) ==
    \/ s = 0 /\ h = 0
    \/ s \in Nat \ {0} /\ h \in Nat \ {0} /\ h < s + n /\ s < h + n

(* Crossing one more boundary adds at most one unit of rounding. *)
LEMMA SumKeepsNear ==
    ASSUME NEW h \in Nat, NEW n \in Nat, NearSum(sum, h, n), sum \in Nat, NEW x \in Nat,
           NEW s \in SumWith(x)
    PROVE  NearSum(s, h + x, n + 1) /\ s \in Nat
<1>1. CASE sum = 0
  <2>1. h = 0 /\ s = x
    BY <1>1 DEF NearSum, SumWith
  <2> QED
    BY <2>1 DEF NearSum
<1>2. CASE sum # 0 /\ x = 0
  <2>1. s = sum /\ h # 0
    BY <1>2 DEF NearSum, SumWith
  <2> QED
    BY <1>2, <2>1 DEF NearSum
<1>3. CASE sum # 0 /\ x # 0
  <2>1. PICK e \in Rounding : s = sum + x + e
    BY <1>3 DEF SumWith
  <2>2. e \in -1 .. 1
    BY TickAssumption
  <2> QED
    BY <1>3, <2>1, <2>2 DEF NearSum
<1> QED
  BY <1>1, <1>2, <1>3

(* How many boundaries are crossed before piece i. *)
Crossed(q, i) == IF IsTicks(q) THEN Active(q) - i ELSE i - Active(q)

(* There are fewer boundaries than pieces. *)
LEMMA CrossedFacts ==
    ASSUME NEW q, Accepted(q), NEW i, NEW r, AtBoundary(q, i, r)
    PROVE  /\ Crossed(q, i) \in Nat /\ Crossed(q, i) + 1 <= Len(q.pieces)
           /\ Crossed(q, Active(q)) = 0
           /\ ~IsLast(q, i) => Crossed(q, Following(q, i)) = Crossed(q, i) + 1
<1>1. Active(q) \in 1 .. Len(q.pieces) /\ Len(q.pieces) \in Nat /\ i \in 1 .. Len(q.pieces)
  BY ActiveFacts, PieceFacts, TicksFacts, BinsFacts
<1>2. CASE IsTicks(q)
  <2>1. i <= Active(q)
    BY <1>2 DEF AtBoundary
  <2> QED
    BY <1>1, <1>2, <2>1 DEF Crossed, Following
<1>3. CASE ~IsTicks(q)
  <2>1. Active(q) <= i
    BY <1>3 DEF AtBoundary
  <2> QED
    BY <1>1, <1>3, <2>1 DEF Crossed, Following
<1> QED
  BY <1>2, <1>3

-----------------------------------------------------------------------------
(* Where the walk of optimal_size ends.                                    *)

(* What was taken before piece i was worth more than ref. *)
WasWorthMore(q, i, r, ref) ==
    IF IsTicks(q) THEN r > ref ELSE \A j \in q.active .. i - 1 : q.pieces[j].price > ref

Sorted(q) ==
    \A i, j \in DOMAIN q.pieces : IsTicks(q) \/ i >= j \/ q.pieces[i].price >= q.pieces[j].price

(* At a bin that is not worth taking, *)
LEMMA StopDivides ==
    ASSUME NEW q, Accepted(q), ~IsTicks(q), Sorted(q), NEW ref \in Nat,
           NEW i, NEW r, AtBoundary(q, i, r), WasWorthMore(q, i, r, ref), q.pieces[i].price <= ref
    PROVE  Divides(Rungs(q), ref, Behind(q, i, r))
<1> DEFINE a == q.active
           s == q.pieces
           l == Len(s)
           R == Rungs(q)
           N == Len(R)
<1>1. /\ i \in 1 .. l /\ a \in 1 .. l /\ a <= i /\ l \in Nat /\ N = l - a + 1
  BY BinBoundary
<1>2. \A n \in 1 .. N : R[n] = s[a + n - 1]
  BY BinsRungs
<1>3. DOMAIN s = 1 .. l /\ \A j \in 1 .. l : s[j].price \in Nat
  BY BinsFacts
<1>4. \A j \in 1 .. l : i < j => s[j].price <= s[i].price
  <2>1. ASSUME NEW j \in 1 .. l, i < j PROVE s[j].price <= s[i].price
    <3>1. ~(i >= j) /\ i \in DOMAIN s /\ j \in DOMAIN s
      BY <1>1, <1>3, <2>1
    <3>2. s[i].price >= s[j].price
      BY <3>1 DEF Sorted
    <3>3. s[i].price \in Nat /\ s[j].price \in Nat
      BY <1>1, <1>3
    <3> QED
      BY <3>2, <3>3
  <2> QED
    BY <2>1
<1>5. \A j \in a .. i - 1 : s[j].price > ref
  BY DEF WasWorthMore
<1>6. Behind(q, i, r) = i - a
  BY DEF Behind
<1>7. s[i].price <= ref
  OBVIOUS
<1> HIDE DEF a, s, l, R, N
<1>8. i - a \in 0 .. N
  BY <1>1
<1>9. ASSUME NEW n \in 1 .. i - a PROVE R[n].price > ref
  <2>1. a + n - 1 \in a .. i - 1 /\ n \in 1 .. N
    BY <1>1
  <2> QED
    BY <1>2, <1>5, <2>1
<1>10. ASSUME NEW n \in (i - a) + 1 .. N PROVE R[n].price <= ref
  <2>1. a + n - 1 \in 1 .. l /\ n \in 1 .. N /\ i <= a + n - 1
    BY <1>1
  <2>2. s[a + n - 1].price <= ref
    <3>1. CASE i = a + n - 1
      BY <1>7, <3>1
    <3>2. CASE i # a + n - 1
      <4>1. i < a + n - 1
        BY <1>1, <2>1, <3>2
      <4>2. s[a + n - 1].price <= s[i].price
        BY <1>4, <2>1, <4>1
      <4>3. s[a + n - 1].price \in Nat /\ s[i].price \in Nat
        BY <1>1, <1>3, <2>1
      <4> QED
        BY <1>7, <4>2, <4>3
    <3> QED
      BY <3>1, <3>2
  <2> QED
    BY <1>2, <2>1, <2>2
<1> QED
  BY <1>6, <1>8, <1>9, <1>10 DEF Divides, R, N

(* in the range where the price meets the reference, *)
LEMMA RangeDivides ==
    ASSUME NEW q, Accepted(q), IsTicks(q), NEW ref \in Nat,
           NEW i, NEW r, AtBoundary(q, i, r), r > ref, Wanted(q, i, r, ref) <= Capacity(q, i, r)
    PROVE  /\ Divides(Rungs(q), ref, q.current - ref)
           /\ Wanted(q, i, r, ref) \in Nat
           /\ UpTo(Rungs(q))[q.current - ref] = Held(q, i, r) + Wanted(q, i, r, ref)
<1> DEFINE L == q.pieces[i].liquidity
           low == q.pieces[i].lower
           u == UpTo(Rungs(q))
           top == q.current
           N == Len(Rungs(q))
<1>1. /\ L \in Nat \ {0} /\ low \in Nat /\ r \in Nat /\ low <= r /\ top \in Nat /\ r <= top
      /\ Held(q, i, r) = u[top - r] /\ N \in Nat /\ i \in 1 .. Len(q.pieces)
  BY RangeBoundary
<1>2. Wanted(q, i, r, ref) = L * (r - ref) /\ Capacity(q, i, r) = L * (r - low)
  BY DEF Wanted, Capacity
<1>3. low <= ref /\ L * (r - ref) \in Nat
  <2>1. ASSUME NEW a \in Nat \ {0}, NEW x \in Nat, NEW y \in Nat, a * x <= a * y PROVE x <= y
    <3>1. ASSUME y + 1 <= x PROVE FALSE
      <4>1. a * (y + 1) <= a * x
        BY <3>1, SMT
      <4>2. a * (y + 1) = a * y + a /\ a * y \in Nat /\ a * x \in Nat
        BY SMT
      <4> QED
        BY <2>1, <4>1, <4>2
    <3> QED
      BY <3>1
  <2> HIDE DEF L, low
  <2>2. r - ref \in Nat /\ r - low \in Nat
    BY <1>1
  <2>3. r - ref <= r - low
    BY <1>1, <1>2, <2>1, <2>2
  <2>4. L * (r - ref) \in Nat
    BY <1>1, <2>2
  <2> QED
    BY <1>1, <2>3, <2>4
<1>4. /\ top - ref \in 0 .. N /\ u[top - ref] = u[top - r] + L * (r - ref)
  <2>1. r - ref \in 0 .. r - low /\ top - r + (r - ref) = top - ref
    <3>1. \A x, y, z \in Nat : y <= z /\ z < x => x - z \in 0 .. x - y
      OBVIOUS
    <3>2. \A x, y, z \in Nat : x - y + (y - z) = x - z
      OBVIOUS
    <3>3. low \in Nat /\ top \in Nat /\ r \in Nat /\ low <= ref
      BY <1>1, <1>3
    <3> HIDE DEF low, top, u, L, N
    <3> QED
      BY <3>1, <3>2, <3>3
  <2>2. /\ top - r + (r - ref) \in 0 .. N /\ u[top - r + (r - ref)] = u[top - r] + L * (r - ref)
    BY <2>1, RangeSells
  <2> QED
    BY <2>1, <2>2
<1>5. \A n \in 1 .. N : Rungs(q)[n].price = top - n + 1
  BY TicksRungs
<1>6. Divides(Rungs(q), ref, top - ref)
  <2> HIDE DEF top, N
  <2>1. ASSUME NEW n \in 1 .. top - ref PROVE Rungs(q)[n].price > ref
    <3>1. n \in 1 .. N /\ top - n + 1 > ref
      BY <1>1, <1>4
    <3> QED
      BY <1>5, <3>1
  <2>2. ASSUME NEW n \in (top - ref) + 1 .. N PROVE Rungs(q)[n].price <= ref
    <3>1. n \in 1 .. N /\ top - n + 1 <= ref
      BY <1>1, <1>4
    <3> QED
      BY <1>5, <3>1
  <2> QED
    BY <1>4, <2>1, <2>2 DEF Divides, N
<1> QED
  BY <1>1, <1>2, <1>3, <1>4, <1>6

(* and after the last piece. *)
LEMMA EndDivides ==
    ASSUME NEW q, Accepted(q), NEW ref \in Nat, NEW i, NEW r, AtBoundary(q, i, r), IsLast(q, i),
           WasWorthMore(q, i, r, ref), Marginal(q, i, r) > ref,
           IsTicks(q) => Wanted(q, i, r, ref) > Capacity(q, i, r)
    PROVE  /\ Divides(Rungs(q), ref, Len(Rungs(q)))
           /\ UpTo(Rungs(q))[Len(Rungs(q))] = Held(q, i, r) + Capacity(q, i, r)
<1> DEFINE R == Rungs(q)
           N == Len(R)
<1>0. N \in Nat
  BY RungsType, RungType
<1>1. \A n \in 1 .. N : R[n].price > ref
  <2>1. CASE IsTicks(q)
    <3> DEFINE L == q.pieces[i].liquidity
               low == q.pieces[i].lower
               top == q.current
    <3>1. /\ L \in Nat /\ low \in Nat /\ r \in Nat /\ top \in Nat /\ low <= r
          /\ L * (r - ref) > L * (r - low)
      BY <2>1, RangeBoundary DEF Wanted, Capacity
    <3>2. N = top - low /\ \A n \in 1 .. N : R[n].price = top - n + 1
      BY <2>1, TicksRungs DEF IsLast, LowestPrice
    <3> HIDE DEF L, low, top, N, R
    <3>3. low > ref
      <4>1. ASSUME NEW a \in Nat, NEW x \in Int, NEW y \in Nat, x <= y PROVE a * x <= a * y
        BY <4>1, SMT
      <4>2. ~(r - ref <= r - low)
        <5>1. ASSUME r - ref <= r - low PROVE FALSE
          <6>1. r - ref \in Int /\ r - low \in Nat
            BY <3>1
          <6>2. L * (r - ref) <= L * (r - low)
            BY <3>1, <4>1, <5>1, <6>1
          <6>3. L * (r - ref) \in Int /\ L * (r - low) \in Int
            BY <3>1, <6>1
          <6> QED
            BY <3>1, <6>2, <6>3
        <5> QED
          BY <5>1
      <4> QED
        BY <3>1, <4>2
    <3>4. ASSUME NEW n \in 1 .. N PROVE R[n].price > ref
      <4>1. R[n].price = top - n + 1 /\ n <= top - low /\ n \in Nat
        BY <3>1, <3>2
      <4> QED
        BY <3>1, <3>3, <4>1
    <3> QED
      BY <3>4
  <2>2. CASE ~IsTicks(q)
    <3> DEFINE a == q.active
               s == q.pieces
    <3>1. /\ i \in 1 .. Len(s) /\ a \in 1 .. Len(s) /\ a <= i /\ N = Len(s) - a + 1
          /\ i = Len(s) /\ Len(s) \in Nat
      BY <2>2, BinBoundary DEF IsLast
    <3>2. \A n \in 1 .. N : R[n] = s[a + n - 1]
      BY <2>2, BinsRungs
    <3>3. s[i].price > ref /\ \A j \in a .. i - 1 : s[j].price > ref
      BY <2>2 DEF Marginal, WasWorthMore
    <3> HIDE DEF N, R, a, s
    <3>4. ASSUME NEW n \in 1 .. N PROVE R[n].price > ref
      <4>1. a + n - 1 \in a .. i
        BY <3>1
      <4>2. s[a + n - 1].price > ref
        BY <3>1, <3>3, <4>1
      <4> QED
        BY <3>2, <4>2
    <3> QED
      BY <3>4
  <2> QED
    BY <2>1, <2>2
<1>2. UpTo(R)[N] = Held(q, i, r) + Capacity(q, i, r)
  BY PieceFacts, RungsType DEF All
<1>3. Divides(R, ref, N)
  <2> HIDE DEF R
  <2> QED
    BY <1>0, <1>1 DEF Divides
<1> QED
  BY <1>2, <1>3

(* A pool whose first price is not above the reference is worth nothing. *)
LEMMA EntryDivides ==
    ASSUME NEW q, Accepted(q), Sorted(q), NEW ref \in Nat,
           Marginal(q, Active(q), EntryPrice(q)) <= ref
    PROVE  Divides(Rungs(q), ref, 0) /\ UpTo(Rungs(q))[0] = 0
<1>0. UpTo(Rungs(q))[0] = 0
  BY RungsType, UpToRec
<1>1. CASE IsTicks(q)
  <2>1. /\ Len(Rungs(q)) \in Nat /\ q.current \in Nat /\ q.current <= ref
        /\ \A n \in 1 .. Len(Rungs(q)) : Rungs(q)[n].price = q.current - n + 1
    BY <1>1, TicksRungs, TicksFacts, RungType DEF Marginal, EntryPrice
  <2>2. ASSUME NEW n \in 1 .. Len(Rungs(q)) PROVE Rungs(q)[n].price <= ref
    BY <2>1
  <2> QED
    BY <1>0, <2>1, <2>2 DEF Divides
<1>2. CASE ~IsTicks(q)
  <2>1. Active(q) = q.active /\ q.active \in Nat /\ EntryPrice(q) = 0
    BY <1>2, BinsFacts DEF EntryPrice
  <2>2. WasWorthMore(q, Active(q), 0, ref) /\ Behind(q, Active(q), 0) = 0
    BY <1>2, <2>1 DEF WasWorthMore, Behind
  <2>3. q.pieces[Active(q)].price <= ref /\ AtBoundary(q, Active(q), 0)
    BY <1>2, <2>1, EntryIsBoundary DEF Marginal
  <2> QED
    BY <1>0, <1>2, <2>2, <2>3, StopDivides
<1> QED
  BY <1>1, <1>2

(* max_size brings two sizes no further apart. *)
LEMMA ClipKeepsNear ==
    ASSUME NEW x \in Nat, NEW y \in Nat, NEW n \in Nat, NearSum(x, y, n),
           limit \in Limits \cup {NoLimit}, Clip(x) # 0
    PROVE  Clip(y) < Clip(x) + n /\ Clip(x) < Clip(y) + n
<1>1. x \in Nat \ {0} /\ y < x + n /\ x < y + n
  <2>1. CASE x = 0
    <3>1. Clip(x) <= 0 /\ Clip(x) \in Nat
      BY <2>1, ClipFacts
    <3> QED
      BY <3>1
  <2>2. CASE x # 0
    BY <2>2 DEF NearSum
  <2> QED
    BY <2>1, <2>2
<1>2. CASE limit = NoLimit
  BY <1>1, <1>2 DEF Clip
<1>3. CASE limit # NoLimit
  <2>1. limit \in Nat
    BY <1>3, MarketAssumption
  <2>2. \A l \in Nat : LET a == IF x <= l THEN x ELSE l
                           b == IF y <= l THEN y ELSE l
                       IN b < a + n /\ a < b + n
    BY <1>1
  <2>3. LET a == IF x <= limit THEN x ELSE limit
            b == IF y <= limit THEN y ELSE limit
        IN b < a + n /\ a < b + n
    BY <2>1, <2>2
  <2> QED
    BY <1>3, <2>3 DEF Clip, Smaller
<1> QED
  BY <1>2, <1>3

(* What the walk of optimal_size chooses. *)
LEMMA ChosenIsNear ==
    ASSUME market \in Markets, limit \in Limits \cup {NoLimit},
           NEW r, Divides(Rungs(pool), market.price, r),
           NEW total \in Nat, NEW n \in Nat, n <= Len(pool.pieces),
           NearSum(total, UpTo(Rungs(pool))[r], n)
    PROVE  /\ Clip(total) = 0 => NothingPays
           /\ Clip(total) # 0 => \E y \in Near(Clip(total)) : IsBest(y)
<1> DEFINE z == UpTo(Rungs(pool))[r]
<1>1. z \in Nat /\ Clip(z) \in 0 .. Total(pool) /\ Within(limit, Clip(z)) /\ IsBest(Clip(z))
  BY RootIsBest
<1>2. CASE Clip(total) = 0
  <2>1. Clip(z) = 0
    <3> HIDE DEF z
    <3>0. ASSUME NEW h, NearSum(0, h, n) PROVE h = 0
      BY <3>0 DEF NearSum
    <3>1. CASE total = 0
      <4>1. NearSum(total, z, n)
        BY DEF z
      <4>2. z = 0
        BY <3>0, <3>1, <4>1
      <4> QED
        BY <1>2, <3>1, <4>2
    <3> QED
      BY <1>1, <1>2, <3>1 DEF Clip, Smaller
  <2> QED
    BY <1>2, <2>1, NothingIsBest
<1>3. CASE Clip(total) # 0
  <2>1. Clip(z) < Clip(total) + n /\ Clip(total) < Clip(z) + n
    BY <1>1, <1>3, ClipKeepsNear
  <2>2. Clip(total) \in Nat /\ Len(pool.pieces) \in Nat
    <3>1. Accepted(pool)
      BY TickAssumption DEF pool
    <3> QED
      BY <3>1, ClipFacts, ActiveFacts, TicksFacts, BinsFacts
  <2>3. -Len(pool.pieces) < Clip(z) - Clip(total) /\ Clip(z) - Clip(total) < Len(pool.pieces)
    <3>1. \A a, b, c, d \in Nat : a < b + c /\ b < a + c /\ c <= d => -d < a - b /\ a - b < d
      OBVIOUS
    <3>2. Clip(z) \in Nat
      BY <1>1
    <3> HIDE DEF z
    <3> QED
      BY <2>1, <2>2, <3>1, <3>2
  <2> QED
    BY <1>1, <1>3, <2>3 DEF Near
<1> QED
  BY <1>2, <1>3

(* Where no rung is worth taking, the first unit is not. *)
LEMMA NotWorthStarting ==
    ASSUME market \in Markets, NEW r, Divides(Rungs(pool), market.price, r),
           UpTo(Rungs(pool))[r] = 0
    PROVE  ~WorthStarting(market)
<1>1. Accepted(pool) /\ Rungs(pool) \in Seq(Rung) /\ Total(pool) = All(Rungs(pool))
      /\ Total(pool) \in Nat
  BY TickAssumption, RungsType, AllType DEF pool
<1>2. market.price \in Nat
  BY MarketAssumption
<1>3. Taken(Rungs(pool), 0) = 0 /\ Taken(Rungs(pool), 1) \in Nat
  BY <1>1, TakenNothing, TakenType
<1>4. Taken(Rungs(pool), 1) <= market.price
  <2>1. CASE Total(pool) = 0
    <3>1. All(Rungs(pool)) <= 0 /\ All(Rungs(pool)) <= 1
      BY <1>1, <2>1
    <3>2. /\ Taken(Rungs(pool), 1) = Taken(Rungs(pool), All(Rungs(pool)))
          /\ Taken(Rungs(pool), 0) = Taken(Rungs(pool), All(Rungs(pool)))
      BY <1>1, <3>1, TakenBeyond
    <3> QED
      BY <1>2, <1>3, <3>2
  <2>2. CASE Total(pool) # 0
    <3>1. 0 < All(Rungs(pool)) /\ 0 >= UpTo(Rungs(pool))[r]
      BY <1>1, <2>2
    <3>2. Gain(Rungs(pool), market.price, 0) >= Gain(Rungs(pool), market.price, 0 + 1)
      BY <1>1, <1>2, <3>1, GainUnit
    <3>3. \A t, c \in Nat : 0 - c * 0 >= t - c * (0 + 1) => t <= c
      BY SMT
    <3>4. 0 + 1 = 1
      OBVIOUS
    <3> QED
      BY <1>2, <1>3, <3>2, <3>3, <3>4 DEF Gain
  <2> QED
    BY <2>1, <2>2
<1>5. ASSUME WorthStarting(market) PROVE FALSE
  <2>1. Feasible(market, 1) /\ Output(market, 1) > market.price
    BY <1>5 DEF WorthStarting
  <2>2. Output(market, 1) = Sold(pool, 1)
    BY <2>1, OutputBeyond, OutputIsSold DEF pool
  <2>3. Sold(pool, 1) = Taken(Rungs(pool), 1)
    BY <1>1, RungsType
  <2> QED
    BY <1>2, <1>3, <1>4, <2>1, <2>2, <2>3
<1> QED
  BY <1>5

-------------------------------------------------------------------------------
(* The inductive invariant. Before the walk nothing has changed; the walk   *)
(* of optimal_size has gone through pieces that were all worth it, and its  *)
(* sum is near what they hold; the walk of quote has sold what lies above   *)
(* its boundary; the size tried is near the best.                           *)

Starting ==
    phase = "start" =>
        /\ k = Active(pool) /\ p = EntryPrice(pool)
        /\ sum = 0 /\ rest = 0 /\ out = 0 /\ outcome = Pending
        /\ asked = "size" => delta = 0

Sizing ==
    phase = "sizing" =>
        /\ asked = "size" /\ outcome = Pending /\ market.price > 0
        /\ delta = 0 /\ rest = 0 /\ out = 0
        /\ WasWorthMore(pool, k, p, market.price)
        /\ NearSum(sum, Held(pool, k, p), Crossed(pool, k))

Quoting ==
    phase = "quoting" =>
        /\ outcome = Pending /\ delta \in Nat \ {0} /\ rest \in Nat /\ rest <= delta
        /\ delta - rest = Held(pool, k, p) /\ out = Sold(pool, Held(pool, k, p))

Tried ==
    asked = "size" /\ (phase = "quoting" \/ (phase = "done" /\ delta # 0)) =>
        /\ delta \in Nat \ {0} /\ Within(limit, delta)
        /\ SortedByPrice => \E y \in Near(delta) : IsBest(y)

NotTried ==
    asked = "size" /\ phase = "done" /\ delta = 0 /\ market.price > 0 /\ SortedByPrice => NothingPays

Answered ==
    phase = "done" =>
        /\ outcome.kind = "quoted" => outcome.out = Sold(pool, delta)
        /\ outcome = Err("InvalidReserves") /\ market.price > 0 =>
              delta < 0 \/ (IsTicks(pool) /\ delta > Total(pool))

WInv ==
    /\ market \in Markets /\ TypeOK /\ AtBoundary(pool, k, p)
    /\ Starting /\ Sizing /\ Quoting /\ Tried /\ NotTried /\ Answered

(* Nothing changes what is asked. *)
LEMMA SameQuery ==
    ASSUME UNCHANGED query
    PROVE  /\ market' = market /\ limit' = limit /\ asked' = asked /\ pool' = pool
           /\ SortedByPrice' <=> SortedByPrice
           /\ NothingPays' <=> NothingPays
           /\ (\E y \in Near(delta) : IsBest(y))' <=> \E y \in Near(delta') : IsBest(y)
<1>1. market' = market /\ limit' = limit /\ asked' = asked
  BY DEF query
<1>2. pool' = pool
  BY <1>1 DEF pool
<1>3. SortedByPrice' <=> SortedByPrice
  BY <1>2 DEF SortedByPrice
<1>4. NothingPays' <=> NothingPays
  BY <1>1, <1>2 DEF NothingPays
<1>5. (\E y \in Near(delta) : IsBest(y))' <=> \E y \in Near(delta') : IsBest(y)
  BY <1>1, <1>2 DEF Near, IsBest
<1> QED
  BY <1>1, <1>2, <1>3, <1>4, <1>5

(* What is known of the pool. *)
LEMMA Facts ==
    ASSUME market \in Markets
    PROVE  /\ Accepted(pool) /\ market.price \in Nat /\ Len(pool.pieces) \in Nat
           /\ DOMAIN pool.pieces = 1 .. Len(pool.pieces)
           /\ \A i, r : AtBoundary(pool, i, r) => i \in DOMAIN pool.pieces /\ r \in Nat
           /\ Total(pool) \in Nat
           /\ SortedByPrice <=> Sorted(pool)
<1>1. Accepted(pool) /\ market.price \in Nat
  BY TickAssumption, MarketAssumption DEF pool
<1>2. Len(pool.pieces) \in Nat
  BY <1>1, TicksFacts, BinsFacts
<1>3. DOMAIN pool.pieces = 1 .. Len(pool.pieces)
  BY <1>1 DEF Accepted, TicksAccepted, BinsAccepted
<1>4. \A i, r : AtBoundary(pool, i, r) => i \in DOMAIN pool.pieces /\ r \in Nat
  BY <1>1, <1>3, PieceFacts
<1>5. Total(pool) \in Nat
  BY <1>1, RungsType, AllType
<1> QED
  BY <1>1, <1>2, <1>3, <1>4, <1>5 DEF SortedByPrice, Sorted

-----------------------------------------------------------------------------
(* The walk of optimal_size comes to an end.                               *)

(* The sum that was found is near the units worth taking. *)
Found(total) ==
    \E h, n \in Nat :
        /\ n <= Len(pool.pieces) /\ NearSum(total, h, n)
        /\ SortedByPrice =>
              \E r : Divides(Rungs(pool), market.price, r) /\ UpTo(Rungs(pool))[r] = h

(* So the size chosen is near the best one; if nothing is chosen, nothing   *)
(* pays.                                                                    *)
LEMMA FoundIsNear ==
    ASSUME market \in Markets, limit \in Limits \cup {NoLimit}, NEW total \in Nat, Found(total),
           SortedByPrice
    PROVE  /\ Clip(total) = 0 => NothingPays
           /\ Clip(total) # 0 => \E y \in Near(Clip(total)) : IsBest(y)
           /\ total = 0 => ~WorthStarting(market)
<1>1. PICK h \in Nat, n \in Nat :
        /\ n <= Len(pool.pieces) /\ NearSum(total, h, n)
        /\ \E r : Divides(Rungs(pool), market.price, r) /\ UpTo(Rungs(pool))[r] = h
  BY DEF Found
<1>2. PICK r : Divides(Rungs(pool), market.price, r) /\ UpTo(Rungs(pool))[r] = h
  BY <1>1
<1>3. NearSum(total, UpTo(Rungs(pool))[r], n)
  BY <1>1, <1>2
<1>4. ASSUME total = 0 PROVE ~WorthStarting(market)
  <2>1. h = 0
    BY <1>1, <1>4 DEF NearSum
  <2> QED
    BY <1>2, <2>1, NotWorthStarting
<1> QED
  BY <1>1, <1>2, <1>3, <1>4, ChosenIsNear

(* Wherever the walk ends, it has found its sum. *)
LEMMA WalkEnds ==
    ASSUME WInv, SizeStops \/ SizeEndsHere \/ (SizeCrosses /\ IsLast(pool, k))
    PROVE  phase = "sizing" /\ \E total \in Nat : Choose(total) /\ sum' = total /\ Found(total)
<1>1. /\ phase = "sizing" /\ market \in Markets /\ AtBoundary(pool, k, p) /\ sum \in Nat
      /\ WasWorthMore(pool, k, p, market.price)
      /\ NearSum(sum, Held(pool, k, p), Crossed(pool, k))
  BY DEF SizeStops, SizeEndsHere, SizeCrosses, WInv, Sizing, TypeOK
<1>2. /\ Accepted(pool) /\ market.price \in Nat /\ Len(pool.pieces) \in Nat
      /\ SortedByPrice <=> Sorted(pool)
  BY <1>1, Facts
<1>3. Crossed(pool, k) \in Nat /\ Crossed(pool, k) + 1 <= Len(pool.pieces)
  BY <1>1, <1>2, CrossedFacts
<1>4. Held(pool, k, p) \in Nat /\ Capacity(pool, k, p) \in Nat
  BY <1>1, <1>2, PieceFacts
<1>5. CASE SizeStops
  <2>1. ~IsTicks(pool) /\ pool.pieces[k].price <= market.price
    <3>1. ~(Marginal(pool, k, p) > market.price)
      BY <1>5 DEF SizeStops, WorthMore
    <3>2. ~IsTicks(pool)
      BY <1>1, <3>1 DEF Marginal, WasWorthMore
    <3>3. pool.pieces[k].price \in Nat
      BY <1>1, <1>2, <3>2, BinBoundary
    <3> QED
      BY <1>2, <3>1, <3>2, <3>3 DEF Marginal
  <2>2. SortedByPrice => Divides(Rungs(pool), market.price, Behind(pool, k, p))
    BY <1>1, <1>2, <2>1, StopDivides
  <2>3. UpTo(Rungs(pool))[Behind(pool, k, p)] = Held(pool, k, p)
    BY DEF Held
  <2>4. Crossed(pool, k) <= Len(pool.pieces)
    BY <1>2, <1>3
  <2>5. Found(sum)
    BY <1>1, <1>3, <1>4, <2>2, <2>3, <2>4 DEF Found
  <2> QED
    BY <1>1, <1>5, <2>5 DEF SizeStops
<1>6. CASE SizeEndsHere
  <2> DEFINE x == Wanted(pool, k, p, market.price)
  <2>1. IsTicks(pool) /\ x <= Capacity(pool, k, p) /\ sum' \in SumWith(x) /\ Choose(sum')
    BY <1>6 DEF SizeEndsHere
  <2>2. p > market.price
    BY <1>1, <2>1 DEF WasWorthMore
  <2>3. /\ Divides(Rungs(pool), market.price, pool.current - market.price)
        /\ x \in Nat
        /\ UpTo(Rungs(pool))[pool.current - market.price] = Held(pool, k, p) + x
    BY <1>1, <1>2, <2>1, <2>2, RangeDivides
  <2> HIDE DEF x
  <2>4. NearSum(sum', Held(pool, k, p) + x, Crossed(pool, k) + 1) /\ sum' \in Nat
    BY <1>1, <1>3, <1>4, <2>1, <2>3, SumKeepsNear
  <2>5. Held(pool, k, p) + x \in Nat /\ Crossed(pool, k) + 1 \in Nat
    BY <1>3, <1>4, <2>3
  <2>6. Found(sum')
    BY <1>3, <2>3, <2>4, <2>5 DEF Found
  <2> QED
    BY <1>1, <2>1, <2>4, <2>6
<1>7. CASE SizeCrosses /\ IsLast(pool, k)
  <2> DEFINE x == Capacity(pool, k, p)
  <2>1. /\ IsTicks(pool) => Wanted(pool, k, p, market.price) > x
        /\ sum' \in SumWith(x) /\ Choose(sum') /\ Marginal(pool, k, p) > market.price
    BY <1>7 DEF SizeCrosses, WorthMore
  <2>2. /\ Divides(Rungs(pool), market.price, Len(Rungs(pool)))
        /\ UpTo(Rungs(pool))[Len(Rungs(pool))] = Held(pool, k, p) + x
    BY <1>1, <1>2, <1>7, <2>1, EndDivides
  <2>3. x \in Nat
    BY <1>4
  <2> HIDE DEF x
  <2>4. NearSum(sum', Held(pool, k, p) + x, Crossed(pool, k) + 1) /\ sum' \in Nat
    BY <1>1, <1>3, <1>4, <2>1, <2>3, SumKeepsNear
  <2>5. Held(pool, k, p) + x \in Nat /\ Crossed(pool, k) + 1 \in Nat
    BY <1>3, <1>4, <2>3
  <2>6. Found(sum')
    BY <1>3, <2>2, <2>4, <2>5 DEF Found
  <2> QED
    BY <1>1, <2>1, <2>4, <2>6
<1> QED
  BY <1>5, <1>6, <1>7

(* A step into the next piece leaves nothing behind that was not worth it. *)
LEMMA CrossingWasWorthMore ==
    ASSUME NEW q, Accepted(q), NEW ref \in Nat, NEW i, NEW r, AtBoundary(q, i, r), ~IsLast(q, i),
           WasWorthMore(q, i, r, ref), Marginal(q, i, r) > ref,
           IsTicks(q) => Wanted(q, i, r, ref) > Capacity(q, i, r)
    PROVE  WasWorthMore(q, Following(q, i), ExitPrice(q, i), ref)
<1>1. CASE IsTicks(q)
  <2> DEFINE L == q.pieces[i].liquidity
             low == q.pieces[i].lower
  <2>1. L \in Nat /\ low \in Nat /\ r \in Nat /\ low <= r /\ L * (r - ref) > L * (r - low)
    BY <1>1, RangeBoundary DEF Wanted, Capacity
  <2>2. ExitPrice(q, i) = low
    BY <1>1 DEF ExitPrice
  <2> HIDE DEF L, low
  <2>3. ASSUME low <= ref PROVE FALSE
    <3>1. r - ref <= r - low /\ r - ref \in Int /\ r - low \in Nat
      BY <2>1, <2>3
    <3>2. \A a \in Nat, x \in Int, y \in Nat : x <= y => a * x <= a * y
      BY SMT
    <3>3. L * (r - ref) <= L * (r - low)
      BY <2>1, <3>1, <3>2
    <3>4. L * (r - ref) \in Int /\ L * (r - low) \in Int
      BY <2>1, <3>1
    <3> QED
      BY <2>1, <3>3, <3>4
  <2>4. low > ref
    BY <2>1, <2>3
  <2> QED
    BY <1>1, <2>2, <2>4 DEF WasWorthMore
<1>2. CASE ~IsTicks(q)
  <2>1. i \in Nat /\ q.active \in Nat /\ \A j \in q.active .. i : j = i \/ j \in q.active .. i - 1
    BY <1>2, BinBoundary
  <2>2. Following(q, i) - 1 = i /\ q.pieces[i].price > ref
    BY <1>2, <2>1 DEF Following, Marginal
  <2>3. \A j \in q.active .. i - 1 : q.pieces[j].price > ref
    BY <1>2 DEF WasWorthMore
  <2> QED
    BY <1>2, <2>1, <2>2, <2>3 DEF WasWorthMore
<1> QED
  BY <1>1, <1>2

-------------------------------------------------------------------------------
(* The steps keep the invariant. *)

(* The program stops. *)
LEMMA StopKeepsWInv ==
    ASSUME WInv, UNCHANGED query, phase' = "done",
           k' \in Nat, AtBoundary(pool, k', p'), sum' \in Nat, delta' \in Int, rest' \in Nat,
           out' \in Nat,
           asked = "size" /\ delta' # 0 =>
              /\ delta' \in Nat /\ Within(limit, delta')
              /\ SortedByPrice => \E y \in Near(delta') : IsBest(y),
           asked = "size" /\ delta' = 0 /\ market.price > 0 /\ SortedByPrice => NothingPays,
           outcome'.kind = "quoted" => outcome'.out = Sold(pool, delta'),
           outcome' = Err("InvalidReserves") /\ market.price > 0 =>
              delta' < 0 \/ (IsTicks(pool) /\ delta' > Total(pool))
    PROVE  WInv'
<1>1. /\ market' = market /\ limit' = limit /\ asked' = asked /\ pool' = pool
      /\ SortedByPrice' <=> SortedByPrice
      /\ NothingPays' <=> NothingPays
      /\ (\E y \in Near(delta) : IsBest(y))' <=> \E y \in Near(delta') : IsBest(y)
  BY SameQuery
<1>2. market' \in Markets /\ AtBoundary(pool, k, p)'
  BY <1>1 DEF WInv
<1>3. TypeOK'
  BY <1>1, <1>2, Facts DEF WInv, TypeOK
<1>4. Starting' /\ Sizing' /\ Quoting'
  BY DEF Starting, Sizing, Quoting
<1>5. Tried'
  BY <1>1 DEF Tried
<1>6. NotTried'
  BY <1>1 DEF NotTried
<1>7. Answered'
  BY <1>1 DEF Answered
<1> QED
  BY <1>2, <1>3, <1>4, <1>5, <1>6, <1>7 DEF WInv

(* optimal_size refuses, or begins its walk. *)
LEMMA BeginKeepsWInv == ASSUME WInv, Begin PROVE WInv'
<1>1. /\ phase = "start" /\ asked = "size" /\ UNCHANGED <<query, walk, sum, delta, rest, out>>
      /\ k = Active(pool) /\ p = EntryPrice(pool) /\ sum = 0 /\ delta = 0 /\ rest = 0 /\ out = 0
      /\ outcome = Pending /\ market \in Markets /\ limit \in Limits \cup {NoLimit}
      /\ AtBoundary(pool, k, p)
  BY DEF Begin, WInv, Starting, TypeOK
<1>2. /\ k' = k /\ p' = p /\ sum' = sum /\ delta' = delta /\ rest' = rest /\ out' = out
      /\ market' = market /\ pool' = pool
  BY <1>1, SameQuery DEF walk
<1>3. /\ Accepted(pool) /\ market.price \in Nat /\ k \in Nat
      /\ SortedByPrice <=> Sorted(pool)
  BY <1>1, Facts DEF AtBoundary
<1>4. CASE market.price = 0
  <2>1. phase' = "done" /\ outcome' = Err("InvalidReserves")
    BY <1>1, <1>4 DEF Begin, Finish
  <2>2. outcome'.kind # "quoted" /\ ~(market.price > 0)
    BY <1>4, <2>1 DEF Err
  <2> QED
    BY <1>1, <1>2, <1>3, <2>1, <2>2, StopKeepsWInv
<1>5. CASE market.price # 0 /\ Marginal(pool, k, p) <= market.price
  <2>1. phase' = "done" /\ outcome' = Err("NoArbitrageOpportunity")
    BY <1>1, <1>5 DEF Begin, Finish
  <2>2. outcome'.kind # "quoted" /\ outcome' # Err("InvalidReserves")
    BY <2>1 DEF Err
  <2>3. ASSUME SortedByPrice PROVE NothingPays
    <3>1. Divides(Rungs(pool), market.price, 0) /\ UpTo(Rungs(pool))[0] = 0
      BY <1>1, <1>3, <1>5, <2>3, EntryDivides
    <3>2. Clip(0) = 0
      <4>1. Clip(0) \in Nat /\ Clip(0) <= 0
        BY <1>1, ClipFacts
      <4> QED
        BY <4>1
    <3> QED
      BY <1>1, <3>1, <3>2, NothingIsBest
  <2> QED
    BY <1>1, <1>2, <1>3, <2>1, <2>2, <2>3, StopKeepsWInv
<1>6. CASE market.price # 0 /\ ~(Marginal(pool, k, p) <= market.price)
  <2>1. phase' = "sizing" /\ outcome' = outcome
    BY <1>1, <1>6 DEF Begin, Finish
  <2>2. /\ Held(pool, k, p) = 0 /\ market.price > 0
    BY <1>1, <1>3, <1>6, EntryIsBoundary
  <2>3. WasWorthMore(pool, k, p, market.price)
    <3>1. CASE IsTicks(pool)
      <4>1. p \in Nat /\ ~(p <= market.price)
        BY <1>1, <1>6, <3>1, Facts DEF Marginal
      <4> QED
        BY <1>3, <3>1, <4>1 DEF WasWorthMore
    <3>2. CASE ~IsTicks(pool)
      <4>1. k = pool.active
        BY <1>1, <1>3, <3>2, BinsFacts
      <4>2. \A j \in k .. k - 1 : FALSE
        BY <1>3
      <4> QED
        BY <3>2, <4>1, <4>2 DEF WasWorthMore
    <3> QED
      BY <3>1, <3>2
  <2>4. NearSum(sum, Held(pool, k, p), Crossed(pool, k))
    BY <1>1, <2>2 DEF NearSum
  <2>5. Sizing'
    BY <1>1, <1>2, <2>1, <2>2, <2>3, <2>4, SameQuery DEF Sizing
  <2>6. TypeOK'
    BY <1>1, <1>2, <2>1, SameQuery DEF WInv, TypeOK
  <2>7. Starting' /\ Quoting' /\ Tried' /\ NotTried' /\ Answered'
    BY <2>1 DEF Starting, Quoting, Tried, NotTried, Answered
  <2> QED
    BY <1>1, <1>2, <2>5, <2>6, <2>7 DEF WInv
<1> QED
  BY <1>4, <1>5, <1>6

(* The walk of optimal_size ends, and that of quote begins. *)
LEMMA ChooseKeepsWInv ==
    ASSUME WInv, phase = "sizing", NEW total \in Nat, Choose(total), sum' = total, Found(total)
    PROVE  WInv'
<1>1. /\ asked = "size" /\ market.price > 0 /\ delta = 0 /\ rest = 0 /\ out = 0
      /\ outcome = Pending
      /\ market \in Markets /\ limit \in Limits \cup {NoLimit} /\ UNCHANGED query /\ out' = out
      /\ k' = Active(pool) /\ p' = EntryPrice(pool)
  BY DEF Choose, WInv, Sizing, TypeOK
<1>2. Accepted(pool)
  BY <1>1, Facts
<1>3. AtBoundary(pool, k', p') /\ Held(pool, k', p') = 0 /\ k' \in Nat
  BY <1>1, <1>2, EntryIsBoundary DEF AtBoundary
<1>4. Clip(total) \in Nat /\ Clip(total) <= total /\ Within(limit, Clip(total))
  BY <1>1, ClipFacts
<1>5. SortedByPrice => /\ Clip(total) = 0 => NothingPays
                       /\ Clip(total) # 0 => \E y \in Near(Clip(total)) : IsBest(y)
  BY <1>1, FoundIsNear
<1>6. CASE Clip(total) = 0
  <2>1. /\ phase' = "done" /\ delta' = delta /\ rest' = rest
        /\ outcome' \in {Err("NoArbitrageOpportunity"), Err("NoProfitableSize")}
    BY <1>6 DEF Choose, Finish
  <2>2. outcome'.kind # "quoted" /\ outcome' # Err("InvalidReserves")
    BY <2>1 DEF Err
  <2> QED
    BY <1>1, <1>3, <1>5, <1>6, <2>1, <2>2, StopKeepsWInv
<1>7. CASE Clip(total) # 0
  <2>1. total # 0
    BY <1>4, <1>7
  <2>2. phase' = "quoting" /\ delta' = Clip(total) /\ rest' = delta' /\ outcome' = outcome
    BY <1>7, <2>1 DEF Choose
  <2>3. /\ market' = market /\ limit' = limit /\ asked' = asked /\ pool' = pool
        /\ SortedByPrice' <=> SortedByPrice
        /\ (\E y \in Near(delta) : IsBest(y))' <=> \E y \in Near(delta') : IsBest(y)
    BY <1>1, SameQuery
  <2>4. Tried'
    BY <1>4, <1>5, <1>7, <2>2, <2>3 DEF Tried
  <2>5. Sold(pool, 0) = 0
    BY <1>2, RungsType, TakenNothing
  <2>6. Quoting'
    BY <1>1, <1>3, <1>4, <1>7, <2>2, <2>3, <2>5 DEF Quoting
  <2>7. TypeOK'
    BY <1>1, <1>3, <1>4, <2>2, <2>3, Facts DEF WInv, TypeOK
  <2>8. Starting' /\ Sizing' /\ NotTried' /\ Answered'
    BY <2>2 DEF Starting, Sizing, NotTried, Answered
  <2> QED
    BY <1>1, <1>3, <2>3, <2>4, <2>6, <2>7, <2>8 DEF WInv
<1> QED
  BY <1>6, <1>7

(* The walk of optimal_size crosses a boundary. *)
LEMMA SizeCrossesKeepsWInv == ASSUME WInv, SizeCrosses, ~IsLast(pool, k) PROVE WInv'
<1> DEFINE x == Capacity(pool, k, p)
           h == Held(pool, k, p)
           n == Crossed(pool, k)
<1>1. /\ phase = "sizing" /\ asked = "size" /\ market.price > 0 /\ delta = 0 /\ rest = 0 /\ out = 0
      /\ outcome = Pending /\ market \in Markets /\ sum \in Nat
      /\ AtBoundary(pool, k, p) /\ WasWorthMore(pool, k, p, market.price)
      /\ NearSum(sum, h, n)
  BY DEF SizeCrosses, WInv, Sizing, TypeOK
<1>2. /\ Marginal(pool, k, p) > market.price
      /\ IsTicks(pool) => Wanted(pool, k, p, market.price) > x
      /\ sum' \in SumWith(x) /\ k' = Following(pool, k) /\ p' = ExitPrice(pool, k)
      /\ UNCHANGED <<query, phase, delta, rest, out, outcome>>
  BY DEF SizeCrosses, WorthMore
<1>3. Accepted(pool) /\ market.price \in Nat
  BY <1>1, Facts
<1>4. h \in Nat /\ x \in Nat /\ n \in Nat /\ Crossed(pool, k') = n + 1
  BY <1>1, <1>2, <1>3, PieceFacts, CrossedFacts
<1>5. AtBoundary(pool, k', p') /\ Held(pool, k', p') = h + x
  BY <1>1, <1>2, <1>3, PieceFollows
<1>6. WasWorthMore(pool, k', p', market.price)
  BY <1>1, <1>2, <1>3, CrossingWasWorthMore
<1> HIDE DEF x, h, n
<1>7. NearSum(sum', h + x, n + 1) /\ sum' \in Nat
  BY <1>1, <1>2, <1>4, SumKeepsNear
<1>8. NearSum(sum', Held(pool, k', p'), Crossed(pool, k'))
  BY <1>4, <1>5, <1>7
<1>9. market' = market /\ limit' = limit /\ asked' = asked /\ pool' = pool
  BY <1>2, SameQuery
<1>10. Sizing'
  BY <1>1, <1>2, <1>6, <1>8, <1>9 DEF Sizing
<1>11. TypeOK'
  BY <1>1, <1>2, <1>5, <1>7, <1>9, Facts DEF WInv, TypeOK
<1>12. Starting' /\ Quoting' /\ Tried' /\ NotTried' /\ Answered'
  BY <1>1, <1>2 DEF Starting, Quoting, Tried, NotTried, Answered
<1> QED
  BY <1>1, <1>5, <1>9, <1>10, <1>11, <1>12 DEF WInv

(* quote refuses, answers, or begins its walk. *)
LEMMA BeginQuoteKeepsWInv == ASSUME WInv, BeginQuote PROVE WInv'
<1>1. /\ phase = "start" /\ asked = "quote" /\ UNCHANGED <<query, walk, sum, delta, out>>
      /\ k = Active(pool) /\ p = EntryPrice(pool) /\ sum = 0 /\ rest = 0 /\ out = 0
      /\ outcome = Pending /\ market \in Markets /\ delta \in Int
      /\ AtBoundary(pool, k, p)
  BY DEF BeginQuote, WInv, Starting, TypeOK
<1>2. /\ k' = k /\ p' = p /\ sum' = sum /\ delta' = delta /\ out' = out
      /\ market' = market /\ asked' = asked /\ pool' = pool /\ limit' = limit
  BY <1>1, SameQuery DEF walk
<1>3. Accepted(pool) /\ k \in Nat
  BY <1>1, Facts DEF AtBoundary
<1>4. Sold(pool, 0) = 0 /\ Held(pool, k, p) = 0
  BY <1>1, <1>3, RungsType, TakenNothing, EntryIsBoundary
<1>5. CASE delta < 0
  <2>1. phase' = "done" /\ outcome' = Err("InvalidReserves") /\ rest' = rest
    BY <1>1, <1>5 DEF BeginQuote, Finish
  <2>2. outcome'.kind # "quoted" /\ asked # "size"
    BY <1>1, <2>1 DEF Err
  <2> QED
    BY <1>1, <1>2, <1>3, <1>5, <2>1, <2>2, StopKeepsWInv
<1>6. CASE delta = 0
  <2>1. phase' = "done" /\ outcome' = Quoted(0) /\ rest' = rest
    BY <1>1, <1>6 DEF BeginQuote, Finish
  <2>2. outcome'.out = 0 /\ outcome' # Err("InvalidReserves") /\ asked # "size"
    BY <1>1, <2>1 DEF Err, Quoted
  <2> QED
    BY <1>1, <1>2, <1>3, <1>4, <1>6, <2>1, <2>2, StopKeepsWInv
<1>7. CASE delta > 0
  <2>1. phase' = "quoting" /\ rest' = delta /\ outcome' = outcome /\ delta \in Nat \ {0}
    BY <1>1, <1>7 DEF BeginQuote
  <2>2. Quoting'
    BY <1>1, <1>2, <1>4, <2>1 DEF Quoting
  <2>3. TypeOK'
    BY <1>1, <1>2, <2>1 DEF WInv, TypeOK
  <2>4. Starting' /\ Sizing' /\ Tried' /\ NotTried' /\ Answered'
    BY <1>1, <1>2, <2>1 DEF Starting, Sizing, Tried, NotTried, Answered
  <2> QED
    BY <1>1, <1>2, <2>2, <2>3, <2>4 DEF WInv
<1> QED
  BY <1>1, <1>5, <1>6, <1>7

-------------------------------------------------------------------------------
(* The steps of quote. *)

(* What is known at a boundary of the walk of quote. *)
LEMMA QuotingFacts ==
    ASSUME WInv, phase = "quoting"
    PROVE  /\ market \in Markets /\ Accepted(pool) /\ market.price \in Nat
           /\ limit \in Limits \cup {NoLimit} /\ outcome = Pending
           /\ AtBoundary(pool, k, p) /\ k \in Nat /\ p \in Nat /\ sum \in Nat
           /\ delta \in Nat \ {0} /\ rest \in Nat /\ rest <= delta
           /\ delta = Held(pool, k, p) + rest /\ out = Sold(pool, Held(pool, k, p)) /\ out \in Nat
           /\ Held(pool, k, p) \in Nat /\ Capacity(pool, k, p) \in Nat /\ Total(pool) \in Nat
           /\ Held(pool, k, p) + Capacity(pool, k, p) <= Total(pool)
           /\ IsLast(pool, k) => Held(pool, k, p) + Capacity(pool, k, p) = Total(pool)
           /\ \A x \in Nat : Sold(pool, x) \in Nat
<1>1. /\ market \in Markets /\ limit \in Limits \cup {NoLimit} /\ outcome = Pending
      /\ AtBoundary(pool, k, p) /\ sum \in Nat
      /\ delta \in Nat \ {0} /\ rest \in Nat /\ rest <= delta
      /\ delta - rest = Held(pool, k, p) /\ out = Sold(pool, Held(pool, k, p)) /\ out \in Nat
  BY DEF WInv, Quoting, TypeOK
<1>2. Accepted(pool) /\ market.price \in Nat /\ k \in Nat /\ p \in Nat
  BY <1>1, Facts DEF AtBoundary
<1>3. /\ Held(pool, k, p) \in Nat /\ Capacity(pool, k, p) \in Nat /\ Total(pool) \in Nat
      /\ Held(pool, k, p) + Capacity(pool, k, p) <= Total(pool)
      /\ IsLast(pool, k) => Held(pool, k, p) + Capacity(pool, k, p) = Total(pool)
  BY <1>1, <1>2, PieceFacts
<1>4. delta = Held(pool, k, p) + rest
  BY <1>1, <1>3
<1>5. \A x \in Nat : Sold(pool, x) \in Nat
  BY <1>2, RungsType, TakenType
<1> QED
  BY <1>1, <1>2, <1>3, <1>4, <1>5

(* What the pieces up to the end of piece k sell. *)
LEMMA PieceSold ==
    ASSUME WInv, phase = "quoting"
    PROVE  out + Filled(pool, k, p, Capacity(pool, k, p))
              = Sold(pool, Held(pool, k, p) + Capacity(pool, k, p))
<1>1. /\ Accepted(pool) /\ AtBoundary(pool, k, p) /\ Capacity(pool, k, p) \in Nat
      /\ out = Sold(pool, Held(pool, k, p))
  BY QuotingFacts
<1>2. Capacity(pool, k, p) \in 0 .. Capacity(pool, k, p)
  BY <1>1
<1> QED
  BY <1>1, <1>2, PieceFilled

(* What is made of the output of quote. *)
LEMMA SettleKeepsWInv ==
    ASSUME WInv, phase = "quoting", UNCHANGED <<query, walk, sum, delta>>, rest' \in Nat,
           out' = Sold(pool, delta), Settle(out')
    PROVE  WInv'
<1>1. /\ k' = k /\ p' = p /\ sum' = sum /\ delta' = delta
  BY DEF walk
<1>2. /\ AtBoundary(pool, k, p) /\ k \in Nat /\ sum \in Nat
      /\ delta \in Nat \ {0} /\ out' \in Nat
  BY QuotingFacts
<1>3. asked = "size" => Within(limit, delta) /\ (SortedByPrice => \E y \in Near(delta) : IsBest(y))
  BY DEF WInv, Tried
<1>4. /\ phase' = "done"
      /\ \/ outcome' = Quoted(out')
         \/ outcome' = Err("NoProfitableSize")
         \/ \E profit : outcome' = Ok(delta, profit)
  BY Zenon DEF Settle, Finish
<1>5. /\ outcome'.kind = "quoted" => outcome'.out = Sold(pool, delta)
      /\ outcome' # Err("InvalidReserves")
  <2>1. CASE outcome' = Quoted(out')
    BY <2>1 DEF Quoted, Err
  <2>2. CASE outcome' = Err("NoProfitableSize")
    BY <2>2 DEF Err
  <2>3. CASE \E profit : outcome' = Ok(delta, profit)
    BY <2>3 DEF Ok, Err
  <2> QED
    BY <1>4, <2>1, <2>2, <2>3
<1> QED
  BY <1>1, <1>2, <1>3, <1>4, <1>5, StopKeepsWInv

(* The rest is sold within this piece. *)
LEMMA QuoteEndsHereKeepsWInv == ASSUME WInv, QuoteEndsHere PROVE WInv'
<1>1. /\ phase = "quoting" /\ rest <= Capacity(pool, k, p)
      /\ out' = out + Filled(pool, k, p, rest) /\ rest' = 0
      /\ Settle(out') /\ UNCHANGED <<query, walk, sum, delta>>
  BY DEF QuoteEndsHere
<1>2. /\ Accepted(pool) /\ AtBoundary(pool, k, p) /\ rest \in Nat /\ Capacity(pool, k, p) \in Nat
      /\ delta = Held(pool, k, p) + rest /\ out = Sold(pool, Held(pool, k, p))
  BY <1>1, QuotingFacts
<1>3. rest \in 0 .. Capacity(pool, k, p)
  BY <1>1, <1>2
<1>4. out' = Sold(pool, delta)
  BY <1>1, <1>2, <1>3, PieceFilled
<1> QED
  BY <1>1, <1>4, SettleKeepsWInv

(* The piece is used up. *)
LEMMA QuoteCrossesKeepsWInv == ASSUME WInv, QuoteCrosses PROVE WInv'
<1> DEFINE h == Held(pool, k, p)
           c == Capacity(pool, k, p)
<1>1. /\ phase = "quoting" /\ rest > c /\ out' = out + Filled(pool, k, p, c) /\ rest' = rest - c
      /\ UNCHANGED <<query, sum, delta>>
  BY DEF QuoteCrosses
<1>2. /\ market \in Markets /\ Accepted(pool) /\ AtBoundary(pool, k, p) /\ k \in Nat /\ sum \in Nat
      /\ rest \in Nat /\ delta \in Nat \ {0} /\ delta = h + rest /\ h \in Nat /\ c \in Nat
      /\ Total(pool) \in Nat /\ (IsLast(pool, k) => h + c = Total(pool))
      /\ \A x \in Nat : Sold(pool, x) \in Nat
      /\ outcome = Pending /\ rest <= delta
  BY <1>1, QuotingFacts
<1>3. out' = Sold(pool, h + c)
  BY <1>1, PieceSold
<1>4. /\ market' = market /\ limit' = limit /\ asked' = asked /\ pool' = pool
      /\ SortedByPrice' <=> SortedByPrice
      /\ (\E y \in Near(delta) : IsBest(y))' <=> \E y \in Near(delta') : IsBest(y)
  BY <1>1, SameQuery
<1>5. rest' \in Nat /\ rest' <= delta /\ delta - rest' = h + c
  <2> HIDE DEF h, c
  <2> QED
    BY <1>1, <1>2
<1>6. CASE IsLast(pool, k) /\ IsTicks(pool)
  <2>1. /\ phase' = "done" /\ outcome' = Err("InvalidReserves") /\ k' = k /\ p' = p /\ delta' = delta
        /\ sum' = sum
    BY <1>1, <1>6 DEF QuoteCrosses, Finish, walk
  <2>2. outcome'.kind # "quoted"
    BY <2>1 DEF Err
  <2>3. delta > Total(pool)
    <3> HIDE DEF h, c
    <3> QED
      BY <1>1, <1>2, <1>6
  <2>4. asked = "size" => Within(limit, delta) /\ (SortedByPrice => \E y \in Near(delta) : IsBest(y))
    BY <1>1 DEF WInv, Tried
  <2>5. out' \in Nat
    <3>1. h + c \in Nat
      <4> HIDE DEF h, c
      <4> QED
        BY <1>2
    <3> QED
      BY <1>2, <1>3, <3>1
  <2> QED
    BY <1>1, <1>2, <1>5, <1>6, <2>1, <2>2, <2>3, <2>4, <2>5, StopKeepsWInv
<1>7. CASE IsLast(pool, k) /\ ~IsTicks(pool)
  <2>1. Settle(out') /\ UNCHANGED <<query, walk, sum, delta>>
    BY <1>1, <1>7 DEF QuoteCrosses
  <2>2. Total(pool) <= delta /\ h + c = Total(pool)
    <3> HIDE DEF h, c
    <3> QED
      BY <1>1, <1>2, <1>7
  <2>3. Sold(pool, delta) = Sold(pool, Total(pool))
    BY <1>2, <2>2, RungsType, TakenBeyond
  <2> QED
    BY <1>1, <1>3, <1>5, <2>1, <2>2, <2>3, SettleKeepsWInv
<1>8. CASE ~IsLast(pool, k)
  <2>1. /\ k' = Following(pool, k) /\ p' = ExitPrice(pool, k)
        /\ phase' = "quoting" /\ outcome' = outcome /\ sum' = sum /\ delta' = delta
    BY <1>1, <1>8 DEF QuoteCrosses
  <2>2. AtBoundary(pool, k', p') /\ Held(pool, k', p') = h + c
    BY <1>2, <1>8, <2>1, PieceFollows
  <2>3. h + c \in Nat
    <3> HIDE DEF h, c
    <3> QED
      BY <1>2
  <2>4. TypeOK'
    BY <1>1, <1>2, <1>3, <1>4, <1>5, <2>1, <2>2, <2>3, Facts DEF WInv, TypeOK
  <2>5. Quoting'
    BY <1>2, <1>3, <1>4, <1>5, <2>1, <2>2 DEF Quoting
  <2>6. Tried'
    BY <1>1, <1>4, <2>1 DEF WInv, Tried
  <2>7. Starting' /\ Sizing' /\ NotTried' /\ Answered'
    BY <2>1 DEF Starting, Sizing, NotTried, Answered
  <2> QED
    BY <1>2, <1>4, <2>2, <2>4, <2>5, <2>6, <2>7 DEF WInv
<1> QED
  BY <1>6, <1>7, <1>8

-------------------------------------------------------------------------------
(* The theorems. *)

(* Every step keeps the invariant. *)
LEMMA NextKeepsWInv == ASSUME WInv, [Next]_vars PROVE WInv'
<1>1. CASE SizeStops \/ SizeEndsHere \/ (SizeCrosses /\ IsLast(pool, k))
  BY <1>1, WalkEnds, ChooseKeepsWInv
<1>2. CASE UNCHANGED vars
  <2>1. /\ UNCHANGED query /\ k' = k /\ p' = p /\ phase' = phase /\ sum' = sum /\ delta' = delta
        /\ rest' = rest /\ out' = out /\ outcome' = outcome
    BY <1>2 DEF vars, walk
  <2>2. /\ market' = market /\ limit' = limit /\ asked' = asked /\ pool' = pool
        /\ SortedByPrice' <=> SortedByPrice
        /\ NothingPays' <=> NothingPays
        /\ (\E y \in Near(delta) : IsBest(y))' <=> \E y \in Near(delta') : IsBest(y)
    BY <2>1, SameQuery
  <2>3. TypeOK' /\ AtBoundary(pool, k, p)' /\ market' \in Markets
    BY <2>1, <2>2 DEF WInv, TypeOK
  <2>4. Starting' /\ Sizing' /\ Quoting'
    BY <2>1, <2>2 DEF WInv, Starting, Sizing, Quoting
  <2>5. Tried'
    BY <2>1, <2>2 DEF WInv, Tried
  <2>6. NotTried' /\ Answered'
    BY <2>1, <2>2 DEF WInv, NotTried, Answered
  <2> QED
    BY <2>3, <2>4, <2>5, <2>6 DEF WInv
<1> QED
  BY <1>1, <1>2, BeginKeepsWInv, SizeCrossesKeepsWInv, BeginQuoteKeepsWInv, QuoteEndsHereKeepsWInv,
     QuoteCrossesKeepsWInv DEF Next, Done

(* It holds in the beginning, *)
LEMMA InitHoldsWInv == ASSUME Init PROVE WInv
<1>1. /\ market \in Markets /\ phase = "start" /\ k = Active(pool) /\ p = EntryPrice(pool)
      /\ sum = 0 /\ rest = 0 /\ out = 0 /\ outcome = Pending
      /\ asked \in {"size", "quote"} /\ limit \in Limits \cup {NoLimit} /\ delta \in Int
      /\ asked = "size" => delta = 0
  <2>1. /\ \/ asked = "size" /\ limit \in Limits \cup {NoLimit} /\ delta = 0
           \/ asked = "quote" /\ limit = NoLimit /\ delta \in Deltas
    BY DEF Init
  <2>2. delta \in Deltas => delta \in Int
    BY TickAssumption
  <2>3. CASE asked = "size" /\ limit \in Limits \cup {NoLimit} /\ delta = 0
    BY <2>3 DEF Init
  <2>4. CASE asked = "quote" /\ limit = NoLimit /\ delta \in Deltas
    BY <2>2, <2>4 DEF Init
  <2> QED
    BY <2>1, <2>3, <2>4
<1>2. AtBoundary(pool, k, p) /\ k \in DOMAIN pool.pieces /\ p \in Nat
  BY <1>1, Facts, EntryIsBoundary
<1> QED
  BY <1>1, <1>2
  DEF WInv, TypeOK, Starting, Sizing, Quoting, Tried, NotTried, Answered

(* and always. *)
LEMMA AlwaysWInv == Spec => []WInv
BY InitHoldsWInv, NextKeepsWInv, PTL DEF Spec

(* The type invariant, for every pool that the constructors accept: no walk *)
(* leaves the pieces, and no sum, rest or output is negative.               *)
THEOREM WalkTypes == Spec => []TypeOK
<1>1. WInv => TypeOK
  BY DEF WInv
<1> QED
  BY <1>1, AlwaysWInv, PTL

(* quote gives, at every boundary and in the end, what the units above it   *)
(* are sold for, one price after the other, however ranges overlap or leave *)
(* gaps and whatever the order of the bins; and it refuses exactly what     *)
(* ranges do not hold (concentrated_liquidity.rs:219-249, dlmm.rs:117-136). *)
THEOREM QuoteFollows == Spec => []QuoteFollowsPrices
<1>1. ASSUME WInv PROVE QuoteFollowsPrices
  <2>1. ASSUME phase = "quoting" PROVE out = Output(market, delta - rest)
    <3>1. /\ market \in Markets /\ Held(pool, k, p) \in Nat /\ delta - rest = Held(pool, k, p)
          /\ Held(pool, k, p) <= Total(pool) /\ out = Sold(pool, Held(pool, k, p))
      <4>1. /\ market \in Markets /\ Held(pool, k, p) \in Nat /\ out = Sold(pool, Held(pool, k, p))
            /\ Capacity(pool, k, p) \in Nat /\ Total(pool) \in Nat
            /\ Held(pool, k, p) + Capacity(pool, k, p) <= Total(pool)
        BY <1>1, <2>1, QuotingFacts
      <4>2. delta - rest = Held(pool, k, p)
        BY <1>1, <2>1 DEF WInv, Quoting
      <4> QED
        BY <4>1, <4>2
    <3> QED
      BY <3>1, OutputIsSold DEF InTable, pool
  <2>2. phase = "done" => Answered
    BY <1>1 DEF WInv
  <2> QED
    BY <2>1, <2>2 DEF QuoteFollowsPrices, Answered
<1> QED
  BY <1>1, AlwaysWInv, PTL

(* The size that optimal_size tries is the best one within max_size, but    *)
(* for less than one unit at each boundary its sum crosses; and when it     *)
(* tries none, none would have been profitable                              *)
(* (concentrated_liquidity.rs:286-327, dlmm.rs:166-186).                    *)
THEOREM WalkIsBest == Spec => []SizeIsBest
<1>1. ASSUME WInv PROVE SizeIsBest
  BY <1>1 DEF WInv, Tried, NotTried, NothingPays, SizeIsBest
<1> QED
  BY <1>1, AlwaysWInv, PTL

-------------------------------------------------------------------------------
(* The contract. *)

(* The contract speaks of the same market. *)
LEMMA SameMarket ==
    ASSUME NEW m, NEW x
    PROVE  /\ Contract!Output(m, x) = Output(m, x)
           /\ Contract!Feasible(m, x) = Feasible(m, x)
           /\ Contract!NetProfit(m, x) = NetProfit(m, x)
           /\ Contract!WorthStarting(m) = WorthStarting(m)
           /\ Contract!Within(m, x) = Within(m, x)
BY DEF Contract!Output, Output, Contract!Quote, Quote, Contract!Feasible, Feasible,
       Contract!NetProfit, NetProfit, Contract!WorthStarting, WorthStarting,
       Contract!Within, Within

(* The answer as the contract sees it. *)
Shown == IF asked = "size" /\ SortedByPrice THEN outcome ELSE Pending

(* A refusal is one that the contract allows. *)
LEMMA RefusalKeepsContract ==
    ASSUME outcome = Pending, UNCHANGED query, NEW e \in Errors, outcome' = Err(e),
           e = "NoArbitrageOpportunity" /\ asked = "size" /\ SortedByPrice => ~WorthStarting(market)
    PROVE  [Contract!Next]_<<market, limit, Shown>>
<1>1. /\ market' = market /\ limit' = limit /\ asked' = asked /\ (SortedByPrice' <=> SortedByPrice)
      /\ Shown = Pending
  BY SameQuery DEF Shown
<1>2. CASE ~(asked = "size" /\ SortedByPrice)
  <2>1. Shown' = Pending
    BY <1>1, <1>2 DEF Shown
  <2> QED
    BY <1>1, <2>1
<1>3. CASE asked = "size" /\ SortedByPrice
  <2>1. Shown' = Err(e)
    BY <1>1, <1>3 DEF Shown
  <2>2. Contract!Refuse(e)
    BY <1>1, <1>3, <2>1, SameMarket
    DEF Contract!Refuse, Contract!Pending, Contract!Err, Pending, Err, Shown
  <2> QED
    BY <2>2 DEF Contract!Next, Contract!Errors, Errors
<1> QED
  BY <1>2, <1>3

(* A step that answers nothing is not seen by the contract. *)
LEMMA QuietKeepsContract ==
    ASSUME UNCHANGED query, outcome' = outcome \/ asked # "size"
    PROVE  [Contract!Next]_<<market, limit, Shown>>
BY SameQuery DEF Shown

(* optimal_size makes of the output for delta what the contract says. *)
LEMMA SettleKeepsContract ==
    ASSUME WInv, phase = "quoting", UNCHANGED query, Settle(Sold(pool, delta)),
           SortedByPrice /\ asked = "size" => InTable(market, delta)
    PROVE  [Contract!Next]_<<market, limit, Shown>>
<1> DEFINE profit == Sold(pool, delta) - market.price * delta - market.fixed
<1>1. /\ market \in Markets /\ outcome = Pending /\ delta \in Nat \ {0}
      /\ market.price \in Nat /\ Sold(pool, delta) \in Nat /\ market.fixed \in Nat
  BY QuotingFacts, MarketAssumption
<1>2. /\ market' = market /\ limit' = limit /\ asked' = asked /\ (SortedByPrice' <=> SortedByPrice)
  BY SameQuery
<1>3. CASE asked # "size" \/ ~SortedByPrice
  BY <1>2, <1>3 DEF Shown
<1>4. CASE asked = "size" /\ SortedByPrice
  <2>1. /\ Output(market, delta) = Sold(pool, delta) /\ Feasible(market, delta)
        /\ NetProfit(market, delta) = profit
    BY <1>1, <1>4, OutputIsSold DEF Feasible, NetProfit, pool
  <2>2. Within(limit, delta)
    BY <1>4 DEF WInv, Tried
  <2>3. profit \in Int
    <3>1. market.price * delta \in Int
      BY <1>1
    <3> QED
      BY <1>1, <3>1
  <2>4. \/ outcome' = Err("NoProfitableSize")
        \/ ~(profit <= 0) /\ outcome' = Ok(delta, profit)
    BY <1>4, Zenon DEF Settle, Finish
  <2>5. CASE outcome' = Err("NoProfitableSize")
    <3>1. "NoProfitableSize" \in Errors /\ "NoProfitableSize" # "NoArbitrageOpportunity"
      BY DEF Errors
    <3> QED
      BY <1>1, <2>5, <3>1, RefusalKeepsContract
  <2>6. CASE ~(profit <= 0) /\ outcome' = Ok(delta, profit)
    <3> HIDE DEF profit
    <3>1. profit > 0
      BY <2>3, <2>6
    <3>2. /\ Shown' = Ok(delta, NetProfit(market, delta)) /\ Shown = Pending
          /\ Shown'.kind = "ok" /\ Shown'.size = delta
      BY <1>1, <1>2, <1>4, <2>1, <2>6 DEF Shown, Ok
    <3>3. Contract!Accept(delta)
      BY <1>1, <1>2, <2>1, <2>2, <3>1, <3>2, SameMarket
      DEF Contract!Accept, Contract!Pending, Pending, Contract!Ok, Ok, Shown
    <3> QED
      BY <1>1, <3>2, <3>3 DEF Contract!Next, Shown
  <2> QED
    BY <2>4, <2>5, <2>6
<1> QED
  BY <1>3, <1>4

(* Every step answers as the contract allows, or is not seen by it. *)
LEMMA StepKeepsContract ==
    ASSUME WInv, [Next]_vars PROVE [Contract!Next]_<<market, limit, Shown>>
<1>0. /\ "NoArbitrageOpportunity" \in Errors /\ "NoProfitableSize" \in Errors
      /\ "InvalidReserves" \in Errors
      /\ "NoArbitrageOpportunity" # "NoProfitableSize" /\ "NoArbitrageOpportunity" # "InvalidReserves"
  BY DEF Errors
<1>1. CASE Begin
  <2>1. /\ phase = "start" /\ outcome = Pending /\ k = Active(pool) /\ p = EntryPrice(pool)
        /\ market \in Markets /\ UNCHANGED query
    BY <1>1 DEF Begin, WInv, Starting
  <2>2. \/ outcome' = Err("InvalidReserves")
        \/ Marginal(pool, k, p) <= market.price /\ outcome' = Err("NoArbitrageOpportunity")
        \/ outcome' = outcome
    BY <1>1 DEF Begin, Finish
  <2>3. Marginal(pool, k, p) <= market.price /\ SortedByPrice => ~WorthStarting(market)
    BY <2>1, Facts, EntryDivides, NotWorthStarting
  <2>4. CASE outcome' = outcome
    BY <2>1, <2>4, QuietKeepsContract
  <2>5. CASE outcome' # outcome
    BY <1>0, <2>1, <2>2, <2>3, <2>5, RefusalKeepsContract
  <2> QED
    BY <2>4, <2>5
<1>2. CASE SizeStops \/ SizeEndsHere \/ (SizeCrosses /\ IsLast(pool, k))
  <2>1. phase = "sizing"
    BY <1>2, WalkEnds
  <2>2. PICK total \in Nat : Choose(total) /\ sum' = total /\ Found(total)
    BY <1>2, WalkEnds
  <2>3. /\ outcome = Pending /\ market \in Markets /\ limit \in Limits \cup {NoLimit}
        /\ UNCHANGED query
    BY <2>1, <2>2 DEF Choose, WInv, Sizing, TypeOK
  <2>4. \/ total = 0 /\ outcome' = Err("NoArbitrageOpportunity")
        \/ outcome' = Err("NoProfitableSize")
        \/ outcome' = outcome
    BY <2>2, Zenon DEF Choose, Finish
  <2>5. total = 0 /\ SortedByPrice => ~WorthStarting(market)
    BY <2>2, <2>3, FoundIsNear
  <2>6. CASE outcome' = outcome
    BY <2>3, <2>6, QuietKeepsContract
  <2>7. CASE outcome' # outcome
    BY <1>0, <2>3, <2>4, <2>5, <2>7, RefusalKeepsContract
  <2> QED
    BY <2>6, <2>7
<1>3. CASE SizeCrosses /\ ~IsLast(pool, k)
  <2>1. UNCHANGED query /\ outcome' = outcome
    BY <1>3 DEF SizeCrosses
  <2> QED
    BY <2>1, QuietKeepsContract
<1>4. CASE BeginQuote
  <2>1. UNCHANGED query /\ asked # "size"
    BY <1>4 DEF BeginQuote
  <2> QED
    BY <2>1, QuietKeepsContract
<1>5. CASE QuoteEndsHere
  <2>1. /\ phase = "quoting" /\ rest <= Capacity(pool, k, p) /\ UNCHANGED query
        /\ Settle(out + Filled(pool, k, p, rest))
    BY <1>5, Zenon DEF QuoteEndsHere
  <2>2. /\ Accepted(pool) /\ AtBoundary(pool, k, p) /\ rest \in 0 .. Capacity(pool, k, p)
        /\ delta = Held(pool, k, p) + rest /\ out = Sold(pool, Held(pool, k, p))
        /\ delta <= Total(pool)
    <3>1. /\ Accepted(pool) /\ AtBoundary(pool, k, p) /\ rest \in Nat
          /\ delta = Held(pool, k, p) + rest /\ out = Sold(pool, Held(pool, k, p))
          /\ Held(pool, k, p) \in Nat /\ Capacity(pool, k, p) \in Nat /\ Total(pool) \in Nat
          /\ Held(pool, k, p) + Capacity(pool, k, p) <= Total(pool)
      BY <2>1, QuotingFacts
    <3> QED
      BY <2>1, <3>1
  <2>3. out + Filled(pool, k, p, rest) = Sold(pool, delta)
    BY <2>2, PieceFilled
  <2> QED
    BY <2>1, <2>2, <2>3, SettleKeepsContract DEF InTable, pool
<1>6. CASE QuoteCrosses
  <2>1. phase = "quoting" /\ rest > Capacity(pool, k, p) /\ UNCHANGED query
    BY <1>6 DEF QuoteCrosses
  <2>2. /\ market \in Markets /\ Accepted(pool) /\ outcome = Pending
        /\ rest \in Nat /\ delta \in Nat \ {0} /\ delta = Held(pool, k, p) + rest
        /\ Held(pool, k, p) \in Nat /\ Capacity(pool, k, p) \in Nat /\ Total(pool) \in Nat
        /\ IsLast(pool, k) => Held(pool, k, p) + Capacity(pool, k, p) = Total(pool)
    BY <2>1, QuotingFacts
  <2>3. CASE ~IsLast(pool, k)
    <3>1. outcome' = outcome
      BY <1>6, <2>3 DEF QuoteCrosses
    <3> QED
      BY <2>1, <3>1, QuietKeepsContract
  <2>4. CASE IsLast(pool, k) /\ IsTicks(pool)
    <3>1. outcome' = Err("InvalidReserves")
      BY <1>6, <2>4 DEF QuoteCrosses, Finish
    <3> QED
      BY <1>0, <2>1, <2>2, <3>1, RefusalKeepsContract
  <2>5. CASE IsLast(pool, k) /\ ~IsTicks(pool)
    <3>1. Settle(out + Filled(pool, k, p, Capacity(pool, k, p)))
      BY <1>6, <2>5, Zenon DEF QuoteCrosses
    <3>2. Total(pool) <= delta /\ Held(pool, k, p) + Capacity(pool, k, p) = Total(pool)
      BY <2>1, <2>2, <2>5
    <3>3. Sold(pool, delta) = Sold(pool, Total(pool))
      BY <2>2, <3>2, RungsType, TakenBeyond
    <3>4. out + Filled(pool, k, p, Capacity(pool, k, p)) = Sold(pool, delta)
      BY <2>1, <3>2, <3>3, PieceSold
    <3>5. ASSUME SortedByPrice, asked = "size" PROVE InTable(market, delta)
      <4>1. \E y \in Near(delta) : IsBest(y)
        BY <2>1, <3>5 DEF WInv, Tried
      <4>2. PICK y \in 0 .. Total(pool) : -Len(pool.pieces) < y - delta
        BY <4>1 DEF Near
      <4>3. Len(pool.pieces) \in Nat /\ Len(pool.pieces) <= Surplus /\ Surplus \in Nat
        BY <2>2, Facts, TickAssumption DEF pool
      <4>4. delta <= Total(pool) + Surplus
        BY <2>2, <4>2, <4>3
      <4> QED
        BY <2>5, <4>4 DEF InTable, pool
    <3> QED
      BY <2>1, <3>1, <3>4, <3>5, SettleKeepsContract
  <2> QED
    BY <2>3, <2>4, <2>5
<1>7. CASE UNCHANGED vars
  BY <1>7, QuietKeepsContract DEF vars
<1> QED
  BY <1>1, <1>2, <1>3, <1>4, <1>5, <1>6, <1>7 DEF Next, Done

(* The answer of optimal_size keeps the contract: one answer, within        *)
(* max_size, with the profit of the size it names, and "no arbitrage" only  *)
(* where there is none (concentrated_liquidity.rs:329-352,                  *)
(* dlmm.rs:184-201).                                                        *)
THEOREM WalkKeepsContract == Spec => MeetsContract
<1>1. Init => Contract!Init
  BY MarketAssumption, SameMarket, InitHoldsWInv
  DEF Init, WInv, TypeOK, Contract!Init, Contract!Pending, Pending
<1>2. ASSUME WInv, [Next]_vars
      PROVE  [Contract!Next]_<<market, limit,
                               IF asked = "size" /\ SortedByPrice THEN outcome ELSE Pending>>
  BY <1>2, StepKeepsContract DEF Shown
<1> QED
  BY <1>1, <1>2, AlwaysWInv, PTL
  DEF Spec, MeetsContract, Contract!Spec

===============================================================================
