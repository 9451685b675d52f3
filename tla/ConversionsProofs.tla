-------------------------- MODULE ConversionsProofs --------------------------
(***************************************************************************)
(* Proofs about the tree generator, for all shapes: its tree is complete   *)
(* and its file a topology; and about the two conversions, for all         *)
(* documents: which are accepted, that the drawing has an edge for each    *)
(* call, and that a pod reads the graph that was converted.                *)
(***************************************************************************)
EXTENDS Conversions, TopologyProofs, FiniteSetTheorems, WellFoundedInduction

-----------------------------------------------------------------------------
(***************************************************************************)
(* Recursion over numbers.                                                 *)
(***************************************************************************)
\* Induction.
LEMMA NatSet ==
  ASSUME NEW S, S \subseteq Nat, 0 \in S, \A n \in S : n + 1 \in S
  PROVE  S = Nat
<1> SUFFICES ASSUME Nat \ S # {} PROVE FALSE
  OBVIOUS
<1>1. \E x \in Nat \ S : \A y \in Nat \ S : ~(<<y, x>> \in OpToRel(<, Nat))
  <2>1. Nat \ S \subseteq Nat
    OBVIOUS
  <2> QED
    BY <2>1, NatLessThanWellFounded, WFMin
<1>a. PICK x \in Nat \ S : \A y \in Nat \ S : ~(<<y, x>> \in OpToRel(<, Nat))
  BY <1>1
<1>2. x \in Nat /\ x \notin S
  OBVIOUS
<1>3. x # 0
  BY <1>2
<1>4. x - 1 \in Nat /\ x = (x - 1) + 1 /\ x - 1 < x
  BY <1>2, <1>3
<1>5. x - 1 \in S
  <2> SUFFICES ASSUME x - 1 \notin S PROVE FALSE
    OBVIOUS
  <2>1. x - 1 \in Nat \ S
    BY <1>4
  <2>2. <<x - 1, x>> \in OpToRel(<, Nat)
    BY <1>2, <1>4 DEF OpToRel
  <2> QED
    BY <1>a, <2>1, <2>2
<1> QED
  BY <1>2, <1>4, <1>5

\* A function that is defined by recursion over m .. n, by steps g.
Recurs(f, V, m, n, c, g) ==
  f \in [m .. n -> V] /\ f[m] = c /\ \A i \in m + 1 .. n : f[i] = g[<<i, f[i - 1]>>]

LEMMA RecursionExists ==
  ASSUME NEW V, NEW m \in Nat, NEW c \in V, NEW g, \A i \in Nat : \A v \in V : g[<<i, v>>] \in V,
         NEW n \in Nat
  PROVE  \E f : Recurs(f, V, m, m + n, c, g)
<1> DEFINE Good(f, k) == f \in [m .. m + k -> V] /\ f[m] = c /\ \A i \in m + 1 .. m + k : f[i] = g[<<i, f[i - 1]>>]
           S == {k \in Nat : \E f : Good(f, k)}
<1>1. 0 \in S
  <2> DEFINE f == [i \in m .. m + 0 |-> c]
  <2>1. Good(f, 0)
    OBVIOUS
  <2> QED
    BY <2>1
<1>2. ASSUME NEW k \in S PROVE k + 1 \in S
  <2>1. PICK f : Good(f, k)
    OBVIOUS
  <2> DEFINE h == [i \in m .. m + (k + 1) |-> IF i = m + (k + 1) THEN g[<<i, f[i - 1]>>] ELSE f[i]]
  <2>2. k \in Nat /\ k + 1 \in Nat
    OBVIOUS
  <2>3. f[m + k] \in V /\ (m + (k + 1)) - 1 = m + k /\ m + (k + 1) \in Nat
    BY <2>1, <2>2
  <2>4. g[<<m + (k + 1), f[m + k]>>] \in V
    BY <2>3
  <2>5. \A i \in m .. m + (k + 1) : i = m + (k + 1) \/ (i \in m .. m + k /\ i # m + (k + 1))
    BY <2>2
  <2>6. h \in [m .. m + (k + 1) -> V]
    <3>1. \A i \in m .. m + k : f[i] \in V
      BY <2>1
    <3>2. ASSUME NEW i \in m .. m + (k + 1)
          PROVE  (IF i = m + (k + 1) THEN g[<<i, f[i - 1]>>] ELSE f[i]) \in V
      <4>1. CASE i = m + (k + 1)
        BY <2>3, <2>4, <4>1
      <4>2. CASE i # m + (k + 1)
        BY <2>5, <3>1, <4>2
      <4> QED
        BY <4>1, <4>2
    <3> QED
      BY <3>2
  <2>7. h[m] = c
    <3>1. m \in m .. m + (k + 1) /\ m # m + (k + 1)
      BY <2>2
    <3> QED
      BY <2>1, <3>1
  <2>8. ASSUME NEW i \in m + 1 .. m + (k + 1) PROVE h[i] = g[<<i, h[i - 1]>>]
    <3>1. i \in m .. m + (k + 1) /\ i - 1 \in m .. m + k /\ i - 1 \in m .. m + (k + 1) /\ i - 1 # m + (k + 1)
      BY <2>2
    <3>2. h[i - 1] = f[i - 1]
      BY <3>1
    <3>3. CASE i = m + (k + 1)
      BY <3>1, <3>2, <3>3
    <3>4. CASE i # m + (k + 1)
      <4>1. h[i] = f[i]
        BY <3>1, <3>4
      <4>2. i \in m + 1 .. m + k
        BY <2>2, <3>4
      <4> QED
        BY <2>1, <3>2, <4>1, <4>2
    <3> QED
      BY <3>3, <3>4
  <2> HIDE DEF h
  <2>9. Good(h, k + 1)
    BY <2>6, <2>7, <2>8
  <2> QED
    BY <2>2, <2>9
<1> HIDE DEF Good
<1>3. S = Nat
  BY <1>1, <1>2, NatSet
<1>4. PICK f : Good(f, n)
  BY <1>3
<1> QED
  BY <1>4 DEF Good, Recurs

-----------------------------------------------------------------------------
(***************************************************************************)
(* The tree generator: the rounds that are left are as many as services    *)
(* are missing, and the queue is never longer than that.                   *)
(***************************************************************************)
TreeInv == TreeTypeOK /\ NeverPopsEmpty

\* U[n] services on the first n levels.
Levels(U, s) ==
  /\ U \in [0 .. s.levels -> Nat]
  /\ U[0] = 0
  /\ \A n \in 1 .. s.levels : U[n] = 1 + s.branches * U[n - 1]
  /\ NumServices(s) = U[s.levels]

\* Induction that ends at m.
LEMMA UpTo ==
  ASSUME NEW m \in Nat, NEW S, 0 \in S, \A n \in Nat : n \in S /\ n + 1 <= m => n + 1 \in S
  PROVE  \A n \in 0 .. m : n \in S
<1> DEFINE T == {n \in Nat : n <= m => n \in S}
<1>1. 0 \in T /\ T \subseteq Nat
  OBVIOUS
<1>2. ASSUME NEW n \in T PROVE n + 1 \in T
  <2>1. n \in Nat /\ n + 1 \in Nat /\ (n + 1 <= m => n <= m)
    OBVIOUS
  <2> QED
    BY <2>1
<1>3. T = Nat
  <2> HIDE DEF T
  <2> QED
    BY <1>1, <1>2, NatSet
<1> QED
  BY <1>3

LEMMA Distributes == \A b, x, y \in Nat : (1 + b * x) + y * b = 1 + b * (x + y)
BY SMT

LEMMA Products == \A x, y \in Nat : x * y \in Nat
BY SMT

LEMMA ShapeLevels == \A s \in Shapes : \E U : Levels(U, s)
<1> SUFFICES ASSUME NEW s \in Shapes PROVE \E U : Levels(U, s)
  OBVIOUS
<1> DEFINE b == s.branches
           m == s.levels
           power[n \in 0 .. m] == IF n = 0 THEN 1 ELSE power[n - 1] * b
           sum[n \in 0 .. m] == IF n = 0 THEN 0 ELSE sum[n - 1] + power[n - 1]
           Powers(f) == f = [n \in 0 .. m |-> IF n = 0 THEN 1 ELSE f[n - 1] * b]
           Sums(f) == f = [n \in 0 .. m |-> IF n = 0 THEN 0 ELSE f[n - 1] + power[n - 1]]
           times == [p \in Nat \X Nat |-> p[2] * b]
           plus == [p \in Nat \X Nat |-> p[2] + (IF p[1] \in 1 .. m THEN power[p[1] - 1] ELSE 0)]
<1>1. m \in Nat \ {0} /\ b \in Nat \ {0}
  BY ShapesAssumption
<1>2. NumServices(s) = sum[m]
  BY DEF NumServices
<1>3. power = (CHOOSE f : Powers(f)) /\ sum = (CHOOSE f : Sums(f))
  BY DEF power, sum
<1> HIDE DEF b, m, power, sum, times, plus
<1>4. \A i, v \in Nat : times[<<i, v>>] = v * b /\ times[<<i, v>>] \in Nat
  BY <1>1, Products DEF times
<1>5. \E f : Powers(f)
  <2>1. \A i \in Nat : \A v \in Nat : times[<<i, v>>] \in Nat
    BY <1>4
  <2>2. PICK f : Recurs(f, Nat, 0, 0 + m, 1, times)
    <3>1. 0 \in Nat /\ 1 \in Nat /\ m \in Nat
      BY <1>1
    <3> QED
      BY <2>1, <3>1, RecursionExists, Zenon
  <2>3. f \in [0 .. m -> Nat] /\ f[0] = 1 /\ \A i \in 1 .. m : f[i] = times[<<i, f[i - 1]>>]
    BY <1>1, <2>2 DEF Recurs
  <2>4. ASSUME NEW i \in 0 .. m PROVE f[i] = IF i = 0 THEN 1 ELSE f[i - 1] * b
    <3>1. i # 0 => i \in 1 .. m /\ i - 1 \in 0 .. m /\ i \in Nat
      BY <1>1
    <3>2. i # 0 => f[i - 1] \in Nat
      BY <2>3, <3>1
    <3> QED
      BY <1>4, <2>3, <3>1, <3>2
  <2>5. Powers(f)
    BY <2>3, <2>4
  <2> QED
    BY <2>5
<1>6. Powers(power)
  <2> HIDE DEF Powers
  <2> QED
    BY <1>3, <1>5
<1>7. power[0] = 1 /\ \A n \in 1 .. m : power[n] = power[n - 1] * b
  BY <1>1, <1>6
<1>8. \A n \in 0 .. m : power[n] \in Nat
  <2> DEFINE S == {n \in Nat : power[n] \in Nat}
  <2>1. 0 \in S
    BY <1>7
  <2>2. ASSUME NEW n \in Nat, n \in S /\ n + 1 <= m PROVE n + 1 \in S
    <3>1. n + 1 \in 1 .. m /\ (n + 1) - 1 = n /\ power[n] \in Nat
      BY <1>1, <2>2
    <3>2. power[n + 1] = power[n] * b
      BY <1>7, <3>1
    <3> QED
      BY <1>1, <3>1, <3>2, Products
  <2> HIDE DEF S
  <2>3. \A n \in 0 .. m : n \in S
    BY <1>1, <2>1, <2>2, UpTo
  <2> QED
    BY <2>3 DEF S
<1>9. \A i, v \in Nat : /\ i \in 1 .. m => plus[<<i, v>>] = v + power[i - 1]
                        /\ plus[<<i, v>>] \in Nat
  <2> SUFFICES ASSUME NEW i \in Nat, NEW v \in Nat
               PROVE  /\ i \in 1 .. m => plus[<<i, v>>] = v + power[i - 1]
                      /\ plus[<<i, v>>] \in Nat
    OBVIOUS
  <2>1. plus[<<i, v>>] = v + (IF i \in 1 .. m THEN power[i - 1] ELSE 0)
    BY DEF plus
  <2>2. i \in 1 .. m => power[i - 1] \in Nat
    BY <1>1, <1>8
  <2> QED
    BY <2>1, <2>2
<1>10. \E f : Sums(f)
  <2>1. \A i \in Nat : \A v \in Nat : plus[<<i, v>>] \in Nat
    BY <1>9
  <2>2. PICK f : Recurs(f, Nat, 0, 0 + m, 0, plus)
    <3>1. 0 \in Nat /\ m \in Nat
      BY <1>1
    <3> QED
      BY <2>1, <3>1, RecursionExists, Zenon
  <2>3. f \in [0 .. m -> Nat] /\ f[0] = 0 /\ \A i \in 1 .. m : f[i] = plus[<<i, f[i - 1]>>]
    BY <1>1, <2>2 DEF Recurs
  <2>4. ASSUME NEW i \in 0 .. m PROVE f[i] = IF i = 0 THEN 0 ELSE f[i - 1] + power[i - 1]
    <3>1. i # 0 => i \in 1 .. m /\ i - 1 \in 0 .. m /\ i \in Nat
      BY <1>1
    <3>2. i # 0 => f[i - 1] \in Nat
      BY <2>3, <3>1
    <3> QED
      BY <1>9, <2>3, <3>1, <3>2
  <2>5. Sums(f)
    BY <2>3, <2>4
  <2> QED
    BY <2>5
<1>11. Sums(sum)
  <2> HIDE DEF Sums
  <2> QED
    BY <1>3, <1>10
<1>12. sum[0] = 0 /\ \A n \in 1 .. m : sum[n] = sum[n - 1] + power[n - 1]
  BY <1>1, <1>11
<1>a. \A n \in 0 .. m : sum[n] \in Nat
  <2> DEFINE S == {n \in Nat : sum[n] \in Nat}
  <2>1. 0 \in S
    BY <1>12
  <2>2. ASSUME NEW n \in Nat, n \in S /\ n + 1 <= m PROVE n + 1 \in S
    <3>1. n + 1 \in 1 .. m /\ (n + 1) - 1 = n /\ n \in 0 .. m /\ sum[n] \in Nat
      BY <1>1, <2>2
    <3>2. sum[n + 1] = sum[n] + power[n] /\ power[n] \in Nat
      BY <1>8, <1>12, <3>1
    <3> QED
      BY <3>1, <3>2
  <2> HIDE DEF S
  <2>3. \A n \in 0 .. m : n \in S
    BY <1>1, <2>1, <2>2, UpTo
  <2> QED
    BY <2>3 DEF S
<1>13. \A n \in 0 .. m : n # 0 => sum[n] = 1 + b * sum[n - 1]
  <2> DEFINE S == {n \in Nat : n # 0 => sum[n] = 1 + b * sum[n - 1]}
  <2>1. 0 \in S
    OBVIOUS
  <2>2. ASSUME NEW n \in Nat, n \in S /\ n + 1 <= m PROVE n + 1 \in S
    <3>1. /\ n + 1 \in 1 .. m /\ (n + 1) - 1 = n /\ n + 1 # 0 /\ n \in 0 .. m
          /\ n # 0 => sum[n] = 1 + b * sum[n - 1]
      BY <1>1, <2>2
    <3>2. sum[n + 1] = sum[n] + power[n] /\ power[n] \in Nat
      BY <1>8, <1>12, <3>1
    <3>4. CASE n = 0
      <4>1. sum[n] = 0 /\ power[n] = 1
        BY <1>7, <1>12, <3>4
      <4>2. b * 0 = 0
        BY <1>1
      <4> QED
        BY <3>1, <3>2, <4>1, <4>2
    <3>5. CASE n # 0
      <4>1. n \in 1 .. m /\ n - 1 \in 0 .. m /\ n - 1 \in Nat
        BY <1>1, <3>1, <3>5
      <4>2. power[n] = power[n - 1] * b /\ sum[n] = sum[n - 1] + power[n - 1] /\ power[n - 1] \in Nat
        BY <1>7, <1>8, <1>12, <4>1
      <4>3. sum[n - 1] \in Nat /\ b \in Nat
        BY <1>1, <1>a, <4>1
      <4>4. (1 + b * sum[n - 1]) + power[n - 1] * b = 1 + b * (sum[n - 1] + power[n - 1])
        BY <4>2, <4>3, Distributes
      <4> QED
        BY <3>1, <3>2, <3>5, <4>2, <4>4
    <3> QED
      BY <3>1, <3>4, <3>5
  <2> HIDE DEF S
  <2>3. \A n \in 0 .. m : n \in S
    BY <1>1, <2>1, <2>2, UpTo
  <2> QED
    BY <2>3 DEF S
<1>14. sum \in [0 .. m -> Nat]
  BY <1>11, <1>a
<1>15. \A n \in 1 .. m : n \in 0 .. m /\ n # 0
  BY <1>1
<1> QED
  BY <1>1, <1>2, <1>12, <1>13, <1>14, <1>15 DEF Levels, b, m

LEMMA ShapeNumbers ==
  ASSUME shape \in Shapes
  PROVE  shape.branches \in Nat \ {0} /\ NumServices(shape) \in Nat \ {0}
<1>1. shape.branches \in Nat \ {0} /\ shape.levels \in Nat \ {0}
  BY ShapesAssumption
<1>2. PICK U : Levels(U, shape)
  BY ShapeLevels
<1> DEFINE L == shape.levels
           b == shape.branches
<1>3. L \in 1 .. L /\ L - 1 \in 0 .. L /\ L \in Nat
  BY <1>1
<1>4. U[L] = 1 + b * U[L - 1] /\ U[L - 1] \in Nat /\ NumServices(shape) = U[L]
  BY <1>2, <1>3 DEF Levels
<1> HIDE DEF b, L
<1>5. b * U[L - 1] \in Nat
  BY <1>1, <1>4, Products DEF b
<1> QED
  BY <1>1, <1>4, <1>5

LEMMA TreeInvInit == TreeInit => TreeInv
<1> SUFFICES ASSUME TreeInit PROVE TreeInv
  OBVIOUS
<1>1. NumServices(shape) \in Nat \ {0}
  BY ShapeNumbers DEF TreeInit
<1>2. queue = << <<0>> >> /\ services = << >> /\ shape \in Shapes
  BY DEF TreeInit, Root
<1>3. Len(services) + Len(queue) = 1 /\ queue # << >>
  BY <1>2
<1>4. <<0>> \in Seq(Nat)
  OBVIOUS
<1> QED
  BY <1>1, <1>2, <1>3, <1>4 DEF TreeInv, TreeTypeOK, NeverPopsEmpty

LEMMA TreeInvStep == TreeInv /\ Grow => TreeInv'
<1> SUFFICES ASSUME TreeInv, Grow PROVE TreeInv'
  OBVIOUS
<1> DEFINE N == NumServices(shape)
           children == [i \in 1 .. NumChildren |-> Append(Head(queue), i - 1)]
<1>1. /\ queue \in Seq(Seq(Nat)) /\ queue # << >> /\ shape \in Shapes
      /\ services \in Seq([path : Seq(Nat), calls : Seq(Seq(Nat))])
      /\ services' = Append(services, [path |-> Head(queue), calls |-> children])
      /\ queue' = Tail(queue) \o children
      /\ shape' = shape
  BY DEF TreeInv, TreeTypeOK, Grow
<1>2. /\ N \in Nat /\ shape.branches \in Nat \ {0}
      /\ Len(services) \in Nat /\ Len(queue) \in Nat \ {0}
      /\ Len(services) + Len(queue) <= N /\ Len(services) < N
  <2>1. Len(services) \in Nat /\ Len(queue) \in Nat \ {0}
    BY <1>1
  <2> QED
    BY <1>1, <2>1, ShapeNumbers DEF TreeInv, TreeTypeOK, Grow
<1>3. /\ Remaining = N - Len(services) - Len(queue) /\ Remaining \in Nat
      /\ NumChildren \in Nat /\ NumChildren <= Remaining
      /\ Remaining > 0 => NumChildren > 0
  <2>1. Remaining = N - Len(services) - Len(queue) /\ Remaining \in Nat
    BY <1>2 DEF Remaining
  <2>2. NumChildren = Remaining \/ (NumChildren = shape.branches /\ NumChildren <= Remaining)
    BY <1>2, <2>1 DEF NumChildren
  <2> QED
    BY <1>2, <2>1, <2>2
<1>4. children \in Seq(Seq(Nat)) /\ Len(children) = NumChildren
  <2>1. Head(queue) \in Seq(Nat)
    BY <1>1
  <2>2. \A i \in 1 .. NumChildren : Append(Head(queue), i - 1) \in Seq(Nat)
    BY <2>1, <1>3
  <2> QED
    BY <1>3, <2>2
<1>5. Tail(queue) \in Seq(Seq(Nat)) /\ Len(Tail(queue)) = Len(queue) - 1
  BY <1>1, <1>2
<1> HIDE DEF children, N
<1>6. queue' \in Seq(Seq(Nat)) /\ Len(queue') = Len(queue) - 1 + NumChildren
  <2>1. \A s, t \in Seq(Seq(Nat)) : s \o t \in Seq(Seq(Nat)) /\ Len(s \o t) = Len(s) + Len(t)
    OBVIOUS
  <2>2. /\ Tail(queue) \o children \in Seq(Seq(Nat))
        /\ Len(Tail(queue) \o children) = Len(Tail(queue)) + Len(children)
    BY <2>1, <1>4, <1>5
  <2> QED
    BY <1>1, <1>4, <1>5, <2>2
<1>7. /\ services' \in Seq([path : Seq(Nat), calls : Seq(Seq(Nat))])
      /\ Len(services') = Len(services) + 1
  <2>1. [path |-> Head(queue), calls |-> children] \in [path : Seq(Nat), calls : Seq(Seq(Nat))]
    BY <1>1, <1>4
  <2> QED
    BY <1>1, <2>1
<1>8. Len(services') + Len(queue') <= N
  BY <1>2, <1>3, <1>6, <1>7
<1>9. Len(services') # N => queue' # << >>
  <2> SUFFICES ASSUME Len(services') # N, queue' = << >> PROVE FALSE
    OBVIOUS
  <2>1. Len(queue') = 0
    OBVIOUS
  <2> QED
    BY <2>1, <1>2, <1>3, <1>6, <1>7
<1> QED
  BY <1>1, <1>6, <1>7, <1>8, <1>9 DEF TreeInv, TreeTypeOK, NeverPopsEmpty, Grown, N

LEMMA TreeInvariance == Spec => []TreeInv
<1>1. Init => TreeInv
  BY TreeInvInit DEF Init
<1>2. TreeInv /\ [Next]_vars => TreeInv'
  <2> SUFFICES ASSUME TreeInv, [Next]_vars PROVE TreeInv'
    OBVIOUS
  <2>1. CASE Grow
    BY <2>1, TreeInvStep
  <2>2. CASE UNCHANGED treeVars
    BY <2>2 DEF treeVars, TreeInv, TreeTypeOK, NeverPopsEmpty, Grown
  <2> QED
    BY <2>1, <2>2 DEF Next, vars, treeVars, Generate, WriteYAML, ConvertGraphviz, ConvertKubernetes
<1> QED
  BY <1>1, <1>2, PTL DEF Spec

\* Of every shape: no more services are named than there are to be.
THEOREM TreeTypeCorrect == Spec => []TreeTypeOK
BY TreeInvariance, PTL DEF TreeInv

\* Of every shape: the generator never takes from an empty deque.
THEOREM DequeSuffices == Spec => []NeverPopsEmpty
BY TreeInvariance, PTL DEF TreeInv

-----------------------------------------------------------------------------
(***************************************************************************)
(* The tree that is generated: the services are named breadth first, so    *)
(* that numbers say on which level a service is.                           *)
(***************************************************************************)
LEMMA Multiples ==
  /\ \A b, x \in Nat : (x + 1) * b = x * b + b
  /\ \A b, x, y \in Nat : x <= y => x * b <= y * b
<1>1. \A b, x \in Nat : (x + 1) * b = x * b + b
  BY SMT
<1>2. \A b, x, e \in Nat : x * b <= (x + e) * b
  <2>1. \A b, x, e \in Nat : (x + e) * b = x * b + e * b
    BY SMT
  <2> QED
    BY <2>1, Products, SMT
<1>3. ASSUME NEW b \in Nat, NEW x \in Nat, NEW y \in Nat, x <= y PROVE x * b <= y * b
  <2>1. y - x \in Nat /\ x + (y - x) = y
    BY <1>3
  <2> QED
    BY <1>2, <2>1
<1> QED
  BY <1>1, <1>3

\* How many services were named when the first d had become services.
Total(s, d) ==
  IF 1 + d * s.branches < NumServices(s) THEN 1 + d * s.branches ELSE NumServices(s)

LEMMA Totals ==
  ASSUME NEW s, s.branches \in Nat \ {0}, NumServices(s) \in Nat \ {0}, NEW d \in Nat
  PROVE  /\ Total(s, d) \in 1 .. NumServices(s) /\ Total(s, 0) = 1
         /\ Total(s, d + 1) =
              IF NumServices(s) - Total(s, d) < s.branches THEN NumServices(s) ELSE Total(s, d) + s.branches
         /\ \A c \in 0 .. d : Total(s, c) <= Total(s, d)
<1> DEFINE b == s.branches
           N == NumServices(s)
<1>1. b \in Nat \ {0} /\ N \in Nat \ {0}
  OBVIOUS
<1>2. \A x \in Nat : Total(s, x) = IF 1 + x * b < N THEN 1 + x * b ELSE N
  BY DEF Total
<1> HIDE DEF b, N
<1>3. d * b \in Nat /\ 0 * b = 0 /\ (d + 1) * b = d * b + b
  BY <1>1, Products, Multiples
<1>4. Total(s, d) \in 1 .. N /\ Total(s, 0) = 1
  BY <1>1, <1>2, <1>3
<1>5. Total(s, d + 1) = IF N - Total(s, d) < b THEN N ELSE Total(s, d) + b
  BY <1>1, <1>2, <1>3
<1>6. ASSUME NEW c \in 0 .. d PROVE Total(s, c) <= Total(s, d)
  <2>1. c \in Nat /\ c <= d
    OBVIOUS
  <2>2. c * b \in Nat /\ c * b <= d * b
    BY <1>1, <2>1, Products, Multiples
  <2> QED
    BY <1>1, <1>2, <1>3, <2>1, <2>2
<1> QED
  BY <1>4, <1>5, <1>6 DEF b, N

\* The path of the service that was the k-th to be named.
Named(k) == IF k <= Len(services) THEN services[k].path ELSE queue[k - Len(services)]

\* Services are named in their order, by the services in their order.
BreadthFirst ==
  /\ Len(services) + Len(queue) = Total(shape, Len(services))
  /\ Named(1) = Root
  /\ \A k \in DOMAIN services :
       /\ services[k].calls =
            [i \in 1 .. Total(shape, k) - Total(shape, k - 1) |-> Append(services[k].path, i - 1)]
       /\ \A i \in 1 .. Total(shape, k) - Total(shape, k - 1) :
            Named(Total(shape, k - 1) + i) = Append(services[k].path, i - 1)

LEMMA BreadthFirstInit == TreeInit => BreadthFirst
<1> SUFFICES ASSUME TreeInit PROVE BreadthFirst
  OBVIOUS
<1>1. queue = << <<0>> >> /\ services = << >> /\ shape \in Shapes
  BY DEF TreeInit, Root
<1>2. Len(services) = 0 /\ Len(queue) = 1 /\ DOMAIN services = {} /\ queue[1] = <<0>>
  BY <1>1
<1>3. Total(shape, 0) = 1
  BY <1>1, ShapeNumbers, Totals
<1>4. Named(1) = Root
  BY <1>2 DEF Named, Root
<1> QED
  BY <1>2, <1>3, <1>4 DEF BreadthFirst

LEMMA BreadthFirstStep == TreeTypeOK /\ BreadthFirst /\ Grow => BreadthFirst'
<1> SUFFICES ASSUME TreeTypeOK, BreadthFirst, Grow PROVE BreadthFirst'
  OBVIOUS
<1>a. PICK s, D, Q, m, head : s = shape /\ D = Len(services) /\ Q = Len(queue) /\ m = NumChildren /\ head = Head(queue)
  OBVIOUS
<1> DEFINE N == NumServices(s)
           children == [i \in 1 .. m |-> Append(head, i - 1)]
           new == [path |-> head, calls |-> children]
<1>1. /\ queue \in Seq(Seq(Nat)) /\ queue # << >> /\ s \in Shapes
      /\ services \in Seq([path : Seq(Nat), calls : Seq(Seq(Nat))])
      /\ services' = Append(services, new)
      /\ queue' = Tail(queue) \o children
      /\ shape' = s
  BY <1>a DEF TreeTypeOK, Grow
<1>2. D \in Nat /\ Q \in Nat \ {0}
  BY <1>a, <1>1
<1>3. D + Q = Total(s, D)
  BY <1>a DEF BreadthFirst
<1>b. s.branches \in Nat \ {0} /\ N \in Nat \ {0}
  BY <1>a, <1>1, ShapeNumbers
<1>4. /\ Total(s, D) \in 1 .. N
      /\ Total(s, D + 1) = IF N - Total(s, D) < s.branches THEN N ELSE Total(s, D) + s.branches
      /\ \A c \in 0 .. D : Total(s, c) <= Total(s, D)
  BY <1>2, <1>b, Totals
<1>c. \A d \in Nat : Total(s, d) \in 1 .. N
  BY <1>b, Totals
<1> HIDE DEF N
<1>5. m = Total(s, D + 1) - (D + Q)
  <2>1. Remaining = N - (D + Q)
    BY <1>a, <1>2, <1>b DEF Remaining, N
  <2> QED
    BY <1>a, <1>2, <1>b, <1>3, <1>4, <2>1 DEF NumChildren
<1>d. m \in Nat
  BY <1>2, <1>b, <1>3, <1>4, <1>5
<1>6. children \in Seq(Seq(Nat)) /\ Len(children) = m
  <2>1. head \in Seq(Nat)
    BY <1>a, <1>1
  <2>2. \A i \in 1 .. m : Append(head, i - 1) \in Seq(Nat)
    BY <1>d, <2>1
  <2> QED
    BY <1>d, <2>2
<1>7. \A i \in 1 .. m : children[i] = Append(head, i - 1)
  OBVIOUS
<1>8. /\ Tail(queue) \in Seq(Seq(Nat)) /\ Len(Tail(queue)) = Q - 1
      /\ \A i \in 1 .. Q - 1 : Tail(queue)[i] = queue[i + 1]
      /\ queue[1] = head
  BY <1>a, <1>1, <1>2
<1>9. /\ Len(services') = D + 1 /\ DOMAIN services' = 1 .. D + 1 /\ DOMAIN services = 1 .. D
      /\ \A k \in 1 .. D : services'[k] = services[k]
      /\ services'[D + 1] = new
  <2>1. new \in [path : Seq(Nat), calls : Seq(Seq(Nat))]
    BY <1>a, <1>1, <1>6
  <2> HIDE DEF new
  <2> QED
    BY <1>a, <1>1, <2>1
<1>10. new.path = head /\ new.calls = children
  OBVIOUS
<1> HIDE DEF children, new
<1>11. Joined(queue', Tail(queue), children, Seq(Nat))
  BY <1>1, <1>6, <1>8, Concatenated
<1>12. /\ Len(queue') = (Q - 1) + m
       /\ \A i \in 1 .. Q - 1 : queue'[i] = queue[i + 1]
       /\ \A i \in 1 .. m : queue'[(Q - 1) + i] = children[i]
  BY <1>6, <1>8, <1>11 DEF Joined
<1>13. Len(services') + Len(queue') = Total(shape', Len(services'))
  <2>1. Len(services') = D + 1 /\ Len(queue') = (Q - 1) + m /\ shape' = s
    BY <1>1, <1>9, <1>12
  <2>2. (D + 1) + ((Q - 1) + m) = Total(s, D + 1)
    <3>1. Total(s, D + 1) \in Int
      BY <1>2, <1>b, <1>4, <1>3
    <3> QED
      BY <1>2, <1>d, <1>5, <3>1
  <2> QED
    BY <2>1, <2>2
<1>14. ASSUME NEW k \in 1 .. D + Q PROVE Named(k)' = Named(k)
  <2>1. CASE k <= D
    <3>1. k \in 1 .. D /\ k <= D + 1
      BY <1>2, <2>1
    <3> QED
      BY <1>a, <1>9, <2>1, <3>1 DEF Named
  <2>2. CASE k = D + 1
    <3>1. Named(k)' = head
      BY <1>2, <1>9, <1>10, <2>2 DEF Named
    <3>2. Named(k) = queue[1]
      BY <1>a, <1>2, <2>2 DEF Named
    <3> QED
      BY <1>8, <3>1, <3>2
  <2>3. CASE ~(k <= D + 1)
    <3>1. k - (D + 1) \in 1 .. Q - 1 /\ (k - (D + 1)) + 1 = k - D /\ ~(k <= D)
      BY <1>2, <2>3
    <3>2. Named(k)' = queue'[k - (D + 1)]
      BY <1>9, <2>3 DEF Named
    <3>3. Named(k) = queue[k - D]
      BY <1>a, <3>1 DEF Named
    <3> QED
      BY <1>12, <3>1, <3>2, <3>3
  <2> QED
    BY <1>2, <2>1, <2>2, <2>3
<1>15. ASSUME NEW i \in 1 .. m PROVE Named((D + Q) + i)' = Append(head, i - 1)
  <2>1. ((D + Q) + i) - (D + 1) = (Q - 1) + i /\ ~((D + Q) + i <= D + 1)
    BY <1>2, <1>d
  <2>2. Named((D + Q) + i)' = queue'[((D + Q) + i) - (D + 1)]
    BY <1>9, <2>1 DEF Named
  <2> QED
    BY <1>7, <1>12, <2>1, <2>2
<1>16. Named(1)' = Root
  <2>1. Named(1)' = Named(1)
    BY <1>2, <1>14
  <2> QED
    BY <2>1 DEF BreadthFirst
<1>17. ASSUME NEW k \in DOMAIN services'
       PROVE  /\ services'[k].calls =
                   [i \in 1 .. Total(s, k) - Total(s, k - 1) |-> Append(services'[k].path, i - 1)]
              /\ \A i \in 1 .. Total(s, k) - Total(s, k - 1) :
                   Named(Total(s, k - 1) + i)' = Append(services'[k].path, i - 1)
  <2>1. CASE k \in 1 .. D
    <3>1. services'[k] = services[k] /\ k \in DOMAIN services
      BY <1>9, <2>1
    <3>2. k \in 0 .. D /\ k - 1 \in 0 .. D /\ k - 1 \in Nat /\ k \in Nat
      BY <1>2, <2>1
    <3>3. Total(s, k) \in 1 .. N /\ Total(s, k - 1) \in 1 .. N /\ Total(s, k) <= D + Q
      BY <1>c, <1>3, <1>4, <3>2
    <3>4. \A i \in 1 .. Total(s, k) - Total(s, k - 1) : Total(s, k - 1) + i \in 1 .. D + Q
      BY <1>2, <1>b, <3>3
    <3>5. \A i \in 1 .. Total(s, k) - Total(s, k - 1) :
            Named(Total(s, k - 1) + i)' = Named(Total(s, k - 1) + i)
      BY <1>14, <3>4
    <3>6. /\ services[k].calls =
               [i \in 1 .. Total(s, k) - Total(s, k - 1) |-> Append(services[k].path, i - 1)]
          /\ \A i \in 1 .. Total(s, k) - Total(s, k - 1) :
               Named(Total(s, k - 1) + i) = Append(services[k].path, i - 1)
      BY <1>a, <3>1 DEF BreadthFirst
    <3> QED
      BY <3>1, <3>5, <3>6
  <2>2. CASE k = D + 1
    <3>1. services'[k].path = head /\ services'[k].calls = children /\ k - 1 = D
      BY <1>2, <1>9, <1>10, <2>2
    <3>2. Total(s, k) - Total(s, k - 1) = m /\ Total(s, k - 1) = D + Q
      BY <1>3, <1>5, <2>2, <3>1
    <3> QED
      BY <1>15, <3>1, <3>2 DEF children
  <2> QED
    BY <1>2, <1>9, <2>1, <2>2
<1> QED
  BY <1>1, <1>13, <1>16, <1>17 DEF BreadthFirst

\* Paths of n parts.
LEMMA PathLonger ==
  ASSUME NEW n \in Nat, NEW S, NEW p \in [1 .. n -> S], NEW x \in S
  PROVE  /\ p \in Seq(S) /\ Len(p) = n
         /\ Append(p, x) \in [1 .. n + 1 -> S]
         /\ \A j \in 1 .. n : Append(p, x)[j] = p[j]
         /\ Append(p, x)[n + 1] = x
<1>1. p \in Seq(S) /\ Len(p) = n
  <2>1. p = [i \in 1 .. n |-> p[i]] /\ \A i \in 1 .. n : p[i] \in S
    OBVIOUS
  <2> DEFINE q == [i \in 1 .. n |-> p[i]]
  <2>2. q \in Seq(S) /\ Len(q) = n
    BY <2>1
  <2> QED
    BY <2>1, <2>2
<1>2. /\ Append(p, x) \in Seq(S) /\ Len(Append(p, x)) = n + 1
      /\ \A j \in 1 .. n : Append(p, x)[j] = p[j]
      /\ Append(p, x)[n + 1] = x
  BY <1>1
<1>3. \A q \in Seq(S) : q \in [1 .. Len(q) -> S]
  OBVIOUS
<1> QED
  BY <1>1, <1>2, <1>3

LEMMA PathShorter ==
  ASSUME NEW n \in Nat \ {0}, NEW S, NEW q \in [1 .. n + 1 -> S]
  PROVE  LET p == [i \in 1 .. n |-> q[i]]
         IN  /\ p \in [1 .. n -> S] /\ p[1] = q[1] /\ q[n + 1] \in S
             /\ Append(p, q[n + 1]) = q
<1> DEFINE p == [i \in 1 .. n |-> q[i]]
<1>1. n \in Nat /\ 1 \in 1 .. n /\ n + 1 \in 1 .. n + 1 /\ \A i \in 1 .. n : i \in 1 .. n + 1
  OBVIOUS
<1>2. p \in [1 .. n -> S] /\ p[1] = q[1] /\ q[n + 1] \in S /\ \A i \in 1 .. n : p[i] = q[i]
  BY <1>1
<1> HIDE DEF p
<1> DEFINE r == Append(p, q[n + 1])
<1>3. r \in [1 .. n + 1 -> S] /\ (\A j \in 1 .. n : r[j] = p[j]) /\ r[n + 1] = q[n + 1]
  BY <1>1, <1>2, PathLonger
<1> HIDE DEF r
<1>4. \A j \in 1 .. n + 1 : r[j] = q[j]
  <2>1. \A j \in 1 .. n + 1 : j \in 1 .. n \/ j = n + 1
    BY <1>1
  <2> QED
    BY <1>2, <1>3, <2>1
<1>5. r = q
  BY <1>3, <1>4
<1> QED
  BY <1>2, <1>5 DEF p, r

LEMMA SameParent ==
  ASSUME NEW n \in Nat, NEW S, NEW p \in [1 .. n -> S], NEW q \in [1 .. n -> S], NEW x \in S, NEW y \in S,
         Append(p, x) = Append(q, y)
  PROVE  p = q /\ x = y
<1>1. (\A j \in 1 .. n : Append(p, x)[j] = p[j]) /\ Append(p, x)[n + 1] = x
  BY PathLonger
<1>2. (\A j \in 1 .. n : Append(q, y)[j] = q[j]) /\ Append(q, y)[n + 1] = y
  BY PathLonger
<1>3. \A j \in 1 .. n : p[j] = q[j]
  BY <1>1, <1>2
<1> QED
  BY <1>1, <1>2, <1>3

\* Where the services of a level were named: those after U[n - 1], up to U[n].
OnLevel(U, n, m) == U[n - 1] < m /\ m <= U[n]

\* The children of level n are level n + 1.
LEMMA LevelOfChild ==
  ASSUME NEW s \in Shapes, NEW U, Levels(U, s), NEW n \in 1 .. s.levels, n + 1 <= s.levels,
         NEW k \in Nat \ {0}, NEW i \in 1 .. s.branches
  PROVE  OnLevel(U, n, k) <=> OnLevel(U, n + 1, (1 + (k - 1) * s.branches) + i)
<1> DEFINE b == s.branches
           x == (k - 1) * b
<1>1. b \in Nat \ {0} /\ s.levels \in Nat \ {0}
  BY ShapesAssumption
<1>2. /\ n - 1 \in 0 .. s.levels /\ n + 1 \in 1 .. s.levels /\ (n + 1) - 1 = n /\ n \in Nat
      /\ n - 1 \in Nat
  BY <1>1
<1>3. /\ U[n - 1] \in Nat /\ U[n] \in Nat
      /\ U[n] = 1 + b * U[n - 1] /\ U[n + 1] = 1 + b * U[n]
  BY <1>2 DEF Levels
<1>4. k - 1 \in Nat /\ (k - 1) + 1 = k /\ i \in Nat /\ i >= 1 /\ i <= b /\ k \in Nat
  BY <1>1
<1>5. x \in Nat /\ k * b = x + b
  BY <1>1, <1>4, Products, Multiples
<1>6. \A y \in Nat : b * y = y * b /\ y * b \in Nat
  BY <1>1, Products, SMT
<1> HIDE DEF b, x
<1>7. ASSUME NEW y \in Nat
      PROVE  /\ y < k => y * b <= x
             /\ k <= y => x + b <= y * b
  <2>1. y < k => y <= k - 1
    BY <1>4
  <2>2. y <= k - 1 => y * b <= (k - 1) * b
    BY <1>1, <1>4, Multiples
  <2>3. k <= y => k * b <= y * b
    BY <1>1, <1>4, Multiples
  <2> QED
    BY <1>5, <2>1, <2>2, <2>3 DEF x
<1>8. \A y \in Nat : y < k <=> ~(k <= y)
  BY <1>4
<1>9. \A y \in Nat : y < k <=> 1 + y * b < (1 + x) + i
  <2> SUFFICES ASSUME NEW y \in Nat PROVE y < k <=> 1 + y * b < (1 + x) + i
    OBVIOUS
  <2>1. y * b \in Nat
    BY <1>6
  <2> QED
    <3>1. b \in Nat /\ x \in Nat /\ i \in Nat /\ i >= 1 /\ i <= b
      BY <1>1, <1>4, <1>5
    <3>2. CASE y < k
      <4>1. y * b <= x
        BY <1>7, <3>2
      <4> QED
        BY <2>1, <3>1, <3>2, <4>1
    <3>3. CASE k <= y
      <4>1. x + b <= y * b
        BY <1>7, <3>3
      <4>2. ~(1 + y * b < (1 + x) + i)
        BY <2>1, <3>1, <4>1
      <4> QED
        BY <1>8, <3>3, <4>2
    <3> QED
      BY <1>8, <3>2, <3>3
<1>10. OnLevel(U, n + 1, (1 + x) + i) <=> (U[n - 1] < k /\ ~(U[n] < k))
  <2>1. 1 + U[n - 1] * b = U[n] /\ 1 + U[n] * b = U[n + 1]
    BY <1>3, <1>6
  <2>2. U[n - 1] < k <=> U[n] < (1 + x) + i
    BY <1>3, <1>9, <2>1
  <2>3. U[n] < k <=> U[n + 1] < (1 + x) + i
    BY <1>3, <1>9, <2>1
  <2>4. U[n + 1] \in Nat /\ (1 + x) + i \in Nat
    <3>1. n + 1 \in 0 .. s.levels
      BY <1>2
    <3>2. U[n + 1] \in Nat
      BY <3>1 DEF Levels
    <3> QED
      BY <1>4, <1>5, <3>2
  <2>5. ~(U[n + 1] < (1 + x) + i) <=> (1 + x) + i <= U[n + 1]
    BY <2>4
  <2>6. OnLevel(U, n + 1, (1 + x) + i) <=> U[n] < (1 + x) + i /\ (1 + x) + i <= U[n + 1]
    BY <1>2 DEF OnLevel
  <2> QED
    BY <2>2, <2>3, <2>5, <2>6
<1>11. OnLevel(U, n, k) <=> (U[n - 1] < k /\ ~(U[n] < k))
  BY <1>3, <1>8 DEF OnLevel
<1> QED
  BY <1>10, <1>11 DEF x, b

LEMMA Parent ==
  ASSUME NEW b \in Nat \ {0}, NEW m \in Nat, m >= 2
  PROVE  \E k \in Nat \ {0}, i \in 1 .. b : m = (1 + (k - 1) * b) + i /\ k < m
<1> DEFINE x == m - 2
           q == x \div b
           r == x % b
<1>1. x \in Nat /\ b \in Nat
  OBVIOUS
<1>2. \A y \in Nat, c \in Nat \ {0} : y \div c \in Nat /\ y % c \in 0 .. c - 1 /\ y = (y \div c) * c + (y % c)
  BY SMT
<1>3. q \in Nat /\ r \in 0 .. b - 1 /\ x = q * b + r
  BY <1>1, <1>2
<1> HIDE DEF q, r
<1>4. q <= q * b
  <2>1. \A y \in Nat : y * 1 = y
    BY SMT
  <2>2. \A y, c \in Nat : y * c = c * y
    BY SMT
  <2>3. 1 * q <= b * q
    BY <1>1, <1>3, Multiples
  <2> QED
    BY <1>1, <1>3, <2>1, <2>2, <2>3
<1>5. q * b \in Nat
  BY <1>1, <1>3, Products
<1> DEFINE k == q + 1
           i == r + 1
<1>6. k \in Nat \ {0} /\ i \in 1 .. b /\ k - 1 = q
  BY <1>3
<1>7. m = (1 + q * b) + i /\ k < m
  BY <1>1, <1>3, <1>4, <1>5
<1> HIDE DEF k, i
<1>8. m = (1 + (k - 1) * b) + i /\ k < m
  BY <1>6, <1>7
<1> QED
  BY <1>6, <1>8, Zenon

LEMMA LevelsGrow ==
  ASSUME NEW s \in Shapes, NEW U, Levels(U, s)
  PROVE  \A j \in 0 .. s.levels : \A i \in 0 .. j : U[i] <= U[j]
<1> DEFINE S == {j \in Nat : \A i \in 0 .. j : U[i] <= U[j]}
<1>1. s.branches \in Nat \ {0} /\ s.levels \in Nat
  BY ShapesAssumption
<1>2. U[0] = 0 /\ \A n \in 0 .. s.levels : U[n] \in Nat
  BY <1>1 DEF Levels
<1>3. 0 \in S
  BY <1>2
<1>4. ASSUME NEW n \in Nat, n \in S /\ n + 1 <= s.levels PROVE n + 1 \in S
  <2>1. n \in 0 .. s.levels /\ n + 1 \in 1 .. s.levels /\ n + 1 \in 0 .. s.levels /\ (n + 1) - 1 = n
    BY <1>1, <1>4
  <2>2. U[n + 1] = 1 + s.branches * U[n]
    BY <2>1 DEF Levels
  <2>3. 1 * U[n] <= s.branches * U[n] /\ s.branches * U[n] \in Nat
    BY <1>1, <1>2, <2>1, Multiples, Products
  <2>4. U[n] \in Nat /\ U[n + 1] \in Nat
    BY <1>2, <2>1
  <2>5. U[n] <= U[n + 1]
    <3>1. 1 * U[n] = U[n]
      BY <2>4
    <3> QED
      BY <2>2, <2>3, <2>4, <3>1
  <2>6. \A i \in 0 .. n + 1 : i \in 0 .. n \/ i = n + 1
    BY <2>1
  <2>7. \A i \in 0 .. n : U[i] <= U[n] /\ U[i] \in Nat
    <3>1. \A i \in 0 .. n : i \in 0 .. s.levels
      BY <1>1, <2>1
    <3> QED
      BY <1>2, <1>4, <3>1
  <2>8. \A i \in 0 .. n + 1 : U[i] <= U[n + 1]
    <3>1. \A i \in 0 .. n : U[i] <= U[n + 1]
      BY <2>4, <2>5, <2>7
    <3> QED
      BY <2>4, <2>6, <3>1
  <2> QED
    BY <2>1, <2>8
<1> HIDE DEF S
<1>5. \A j \in 0 .. s.levels : j \in S
  BY <1>1, <1>3, <1>4, UpTo
<1> QED
  BY <1>5 DEF S

LEMMA OnSomeLevel ==
  ASSUME NEW s \in Shapes, NEW U, Levels(U, s)
  PROVE  \A m \in 1 .. NumServices(s) : \E n \in 1 .. s.levels : OnLevel(U, n, m)
<1> DEFINE S == {j \in Nat : \A m \in 1 .. U[j] : \E n \in 1 .. j : OnLevel(U, n, m)}
<1>1. s.branches \in Nat \ {0} /\ s.levels \in Nat \ {0}
  BY ShapesAssumption
<1>2. U[0] = 0 /\ \A n \in 0 .. s.levels : U[n] \in Nat
  BY <1>1 DEF Levels
<1>3. 0 \in S
  BY <1>2
<1>4. ASSUME NEW n \in Nat, n \in S /\ n + 1 <= s.levels PROVE n + 1 \in S
  <2> SUFFICES ASSUME NEW m \in 1 .. U[n + 1] PROVE \E j \in 1 .. n + 1 : OnLevel(U, j, m)
    OBVIOUS
  <2>1. n \in 0 .. s.levels /\ n + 1 \in 0 .. s.levels /\ n + 1 \in 1 .. n + 1 /\ (n + 1) - 1 = n
    BY <1>1, <1>4
  <2>2. m \in Nat /\ 1 <= m /\ m <= U[n + 1] /\ U[n] \in Nat
    BY <1>2, <2>1
  <2>3. CASE m <= U[n]
    <3>1. m \in 1 .. U[n]
      BY <2>2, <2>3
    <3>2. PICK j \in 1 .. n : OnLevel(U, j, m)
      BY <1>4, <3>1
    <3>3. j \in 1 .. n + 1
      BY <2>1
    <3> QED
      BY <3>2, <3>3
  <2>4. CASE ~(m <= U[n])
    <3>1. U[n] < m
      BY <2>2, <2>4
    <3>2. OnLevel(U, n + 1, m)
      BY <2>1, <2>2, <3>1 DEF OnLevel
    <3> QED
      BY <2>1, <3>2
  <2> QED
    BY <2>3, <2>4
<1> HIDE DEF S
<1>5. s.levels \in S
  <2>1. s.levels \in 0 .. s.levels /\ s.levels \in Nat
    BY <1>1
  <2>2. \A j \in 0 .. s.levels : j \in S
    BY <1>3, <1>4, <2>1, UpTo
  <2> QED
    BY <2>1, <2>2
<1> QED
  BY <1>5 DEF S, Levels

\* P[k] is the path of the k-th of all services.
IsTree(s, P) ==
  /\ P[1] = Root
  /\ \A k \in 1 .. NumServices(s), i \in 1 .. s.branches :
       (1 + (k - 1) * s.branches) + i <= NumServices(s) =>
         P[(1 + (k - 1) * s.branches) + i] = Append(P[k], i - 1)

\* Each path of n parts belongs to one service, of the n-th level.
LevelOf(s, U, P, n) ==
  LET paths == [1 .. n -> 0 .. s.branches - 1]
  IN  /\ \A m \in 1 .. NumServices(s) : OnLevel(U, n, m) => P[m] \in paths /\ P[m][1] = 0
      /\ \A p \in paths : p[1] = 0 => \E m \in 1 .. NumServices(s) : OnLevel(U, n, m) /\ P[m] = p
      /\ \A m, l \in 1 .. NumServices(s) :
           OnLevel(U, n, m) /\ OnLevel(U, n, l) /\ P[m] = P[l] => m = l

LEMMA FirstLevel ==
  ASSUME NEW s \in Shapes, NEW U, Levels(U, s), NEW P, IsTree(s, P)
  PROVE  LevelOf(s, U, P, 1)
<1>1. s.branches \in Nat \ {0} /\ s.levels \in Nat \ {0}
  BY ShapesAssumption
<1>2. 1 \in 1 .. s.levels /\ 1 \in 0 .. s.levels /\ 1 - 1 = 0 /\ s.levels \in 0 .. s.levels
  BY <1>1
<1>3. U[0] = 0 /\ U[1] = 1 + s.branches * U[0] /\ NumServices(s) = U[s.levels]
  BY <1>2 DEF Levels
<1>4. s.branches * 0 = 0
  BY <1>1
<1>5. U[1] = 1
  BY <1>3, <1>4
<1>6. NumServices(s) \in Nat /\ 1 <= NumServices(s)
  BY <1>2, <1>3, <1>5, LevelsGrow DEF Levels
<1> DEFINE N == NumServices(s)
           paths == [1 .. 1 -> 0 .. s.branches - 1]
<1>7. \A m \in 1 .. N : OnLevel(U, 1, m) <=> m = 1
  BY <1>2, <1>3, <1>5, <1>6 DEF OnLevel
<1>8. P[1] = <<0>> /\ <<0>>[1] = 0 /\ <<0>> \in paths
  BY <1>1 DEF IsTree, Root
<1>9. \A p \in paths : p[1] = 0 => p = <<0>>
  OBVIOUS
<1>10. 1 \in 1 .. N
  BY <1>6
<1> HIDE DEF N
<1> QED
  BY <1>7, <1>8, <1>9, <1>10 DEF LevelOf, N

\* What a service and its place say of the services it has below it.
LEMMA ChildOf ==
  ASSUME NEW s \in Shapes, NEW U, Levels(U, s), NEW P, IsTree(s, P),
         NEW n \in 1 .. s.levels, n + 1 <= s.levels, LevelOf(s, U, P, n),
         NEW k \in 1 .. NumServices(s), NEW i \in 1 .. s.branches,
         OnLevel(U, n, k)
  PROVE  LET m == (1 + (k - 1) * s.branches) + i
         IN  /\ m \in 1 .. NumServices(s) /\ OnLevel(U, n + 1, m) /\ P[m] = Append(P[k], i - 1)
             /\ P[k] \in [1 .. n -> 0 .. s.branches - 1] /\ P[k][1] = 0 /\ i - 1 \in 0 .. s.branches - 1
<1> DEFINE m == (1 + (k - 1) * s.branches) + i
           N == NumServices(s)
<1>1. s.branches \in Nat \ {0} /\ s.levels \in Nat \ {0}
  BY ShapesAssumption
<1>2. n + 1 \in 0 .. s.levels /\ s.levels \in 0 .. s.levels /\ n \in 0 .. s.levels
  BY <1>1
<1>3. N = U[s.levels] /\ U[n + 1] <= U[s.levels] /\ N \in Nat /\ U[n] \in Nat /\ U[n + 1] \in Nat
  <2>1. n + 1 \in 0 .. s.levels
    BY <1>2
  <2> QED
    BY <1>2, <2>1, LevelsGrow DEF Levels
<1>4. k \in Nat \ {0} /\ k - 1 \in Nat
  BY <1>3
<1>5. OnLevel(U, n + 1, m)
  BY <1>4, LevelOfChild
<1>6. m \in Nat /\ m >= 1
  <2>1. (k - 1) * s.branches \in Nat
    BY <1>1, <1>4, Products
  <2> QED
    BY <1>1, <2>1
<1> HIDE DEF m
<1>7. m <= N
  <2>1. m <= U[n + 1]
    BY <1>5 DEF OnLevel
  <2> QED
    BY <1>3, <1>6, <2>1
<1>8. m \in 1 .. N
  BY <1>3, <1>6, <1>7
<1>9. P[m] = Append(P[k], i - 1)
  BY <1>7 DEF IsTree, m, N
<1>10. P[k] \in [1 .. n -> 0 .. s.branches - 1] /\ P[k][1] = 0
  BY DEF LevelOf
<1>11. i - 1 \in 0 .. s.branches - 1
  BY <1>1
<1> QED
  BY <1>5, <1>8, <1>9, <1>10, <1>11 DEF m, N

\* Each service of a later level is below one of the level before.
LEMMA ParentOnLevel ==
  ASSUME NEW s \in Shapes, NEW U, Levels(U, s), NEW n \in 1 .. s.levels, n + 1 <= s.levels,
         NEW m \in 1 .. NumServices(s), OnLevel(U, n + 1, m)
  PROVE  \E k \in 1 .. NumServices(s), i \in 1 .. s.branches :
           m = (1 + (k - 1) * s.branches) + i /\ OnLevel(U, n, k) /\ k < m
<1>1. s.branches \in Nat \ {0} /\ s.levels \in Nat \ {0}
  BY ShapesAssumption
<1>2. /\ n - 1 \in 0 .. s.levels /\ (n + 1) - 1 = n /\ s.levels \in 0 .. s.levels
  BY <1>1
<1>3. U[n] = 1 + s.branches * U[n - 1] /\ U[n - 1] \in Nat /\ NumServices(s) \in Nat
  BY <1>2 DEF Levels
<1>4. U[n] \in Nat /\ U[n] >= 1
  <2>1. s.branches * U[n - 1] \in Nat
    BY <1>1, <1>3, Products
  <2> QED
    BY <1>3, <2>1
<1>5. m \in Nat /\ m >= 2
  <2>1. U[n] < m
    BY <1>2 DEF OnLevel
  <2> QED
    BY <1>3, <1>4, <2>1
<1>6. PICK k \in Nat \ {0}, i \in 1 .. s.branches : m = (1 + (k - 1) * s.branches) + i /\ k < m
  BY <1>1, <1>5, Parent
<1>7. k \in 1 .. NumServices(s)
  BY <1>3, <1>6
<1>8. OnLevel(U, n, k)
  BY <1>6, LevelOfChild
<1> QED
  BY <1>6, <1>7, <1>8

LEMMA NextLevel ==
  ASSUME NEW s \in Shapes, NEW U, Levels(U, s), NEW P, IsTree(s, P),
         NEW n \in 1 .. s.levels, n + 1 <= s.levels, LevelOf(s, U, P, n)
  PROVE  LevelOf(s, U, P, n + 1)
<1> DEFINE N == NumServices(s)
           parts == 0 .. s.branches - 1
           at(k, i) == (1 + (k - 1) * s.branches) + i
<1>1. n \in Nat \ {0} /\ n \in Nat /\ s.branches \in Nat \ {0}
  BY ShapesAssumption
<1>2. ASSUME NEW k \in 1 .. N, NEW i \in 1 .. s.branches, OnLevel(U, n, k)
      PROVE  /\ at(k, i) \in 1 .. N /\ OnLevel(U, n + 1, at(k, i)) /\ P[at(k, i)] = Append(P[k], i - 1)
             /\ P[k] \in [1 .. n -> parts] /\ P[k][1] = 0 /\ i - 1 \in parts
  BY <1>2, ChildOf
<1>3. ASSUME NEW m \in 1 .. N, OnLevel(U, n + 1, m)
      PROVE  \E k \in 1 .. N, i \in 1 .. s.branches : m = at(k, i) /\ OnLevel(U, n, k)
  BY <1>3, ParentOnLevel
<1> HIDE DEF at, N, parts
<1>4. ASSUME NEW m \in 1 .. N, OnLevel(U, n + 1, m)
      PROVE  P[m] \in [1 .. n + 1 -> parts] /\ P[m][1] = 0
  <2>1. PICK k \in 1 .. N, i \in 1 .. s.branches : m = at(k, i) /\ OnLevel(U, n, k)
    BY <1>3, <1>4
  <2>2. /\ P[m] = Append(P[k], i - 1) /\ P[k] \in [1 .. n -> parts] /\ P[k][1] = 0 /\ i - 1 \in parts
    BY <1>2, <2>1
  <2>a. PICK p, x : p = P[k] /\ x = i - 1
    OBVIOUS
  <2>b. p \in [1 .. n -> parts] /\ x \in parts /\ P[m] = Append(p, x) /\ p[1] = 0
    BY <2>2, <2>a
  <2>3. /\ Append(p, x) \in [1 .. n + 1 -> parts]
        /\ \A j \in 1 .. n : Append(p, x)[j] = p[j]
    <3>1. n \in Nat /\ p \in [1 .. n -> parts] /\ x \in parts
      BY <1>1, <2>b, Zenon
    <3>2. PICK S : S = parts
      OBVIOUS
    <3>3. p \in [1 .. n -> S] /\ x \in S
      BY <3>1, <3>2, Zenon
    <3>4. /\ Append(p, x) \in [1 .. n + 1 -> S]
          /\ \A j \in 1 .. n : Append(p, x)[j] = p[j]
      BY ONLY <3>1, <3>3, PathLonger
    <3> QED
      BY <3>2, <3>4
  <2>4. 1 \in 1 .. n
    BY <1>1
  <2>5. Append(p, x)[1] = p[1]
    BY <2>3, <2>4
  <2>6. PICK r : r = Append(p, x)
    OBVIOUS
  <2>7. r \in [1 .. n + 1 -> parts] /\ r[1] = 0
    BY <2>b, <2>3, <2>5, <2>6
  <2>8. P[m] = r
    BY <2>b, <2>6
  <2> QED
    BY <2>7, <2>8, Zenon
<1>5. ASSUME NEW p \in [1 .. n + 1 -> parts], p[1] = 0
      PROVE  \E m \in 1 .. N : OnLevel(U, n + 1, m) /\ P[m] = p
  <2> DEFINE front == [j \in 1 .. n |-> p[j]]
  <2>1. front \in [1 .. n -> parts] /\ front[1] = 0 /\ p[n + 1] \in parts /\ Append(front, p[n + 1]) = p
    BY <1>1, <1>5, PathShorter
  <2> HIDE DEF front
  <2>2. PICK k \in 1 .. N : OnLevel(U, n, k) /\ P[k] = front
    BY <2>1 DEF LevelOf, N, parts
  <2>3. p[n + 1] + 1 \in 1 .. s.branches /\ (p[n + 1] + 1) - 1 = p[n + 1]
    BY <1>1, <2>1 DEF parts
  <2>4. /\ at(k, p[n + 1] + 1) \in 1 .. N /\ OnLevel(U, n + 1, at(k, p[n + 1] + 1))
        /\ P[at(k, p[n + 1] + 1)] = Append(P[k], (p[n + 1] + 1) - 1)
    BY <1>2, <2>2, <2>3
  <2> QED
    BY <2>1, <2>2, <2>3, <2>4
<1>6. ASSUME NEW m \in 1 .. N, NEW l \in 1 .. N, OnLevel(U, n + 1, m), OnLevel(U, n + 1, l), P[m] = P[l]
      PROVE  m = l
  <2>1. PICK k \in 1 .. N, i \in 1 .. s.branches : m = at(k, i) /\ OnLevel(U, n, k)
    BY <1>3, <1>6
  <2>2. PICK h \in 1 .. N, j \in 1 .. s.branches : l = at(h, j) /\ OnLevel(U, n, h)
    BY <1>3, <1>6
  <2>3. P[m] = Append(P[k], i - 1) /\ P[k] \in [1 .. n -> parts] /\ i - 1 \in parts
    BY <1>2, <2>1
  <2>4. P[l] = Append(P[h], j - 1) /\ P[h] \in [1 .. n -> parts] /\ j - 1 \in parts
    BY <1>2, <2>2
  <2>5. P[k] = P[h] /\ i - 1 = j - 1
    <3>1. PICK p, x, q, y : p = P[k] /\ x = i - 1 /\ q = P[h] /\ y = j - 1
      OBVIOUS
    <3>2. /\ p \in [1 .. n -> parts] /\ x \in parts /\ q \in [1 .. n -> parts] /\ y \in parts
          /\ Append(p, x) = Append(q, y)
      BY <1>6, <2>3, <2>4, <3>1
    <3>3. p = q /\ x = y
      BY <1>1, <3>2, SameParent
    <3> QED
      BY <3>1, <3>3
  <2>6. k = h
    BY <2>1, <2>2, <2>5 DEF LevelOf, N
  <2>7. i = j
    BY <1>1, <2>5
  <2> QED
    BY <2>1, <2>2, <2>6, <2>7
<1> QED
  BY <1>4, <1>5, <1>6 DEF LevelOf, N, parts

LEMMA EveryLevel ==
  ASSUME NEW s \in Shapes, NEW U, Levels(U, s), NEW P, IsTree(s, P)
  PROVE  \A n \in 1 .. s.levels : LevelOf(s, U, P, n)
<1> DEFINE S == {n \in Nat : n # 0 => LevelOf(s, U, P, n)}
<1>1. s.levels \in Nat \ {0}
  BY ShapesAssumption
<1>2. 0 \in S
  OBVIOUS
<1>3. ASSUME NEW n \in Nat, n \in S /\ n + 1 <= s.levels PROVE n + 1 \in S
  <2>1. CASE n = 0
    BY <2>1, FirstLevel
  <2>2. CASE n # 0
    <3>1. n \in 1 .. s.levels /\ LevelOf(s, U, P, n)
      BY <1>1, <1>3, <2>2
    <3>2. LevelOf(s, U, P, n + 1)
      BY <1>3, <3>1, NextLevel
    <3> QED
      BY <3>2
  <2> QED
    BY <2>1, <2>2
<1> HIDE DEF S
<1>4. \A n \in 0 .. s.levels : n \in S
  BY <1>1, <1>2, <1>3, UpTo
<1>5. \A n \in 1 .. s.levels : n \in 0 .. s.levels /\ n # 0
  BY <1>1
<1> QED
  BY <1>4, <1>5 DEF S

\* A path has as many parts as its service has levels above it and its own.
LEMMA PathOnLevel ==
  ASSUME NEW s \in Shapes, NEW U, Levels(U, s), NEW P, IsTree(s, P),
         NEW k \in 1 .. NumServices(s), NEW n \in 1 .. s.levels, OnLevel(U, n, k)
  PROVE  P[k] \in [1 .. n -> 0 .. s.branches - 1] /\ P[k][1] = 0 /\ Len(P[k]) = n
<1>1. LevelOf(s, U, P, n)
  BY EveryLevel
<1>2. P[k] \in [1 .. n -> 0 .. s.branches - 1] /\ P[k][1] = 0
  BY <1>1 DEF LevelOf
<1>3. n \in Nat /\ 0 \in 0 .. s.branches - 1
  BY ShapesAssumption
<1>4. PICK p, S : p = P[k] /\ S = 0 .. s.branches - 1
  OBVIOUS
<1>5. p \in [1 .. n -> S] /\ 0 \in S
  BY <1>2, <1>3, <1>4
<1>6. Len(p) = n
  BY ONLY <1>3, <1>5, PathLonger
<1> QED
  BY <1>2, <1>4, <1>6

LEMMA PathsInOrder ==
  ASSUME NEW s \in Shapes, NEW U, Levels(U, s), NEW P, IsTree(s, P),
         NEW k \in 1 .. NumServices(s), NEW l \in 1 .. NumServices(s), k < l
  PROVE  P[k] # P[l] /\ Len(P[k]) <= Len(P[l])
<1>1. PICK n \in 1 .. s.levels : OnLevel(U, n, k)
  BY OnSomeLevel
<1>2. PICK h \in 1 .. s.levels : OnLevel(U, h, l)
  BY OnSomeLevel
<1>3. Len(P[k]) = n /\ Len(P[l]) = h
  BY <1>1, <1>2, PathOnLevel
<1>4. s.levels \in Nat
  BY ShapesAssumption
<1>a. \A j \in 0 .. s.levels : U[j] \in Nat
  BY <1>4 DEF Levels
<1>5. n <= h
  <2> SUFFICES ASSUME h < n PROVE FALSE
    BY <1>4
  <2>1. h \in 0 .. n - 1 /\ n - 1 \in 0 .. s.levels /\ h \in 0 .. s.levels
    BY <1>4
  <2>2. U[h] <= U[n - 1] /\ U[h] \in Nat /\ U[n - 1] \in Nat
    BY <1>a, <2>1, LevelsGrow
  <2>3. U[n - 1] < k /\ l <= U[h]
    BY <1>1, <1>2 DEF OnLevel
  <2>4. k \in Nat /\ l \in Nat
    <3>1. s.levels \in 0 .. s.levels
      BY <1>4
    <3>2. NumServices(s) \in Nat
      BY <1>a, <3>1 DEF Levels
    <3> QED
      BY <3>2
  <2> QED
    BY <2>2, <2>3, <2>4
<1>6. P[k] # P[l]
  <2> SUFFICES ASSUME P[k] = P[l] PROVE FALSE
    OBVIOUS
  <2>1. n = h
    BY <1>3
  <2>2. LevelOf(s, U, P, n)
    BY EveryLevel
  <2>3. k = l
    BY <1>1, <1>2, <2>1, <2>2, Zenon DEF LevelOf
  <2>4. ~(k < k)
    <3>1. k \in Int
      OBVIOUS
    <3> QED
      BY <3>1
  <2> QED
    BY <2>3, <2>4
<1> QED
  BY <1>3, <1>5, <1>6

\* The services of the last level are named without any below them.
LEMMA NamedByService ==
  ASSUME NEW s \in Shapes, NEW U, Levels(U, s),
         NEW k \in 1 .. NumServices(s), NEW n \in 1 .. s.levels, OnLevel(U, n, k)
  PROVE  Total(s, k) - Total(s, k - 1) = IF n = s.levels THEN 0 ELSE s.branches
<1> DEFINE b == s.branches
           N == NumServices(s)
<1>1. b \in Nat \ {0} /\ b \in Nat /\ s.levels \in Nat \ {0}
  BY ShapesAssumption
<1>2. n - 1 \in 0 .. s.levels /\ n \in 0 .. s.levels /\ s.levels \in 0 .. s.levels
  BY <1>1
<1>3. U[n - 1] \in Nat /\ U[n] \in Nat /\ N \in Nat /\ N = U[s.levels] /\ U[n] = 1 + b * U[n - 1]
  BY <1>2 DEF Levels
<1>4. k \in Nat \ {0} /\ k - 1 \in Nat /\ (k - 1) + 1 = k
  BY <1>3
<1>5. U[n - 1] < k /\ k <= U[n]
  BY DEF OnLevel
<1>6. \A x \in Nat : Total(s, x) = IF 1 + x * b < N THEN 1 + x * b ELSE N
  BY DEF Total
<1> HIDE DEF b, N
<1>7. k * b \in Nat /\ (k - 1) * b \in Nat /\ k * b = (k - 1) * b + b
  <2>1. ((k - 1) + 1) * b = (k - 1) * b + b
    BY <1>1, <1>4, Multiples
  <2> QED
    BY <1>1, <1>4, <2>1, Products
<1>8. \A x, y \in Nat : x * y = y * x /\ x * y \in Nat
  BY Products, SMT
<1>9. Total(s, k) = (IF 1 + k * b < N THEN 1 + k * b ELSE N)
      /\ Total(s, k - 1) = IF 1 + (k - 1) * b < N THEN 1 + (k - 1) * b ELSE N
  BY <1>4, <1>6
<1>10. CASE n = s.levels
  <2>1. U[n - 1] <= k - 1
    BY <1>3, <1>4, <1>5
  <2>2. U[n - 1] * b <= (k - 1) * b
    BY <1>1, <1>3, <1>4, <2>1, Multiples
  <2>3. N = 1 + U[n - 1] * b /\ U[n - 1] * b \in Nat
    BY <1>1, <1>3, <1>8, <1>10
  <2>4. N <= 1 + (k - 1) * b
    BY <1>7, <2>2, <2>3
  <2> QED
    BY <1>1, <1>3, <1>7, <1>9, <1>10, <2>4
<1>11. CASE n # s.levels
  <2>1. n + 1 \in 1 .. s.levels /\ n + 1 \in 0 .. s.levels /\ (n + 1) - 1 = n /\ n + 1 \in 0 .. s.levels
    BY <1>1, <1>11
  <2>2. U[n + 1] = 1 + b * U[n] /\ U[n + 1] \in Nat /\ U[n + 1] <= N
    <3>1. U[n + 1] = 1 + b * U[n] /\ U[n + 1] \in Nat
      BY <2>1 DEF Levels, b
    <3> QED
      BY <1>2, <1>3, <2>1, <3>1, LevelsGrow
  <2>3. k * b <= U[n] * b
    BY <1>1, <1>3, <1>4, <1>5, Multiples
  <2>4. b * U[n] = U[n] * b /\ U[n] * b \in Nat
    BY <1>1, <1>3, <1>8
  <2>5. 1 + k * b <= N
    BY <1>3, <1>7, <2>2, <2>3, <2>4
  <2>6. Total(s, k) = 1 + k * b /\ Total(s, k - 1) = 1 + (k - 1) * b
    BY <1>1, <1>3, <1>7, <1>9, <2>5
  <2> QED
    BY <1>1, <1>7, <1>11, <2>6 DEF b
<1> QED
  BY <1>10, <1>11

\* The tree when all services are done.
LEMMA GrownIsTree ==
  ASSUME TreeTypeOK, BreadthFirst, Grown
  PROVE  IsTree(shape, [k \in 1 .. NumServices(shape) |-> services[k].path])
<1> DEFINE s == shape
           b == s.branches
           N == NumServices(s)
           P == [k \in 1 .. N |-> services[k].path]
<1>1. s \in Shapes /\ N = Len(services) /\ DOMAIN services = 1 .. N /\ N \in Nat \ {0} /\ b \in Nat \ {0}
  <2>1. shape \in Shapes /\ N = Len(services) /\ DOMAIN services = 1 .. N
    BY DEF TreeTypeOK, Grown
  <2> QED
    BY <2>1, ShapeNumbers
<1>2. P[1] = Root
  <2>1. Named(1) = services[1].path
    BY <1>1 DEF Named
  <2> QED
    BY <1>1, <2>1 DEF BreadthFirst
<1>3. ASSUME NEW k \in 1 .. N, NEW i \in 1 .. b, (1 + (k - 1) * b) + i <= N
      PROVE  P[(1 + (k - 1) * b) + i] = Append(P[k], i - 1)
  <2>1. k - 1 \in Nat /\ k \in Nat /\ (k - 1) + 1 = k /\ b \in Nat /\ i \in Nat \ {0} /\ i <= b
    BY <1>1
  <2>2. (k - 1) * b \in Nat /\ k * b = (k - 1) * b + b
    <3>1. ((k - 1) + 1) * b = (k - 1) * b + b
      BY <2>1, Multiples
    <3> QED
      BY <2>1, <3>1, Products
  <2>3. Total(s, k) = (IF 1 + k * b < N THEN 1 + k * b ELSE N)
        /\ Total(s, k - 1) = IF 1 + (k - 1) * b < N THEN 1 + (k - 1) * b ELSE N
    BY DEF Total
  <2> DEFINE at == (1 + (k - 1) * b) + i
  <2> HIDE DEF b, N
  <2>4. Total(s, k - 1) = 1 + (k - 1) * b /\ i \in 1 .. Total(s, k) - Total(s, k - 1) /\ at \in 1 .. N
    BY <1>1, <1>3, <2>1, <2>2, <2>3
  <2>5. Named(Total(s, k - 1) + i) = Append(services[k].path, i - 1)
    BY <1>1, <2>4 DEF BreadthFirst
  <2>6. Total(s, k - 1) + i = at
    BY <2>4
  <2> HIDE DEF at
  <2>7. Named(at) = services[at].path
    BY <1>1, <2>4 DEF Named
  <2>8. P[at] = services[at].path /\ P[k] = services[k].path
    BY <2>4
  <2>9. P[at] = Append(P[k], i - 1)
    BY <2>5, <2>6, <2>7, <2>8
  <2> QED
    BY <2>9 DEF at
<1> QED
  BY <1>2, <1>3 DEF IsTree

LEMMA GrownIsComplete == TreeTypeOK /\ BreadthFirst => CompleteTree
<1> SUFFICES ASSUME TreeTypeOK, BreadthFirst, Grown
             PROVE  /\ {services[k].path : k \in DOMAIN services} = {p \in Paths(shape) : p[1] = 0}
                    /\ \A k, l \in DOMAIN services : k < l =>
                         services[k].path # services[l].path /\ Len(services[k].path) <= Len(services[l].path)
                    /\ \A k \in DOMAIN services :
                         services[k].calls =
                           IF Len(services[k].path) = shape.levels THEN <<>>
                           ELSE [i \in 1 .. shape.branches |-> Append(services[k].path, i - 1)]
  BY DEF CompleteTree
<1> DEFINE N == NumServices(shape)
           tree == [k \in 1 .. N |-> services[k].path]
<1>1. shape \in Shapes /\ DOMAIN services = 1 .. N
  BY DEF TreeTypeOK, Grown
<1>2. PICK U : Levels(U, shape)
  BY <1>1, ShapeLevels
<1>3. PICK s, P : s = shape /\ P = tree
  OBVIOUS
<1>4. s \in Shapes /\ Levels(U, s) /\ IsTree(s, P)
  BY <1>1, <1>2, <1>3, GrownIsTree
<1>5. \A k \in DOMAIN services : services[k].path = P[k] /\ k \in 1 .. NumServices(s)
  BY <1>1, <1>3
<1> HIDE DEF tree
<1>6. ASSUME NEW k \in DOMAIN services
      PROVE  P[k] \in {p \in Paths(s) : p[1] = 0}
  <2>1. PICK n \in 1 .. s.levels : OnLevel(U, n, k)
    BY <1>4, <1>5, OnSomeLevel
  <2>2. P[k] \in [1 .. n -> 0 .. s.branches - 1] /\ P[k][1] = 0
    BY <1>4, <1>5, <2>1, PathOnLevel
  <2> QED
    BY <2>2, Zenon DEF Paths
<1>7. ASSUME NEW p \in Paths(s), p[1] = 0
      PROVE  \E k \in DOMAIN services : P[k] = p
  <2>1. PICK n \in 1 .. s.levels : p \in [1 .. n -> 0 .. s.branches - 1]
    BY DEF Paths
  <2>2. LevelOf(s, U, P, n)
    BY <1>4, EveryLevel
  <2> QED
    BY <1>1, <1>3, <1>7, <2>1, <2>2, Zenon DEF LevelOf
<1>8. {services[k].path : k \in DOMAIN services} = {p \in Paths(shape) : p[1] = 0}
  BY <1>3, <1>5, <1>6, <1>7
<1>9. ASSUME NEW k \in DOMAIN services, NEW l \in DOMAIN services, k < l
      PROVE  services[k].path # services[l].path /\ Len(services[k].path) <= Len(services[l].path)
  <2>1. P[k] # P[l] /\ Len(P[k]) <= Len(P[l])
    BY <1>4, <1>5, <1>9, PathsInOrder
  <2> QED
    BY <1>5, <2>1
<1>10. ASSUME NEW k \in DOMAIN services
       PROVE  services[k].calls =
                IF Len(services[k].path) = shape.levels THEN <<>>
                ELSE [i \in 1 .. shape.branches |-> Append(services[k].path, i - 1)]
  <2>1. PICK n \in 1 .. s.levels : OnLevel(U, n, k)
    BY <1>4, <1>5, OnSomeLevel
  <2>2. Len(P[k]) = n
    BY <1>4, <1>5, <2>1, PathOnLevel
  <2>3. Total(s, k) - Total(s, k - 1) = IF n = s.levels THEN 0 ELSE s.branches
    BY <1>4, <1>5, <2>1, NamedByService
  <2>4. services[k].calls =
          [i \in 1 .. Total(s, k) - Total(s, k - 1) |-> Append(services[k].path, i - 1)]
    BY <1>3 DEF BreadthFirst
  <2>5. CASE n = s.levels
    <3>1. services[k].calls = [i \in 1 .. 0 |-> Append(services[k].path, i - 1)]
      BY <2>3, <2>4, <2>5
    <3>2. services[k].calls = <<>>
      BY <3>1
    <3> QED
      BY <1>3, <1>5, <2>2, <2>5, <3>2
  <2>6. CASE n # s.levels
    <3>1. services[k].calls = [i \in 1 .. s.branches |-> Append(services[k].path, i - 1)]
      BY <2>3, <2>4, <2>6
    <3> QED
      BY <1>3, <1>5, <2>2, <2>6, <3>1
  <2> QED
    BY <2>5, <2>6
<1> QED
  BY <1>8, <1>9, <1>10

LEMMA BreadthFirstInvariance == Spec => []BreadthFirst
<1>1. Init => BreadthFirst
  BY BreadthFirstInit DEF Init
<1>2. TreeInv /\ BreadthFirst /\ [Next]_vars => BreadthFirst'
  <2> SUFFICES ASSUME TreeInv, BreadthFirst, [Next]_vars PROVE BreadthFirst'
    OBVIOUS
  <2>1. CASE Grow
    BY <2>1, BreadthFirstStep DEF TreeInv
  <2>2. CASE UNCHANGED treeVars
    BY <2>2 DEF treeVars, BreadthFirst, Named
  <2> QED
    BY <2>1, <2>2 DEF Next, vars, treeVars, Generate, WriteYAML, ConvertGraphviz, ConvertKubernetes
<1> QED
  BY <1>1, <1>2, TreeInvariance, PTL DEF Spec

\* Of every shape: when the generator ends its loop, every path of the tree has
\* its service, level after level, which calls the services below it
\* (create_tree_topology.py:14-49).
THEOREM TreeIsComplete == Spec => []CompleteTree
<1>1. TreeInv /\ BreadthFirst => CompleteTree
  BY GrownIsComplete DEF TreeInv
<1> QED
  BY <1>1, TreeInvariance, BreadthFirstInvariance, PTL

-----------------------------------------------------------------------------
\* The scripts that any document leads to satisfy what is assumed of the mock
\* services' scripts.
THEOREM AcceptedScriptsRun == Spec => []AcceptedScriptsAreValid
<1>1. AcceptedScriptsAreValid
  BY AcceptedIsValid DEF AcceptedScriptsAreValid
<1> QED
  BY <1>1, PTL

-----------------------------------------------------------------------------
(***************************************************************************)
(* The document that the generator writes, and the graph that is read from *)
(* it: the tree.                                                           *)
(***************************************************************************)
LEMMA AllSingle ==
  ASSUME NEW results, NEW f, DOMAIN f = DOMAIN results, f = [i \in DOMAIN results |-> f[i]],
         \A i \in DOMAIN results : results[i] = {f[i]}
  PROVE  All(results) = {f}
<1>1. \A i \in DOMAIN results : results[i] # {} /\ (CHOOSE r \in results[i] : TRUE) = f[i]
  OBVIOUS
<1>2. All(results) = {[i \in DOMAIN results |-> CHOOSE r \in results[i] : TRUE]}
  BY <1>1 DEF All
<1>3. [i \in DOMAIN results |-> CHOOSE r \in results[i] : TRUE] = [i \in DOMAIN results |-> f[i]]
  BY <1>1
<1> QED
  BY <1>2, <1>3

\* The YAML of a service's script, and the command that is read from it.
GeneratedScript(calls) ==
  Array(<<Array([i \in DOMAIN calls |-> Object([call |-> Str(ServiceName(calls[i]))])])>>)
CallAll(calls, size) == ConcurrentCommand([i \in DOMAIN calls |-> RequestCommand(ServiceName(calls[i]), size)])

\* The service s of the tree as it is read.
ReadOf(s) ==
  [name |-> ServiceName(s.path), isEntrypoint |-> s.path = Root, type |-> "HTTP", numReplicas |-> 1,
   errorRate |-> 0, responseSize |-> 128, script |-> IF s.calls = <<>> THEN <<>> ELSE <<CallAll(s.calls, 128)>>]

LEMMA GeneratedServicePrinted ==
  ASSUME NEW s
  PROVE  LET o == GeneratedService(s).value
         IN  /\ GeneratedService(s) = Object(o)
             /\ DOMAIN o \subseteq {"name", "isEntrypoint", "script"}
             /\ "name" \in DOMAIN o /\ o["name"] = Str(ServiceName(s.path))
             /\ "isEntrypoint" \in DOMAIN o <=> s.path = Root
             /\ "isEntrypoint" \in DOMAIN o => o["isEntrypoint"] = Bool(TRUE)
             /\ "script" \in DOMAIN o <=> s.calls # <<>>
             /\ "script" \in DOMAIN o => o["script"] = GeneratedScript(s.calls)
<1> DEFINE script == GeneratedScript(s.calls)
           object == [name |-> Str(ServiceName(s.path)), isEntrypoint |-> Bool(TRUE), script |-> script]
           absent == (IF s.path = Root THEN {} ELSE {"isEntrypoint"}) \cup (IF s.calls = <<>> THEN {"script"} ELSE {})
           o == Restrict(object, DOMAIN object \ absent)
<1>1. GeneratedService(s) = Object(o)
  BY DEF GeneratedService, GeneratedScript
<1> HIDE DEF script
<1>2. /\ DOMAIN object = {"name", "isEntrypoint", "script"} /\ object["script"] = script
      /\ object["name"] = Str(ServiceName(s.path)) /\ object["isEntrypoint"] = Bool(TRUE)
  OBVIOUS
<1> HIDE DEF object
<1>3. /\ "name" \notin absent
      /\ "isEntrypoint" \in absent <=> s.path # Root
      /\ "script" \in absent <=> s.calls = <<>>
  OBVIOUS
<1> HIDE DEF absent
<1>4. DOMAIN o = DOMAIN object \ absent /\ \A f \in DOMAIN o : o[f] = object[f]
  BY DEF Restrict
<1> HIDE DEF o
<1>5. GeneratedService(s).value = o
  BY <1>1 DEF Object
<1> QED
  BY <1>1, <1>2, <1>3, <1>4, <1>5 DEF script

LEMMA GeneratedScriptRead ==
  ASSUME NEW calls, NEW size
  PROVE  ParseScript(GeneratedScript(calls), size) = {<<CallAll(calls, size)>>}
<1> DEFINE cmds == [i \in DOMAIN calls |-> Object([call |-> Str(ServiceName(calls[i]))])]
           list == <<Array(cmds)>>
           results == [i \in DOMAIN list |-> ParseCommand(list[i], size)]
           nested == [i \in DOMAIN cmds |-> ParseNested(cmds[i], size)]
           requests == [i \in DOMAIN calls |-> RequestCommand(ServiceName(calls[i]), size)]
<1>1. ParseScript(GeneratedScript(calls), size) = All(results)
  BY DEF ParseScript, Array, Value, GeneratedScript
<1>2. DOMAIN results = {1} /\ results[1] = ParseCommand(Array(cmds), size)
  <2> HIDE DEF cmds
  <2> QED
    OBVIOUS
<1>3. ParseCommand(Array(cmds), size) = ParseConcurrent(nested)
  <2> HIDE DEF cmds
  <2> QED
    BY DEF ParseCommand, Array
<1>4. ASSUME NEW i \in DOMAIN calls PROVE nested[i] = {requests[i]}
  <2> DEFINE j == Object([call |-> Str(ServiceName(calls[i]))])
  <2>1. nested[i] = ParseNested(j, size)
    OBVIOUS
  <2>2. /\ j.json = "object" /\ DOMAIN j.value = {"call"}
        /\ j.value["call"] = Str(ServiceName(calls[i]))
    BY OneMember
  <2> HIDE DEF j
  <2>3. ParseNested(j, size) = ParseRequest(Str(ServiceName(calls[i])), size)
    BY <2>2 DEF ParseNested, ParseSingle
  <2>4. ParseRequest(Str(ServiceName(calls[i])), size) = {RequestCommand(ServiceName(calls[i]), size)}
    BY DEF ParseRequest, Str
  <2> QED
    BY <2>1, <2>3, <2>4
<1>5. DOMAIN nested = DOMAIN calls /\ DOMAIN requests = DOMAIN calls /\ requests = [i \in DOMAIN nested |-> requests[i]]
  OBVIOUS
<1>6. CallAll(calls, size) = ConcurrentCommand(requests)
  BY DEF CallAll
<1> HIDE DEF nested, requests, results
<1>7. All(nested) = {requests}
  BY <1>4, <1>5, AllSingle
<1>8. ParseConcurrent(nested) = {CallAll(calls, size)}
  BY <1>6, <1>7 DEF ParseConcurrent
<1> DEFINE script == <<CallAll(calls, size)>>
<1>9. DOMAIN script = {1} /\ script[1] = CallAll(calls, size) /\ script = [i \in DOMAIN results |-> script[i]]
  BY <1>2
<1> HIDE DEF script
<1>10. All(results) = {script}
  BY <1>2, <1>3, <1>8, <1>9, AllSingle
<1> QED
  BY <1>1, <1>10 DEF script

\* The defaults that the generator writes.
GeneratedDefault == [DefaultService EXCEPT !.responseSize = 128]

LEMMA GeneratedServiceRead ==
  ASSUME NEW s, ServiceName(s.path) # NoName
  PROVE  ParseService(GeneratedService(s), GeneratedDefault, 128) = {ReadOf(s)}
<1> DEFINE o == GeneratedService(s).value
           settings == [type |-> "HTTP", numReplicas |-> 1, errorRate |-> 0, responseSize |-> 128,
                        script |-> IF s.calls = <<>> THEN <<>> ELSE <<CallAll(s.calls, 128)>>]
           entry == s.path = Root
<1>1. /\ GeneratedService(s) = Object(o)
      /\ DOMAIN o \subseteq {"name", "isEntrypoint", "script"}
      /\ "name" \in DOMAIN o /\ o["name"] = Str(ServiceName(s.path))
      /\ "isEntrypoint" \in DOMAIN o <=> s.path = Root
      /\ "isEntrypoint" \in DOMAIN o => o["isEntrypoint"] = Bool(TRUE)
      /\ "script" \in DOMAIN o <=> s.calls # <<>>
      /\ "script" \in DOMAIN o => o["script"] = GeneratedScript(s.calls)
  BY GeneratedServicePrinted
<1> HIDE DEF o
<1>2. ParseService(GeneratedService(s), GeneratedDefault, 128) = ParseServiceObject(o, GeneratedDefault, 128)
  BY <1>1 DEF ParseService, Object, Value
<1>3. /\ GeneratedDefault.type = "HTTP" /\ GeneratedDefault.numReplicas = 1 /\ GeneratedDefault.errorRate = 0
      /\ GeneratedDefault.responseSize = 128 /\ GeneratedDefault.script = <<>>
  BY DEF GeneratedDefault, DefaultService
<1>4. Plain(o, "name", "string", NoName) = {ServiceName(s.path)}
  BY <1>1 DEF Plain, Member, Str, Value
<1>5. Flag(o, "isEntrypoint") = {entry}
  <2>1. CASE s.path = Root
    <3>0. "isEntrypoint" \in DOMAIN o /\ o["isEntrypoint"] = Bool(TRUE)
      BY <1>1, <2>1, Zenon
    <3>a. Bool(TRUE).json = "boolean" /\ Bool(TRUE).value = TRUE
      BY Zenon DEF Bool
    <3>1. Flag(o, "isEntrypoint") = {TRUE}
      BY <3>0, <3>a, Zenon DEF Flag, Plain, Member, Value
    <3>2. entry = TRUE
      BY <2>1
    <3> QED
      BY <3>1, <3>2
  <2>2. CASE s.path # Root
    <3>0. "isEntrypoint" \notin DOMAIN o
      BY <1>1, <2>2, Zenon
    <3>1. Flag(o, "isEntrypoint") = {FALSE}
      BY <3>0, Zenon DEF Flag, Plain, Member
    <3>2. entry = FALSE
      BY <2>2
    <3> QED
      BY <3>1, <3>2
  <2> QED
    BY <2>1, <2>2
<1> DEFINE types == Member(o, "type", ServiceType, GeneratedDefault.type)
           replicas == Plain(o, "numReplicas", "number", GeneratedDefault.numReplicas)
           rates == Member(o, "errorRate", Percentage, GeneratedDefault.errorRate)
           sizes == SizeOf(o, "responseSize", GeneratedDefault.responseSize)
           scripts == Member(o, "script", LAMBDA v : ParseScript(v, 128), GeneratedDefault.script)
<1>6. types = {"HTTP"} /\ replicas = {1} /\ rates = {0} /\ sizes = {128}
  BY <1>1, <1>3 DEF Member, Plain, SizeOf
<1>7. scripts = {settings.script}
  <2>1. CASE s.calls = <<>>
    BY <1>1, <1>3, <2>1 DEF Member
  <2>2. CASE s.calls # <<>>
    <3>1. scripts = ParseScript(GeneratedScript(s.calls), 128)
      BY <1>1, <2>2 DEF Member
    <3> QED
      BY <2>2, <3>1, GeneratedScriptRead
  <2> QED
    BY <2>1, <2>2
<1>8. Settings(o, GeneratedDefault, 128) =
        {[type |-> t, numReplicas |-> n, errorRate |-> e, responseSize |-> z, script |-> x] :
           t \in types, n \in replicas, e \in rates, z \in sizes, x \in scripts}
  BY DEF Settings
<1> HIDE DEF types, replicas, rates, sizes, scripts
<1>9. Settings(o, GeneratedDefault, 128) = {settings}
  BY <1>6, <1>7, <1>8
<1>10. ParseServiceObject(o, GeneratedDefault, 128) = {NamedService(ServiceName(s.path), entry, settings)}
  BY <1>4, <1>5, <1>9 DEF ParseServiceObject
<1>11. NamedService(ServiceName(s.path), entry, settings) = ReadOf(s)
  BY DEF NamedService, ReadOf
<1> QED
  BY <1>2, <1>10, <1>11

GraphOfTree == [k \in DOMAIN services |-> ReadOf(services[k])]

\* The file of a tree, when its names are none of them empty.
LEMMA GeneratedParsed ==
  ASSUME \A k \in DOMAIN services : ServiceName(services[k].path) # NoName
  PROVE  Unmarshal(Generated) = {graph \in {GraphOfTree} : Validate(graph)}
<1> DEFINE object == [requestSize |-> Num(128), responseSize |-> Num(128), numReplicas |-> Num(1)]
           list == [k \in DOMAIN services |-> GeneratedService(services[k])]
<1>1. /\ DOMAIN Generated = {"defaults", "services"}
      /\ Generated["defaults"] = Object(object) /\ Generated["services"] = Array(list)
  <2> HIDE DEF object, list
  <2>1. Generated = [defaults |-> Object(object), services |-> Array(list)]
    BY DEF Generated, object, list
  <2> QED
    BY <2>1
<1>2. /\ DOMAIN object = {"requestSize", "responseSize", "numReplicas"}
      /\ object["requestSize"] = Num(128) /\ object["responseSize"] = Num(128)
      /\ object["numReplicas"] = Num(1)
  OBVIOUS
<1> HIDE DEF object
<1>3. ByteSize(Num(128)) = {128} /\ Value(Num(1), "number") = {1}
  BY DEF ByteSize, Num, Value, FromInt64
<1>4. RequestSize(Generated) = {128}
  <2>1. RequestSize(Generated) = SizeOf(object, "requestSize", 0)
    BY <1>1 DEF RequestSize, Member, Object, Value
  <2> QED
    BY <1>2, <1>3, <2>1 DEF SizeOf, Member
<1>5. ServiceList(Generated) = {list}
  <2> HIDE DEF list
  <2> QED
    BY <1>1 DEF ServiceList, Plain, Member, Array, Value
<1>6. Defaults(Generated) = {GeneratedDefault}
  <2> DEFINE types == Member(object, "type", ServiceType, DefaultService.type)
             replicas == Plain(object, "numReplicas", "number", DefaultService.numReplicas)
             rates == Member(object, "errorRate", Percentage, DefaultService.errorRate)
             sizes == SizeOf(object, "responseSize", DefaultService.responseSize)
             scripts == Member(object, "script", LAMBDA v : ParseScript(v, 0), DefaultService.script)
  <2>1. Defaults(Generated) = Settings(object, DefaultService, 0)
    BY <1>1 DEF Defaults, Member, Object, Value
  <2>2. Settings(object, DefaultService, 0) =
          {[type |-> t, numReplicas |-> n, errorRate |-> e, responseSize |-> z, script |-> x] :
             t \in types, n \in replicas, e \in rates, z \in sizes, x \in scripts}
    BY DEF Settings
  <2>3. types = {"HTTP"} /\ rates = {0} /\ scripts = {<<>>}
    BY <1>2 DEF Member, DefaultService
  <2>4. replicas = {1} /\ sizes = {128}
    BY <1>2, <1>3 DEF Plain, SizeOf, Member
  <2> HIDE DEF types, replicas, rates, sizes, scripts
  <2>5. Settings(object, DefaultService, 0) =
          {[type |-> "HTTP", numReplicas |-> 1, errorRate |-> 0, responseSize |-> 128, script |-> <<>>]}
    BY <2>2, <2>3, <2>4
  <2>6. GeneratedDefault = [type |-> "HTTP", numReplicas |-> 1, errorRate |-> 0, responseSize |-> 128, script |-> <<>>]
    BY DEF GeneratedDefault, DefaultService
  <2> QED
    BY <2>1, <2>5, <2>6
<1> DEFINE results == [k \in DOMAIN list |-> ParseService(list[k], GeneratedDefault, 128)]
<1>7. DOMAIN results = DOMAIN services
      /\ \A k \in DOMAIN services : results[k] = ParseService(GeneratedService(services[k]), GeneratedDefault, 128)
  OBVIOUS
<1>8. \A k \in DOMAIN services : results[k] = {GraphOfTree[k]}
  BY <1>7, GeneratedServiceRead DEF GraphOfTree
<1>9. ParseServices(list, GeneratedDefault, 128) = All(results)
  BY DEF ParseServices
<1> HIDE DEF results, list
<1>10. All(results) = {GraphOfTree}
  <2>1. DOMAIN GraphOfTree = DOMAIN results /\ GraphOfTree = [k \in DOMAIN results |-> GraphOfTree[k]]
    BY <1>7 DEF GraphOfTree
  <2> QED
    BY <1>7, <1>8, <2>1, AllSingle
<1> QED
  BY <1>4, <1>5, <1>6, <1>9, <1>10 DEF Unmarshal

\* The number of the i-th service that the k-th calls.
At(s, k, i) == (1 + (k - 1) * s.branches) + i

LEMMA OneCaller ==
  ASSUME NEW s \in Shapes,
         NEW k \in Nat \ {0}, NEW i \in 1 .. s.branches, NEW h \in Nat \ {0}, NEW j \in 1 .. s.branches,
         At(s, k, i) = At(s, h, j)
  PROVE  k = h /\ i = j
<1> DEFINE b == s.branches
<1>1. b \in Nat \ {0} /\ b \in Nat
  BY ShapesAssumption
<1> HIDE DEF b
<1>2. /\ k - 1 \in Nat /\ h - 1 \in Nat /\ k \in Nat /\ h \in Nat
      /\ (k - 1) + 1 = k /\ (h - 1) + 1 = h
  OBVIOUS
<1>3. (k - 1) * b \in Nat /\ (h - 1) * b \in Nat
  BY <1>1, <1>2, Products
<1>4. k * b = (k - 1) * b + b /\ h * b = (h - 1) * b + b
  <2>1. \A x \in Nat : (x + 1) * b = x * b + b
    BY <1>1, Multiples
  <2> QED
    BY <1>2, <2>1
<1>5. (1 + (k - 1) * b) + i = (1 + (h - 1) * b) + j /\ i \in 1 .. b /\ j \in 1 .. b
  BY DEF At, b
<1>6. ~(k < h)
  <2> SUFFICES ASSUME k < h PROVE FALSE
    OBVIOUS
  <2>1. k <= h - 1
    BY <1>2
  <2>2. k * b <= (h - 1) * b
    BY <1>1, <1>2, <2>1, Multiples
  <2> QED
    BY <1>1, <1>3, <1>4, <1>5, <2>2
<1>7. ~(h < k)
  <2> SUFFICES ASSUME h < k PROVE FALSE
    OBVIOUS
  <2>1. h <= k - 1
    BY <1>2
  <2>2. h * b <= (k - 1) * b
    BY <1>1, <1>2, <2>1, Multiples
  <2> QED
    BY <1>1, <1>3, <1>4, <1>5, <2>2
<1>8. k = h
  BY <1>2, <1>6, <1>7
<1> QED
  BY <1>1, <1>3, <1>5, <1>8

\* Services by their numbers: who calls whom.
Numbered(s, list) ==
  /\ \A k \in DOMAIN list : list[k].path \in Paths(s)
  /\ \A k, l \in DOMAIN list : list[k].path = list[l].path => k = l
  /\ list[1].path = Root
  /\ \A k \in DOMAIN list : \A i \in DOMAIN list[k].calls :
       i \in 1 .. s.branches /\ At(s, k, i) \in DOMAIN list /\ list[At(s, k, i)].path = list[k].calls[i]
  /\ \A m \in DOMAIN list : m # 1 =>
       \E k \in DOMAIN list : \E i \in DOMAIN list[k].calls : m = At(s, k, i)

LEMMA GrownIsNumbered ==
  ASSUME TreeTypeOK, BreadthFirst, Grown
  PROVE  Numbered(shape, services)
<1> DEFINE s == shape
           b == s.branches
           N == NumServices(s)
<1>1. s \in Shapes /\ N = Len(services) /\ DOMAIN services = 1 .. N /\ N \in Nat \ {0} /\ b \in Nat \ {0}
  <2>1. shape \in Shapes /\ N = Len(services) /\ DOMAIN services = 1 .. N
    BY DEF TreeTypeOK, Grown
  <2> QED
    BY <2>1, ShapeNumbers
<1>2. CompleteTree
  BY GrownIsComplete
<1>3. \A k \in DOMAIN services : services[k].path \in Paths(s)
  BY <1>2 DEF CompleteTree
<1>4. \A k, l \in DOMAIN services : services[k].path = services[l].path => k = l
  <2>1. \A k, l \in DOMAIN services : k < l => services[k].path # services[l].path
    BY <1>2 DEF CompleteTree
  <2>2. \A k, l \in DOMAIN services : k < l \/ l < k \/ k = l
    BY <1>1
  <2> QED
    BY <2>1, <2>2
<1>5. services[1].path = Root
  <2>1. Named(1) = services[1].path
    BY <1>1 DEF Named
  <2> QED
    BY <2>1 DEF BreadthFirst
<1>6. ASSUME NEW k \in DOMAIN services
      PROVE  /\ k \in Nat \ {0} /\ Total(s, k) \in 1 .. N /\ Total(s, k - 1) \in 1 .. N
             /\ \A i \in 1 .. b : i \in 1 .. Total(s, k) - Total(s, k - 1) <=> At(s, k, i) <= N
             /\ \A i \in 1 .. Total(s, k) - Total(s, k - 1) : i \in 1 .. b /\ At(s, k, i) = Total(s, k - 1) + i
  <2>1. k - 1 \in Nat /\ k \in Nat \ {0} /\ k \in Nat /\ (k - 1) + 1 = k /\ b \in Nat
    BY <1>1
  <2>2. (k - 1) * b \in Nat /\ k * b = (k - 1) * b + b
    <3>1. ((k - 1) + 1) * b = (k - 1) * b + b
      BY <2>1, Multiples
    <3> QED
      BY <2>1, <3>1, Products
  <2>3. Total(s, k) = (IF 1 + k * b < N THEN 1 + k * b ELSE N)
        /\ Total(s, k - 1) = IF 1 + (k - 1) * b < N THEN 1 + (k - 1) * b ELSE N
    BY DEF Total
  <2>4. \A i : At(s, k, i) = (1 + (k - 1) * b) + i
    BY DEF At
  <2>5. PICK x, y, t, u : x = (k - 1) * b /\ y = k * b /\ t = Total(s, k) /\ u = Total(s, k - 1)
    OBVIOUS
  <2> HIDE DEF b, N
  <2>6. /\ x \in Nat /\ y = x + b /\ b \in Nat \ {0} /\ N \in Nat \ {0}
        /\ t = (IF 1 + y < N THEN 1 + y ELSE N) /\ u = (IF 1 + x < N THEN 1 + x ELSE N)
    BY <1>1, <2>2, <2>3, <2>5
  <2>7. t \in 1 .. N /\ u \in 1 .. N
    BY ONLY <2>6
  <2>8. \A i \in 1 .. b : i \in 1 .. t - u <=> (1 + x) + i <= N
    BY ONLY <2>6
  <2>9. \A i \in 1 .. t - u : i \in 1 .. b /\ (1 + x) + i = u + i
    BY ONLY <2>6
  <2>10. \A i : At(s, k, i) = (1 + x) + i
    BY <2>4, <2>5
  <2> QED
    BY <2>1, <2>5, <2>7, <2>8, <2>9, <2>10
<1>7. \A k \in DOMAIN services :
        /\ DOMAIN services[k].calls = 1 .. Total(s, k) - Total(s, k - 1)
        /\ \A i \in 1 .. Total(s, k) - Total(s, k - 1) :
             services[k].calls[i] = Named(Total(s, k - 1) + i)
  BY DEF BreadthFirst
<1>8. ASSUME NEW k \in DOMAIN services, NEW i \in DOMAIN services[k].calls
      PROVE  i \in 1 .. b /\ At(s, k, i) \in DOMAIN services /\ services[At(s, k, i)].path = services[k].calls[i]
  <2>1. i \in 1 .. Total(s, k) - Total(s, k - 1)
    BY <1>7
  <2>2. i \in 1 .. b /\ At(s, k, i) = Total(s, k - 1) + i
    BY <1>6, <2>1
  <2>3. At(s, k, i) \in 1 .. N
    <3>1. Total(s, k) \in 1 .. N /\ Total(s, k - 1) \in 1 .. N
      BY <1>6
    <3> HIDE DEF N
    <3> QED
      BY <1>1, <2>1, <2>2, <3>1
  <2>4. services[k].calls[i] = Named(At(s, k, i))
    BY <1>7, <2>1, <2>2
  <2>5. Named(At(s, k, i)) = services[At(s, k, i)].path
    BY <1>1, <2>3 DEF Named
  <2> QED
    BY <1>1, <2>2, <2>3, <2>4, <2>5
<1>9. ASSUME NEW m \in DOMAIN services, m # 1
      PROVE  \E k \in DOMAIN services : \E i \in DOMAIN services[k].calls : m = At(s, k, i)
  <2>1. m \in Nat /\ m >= 2 /\ m <= N
    BY <1>1, <1>9
  <2>2. PICK k \in Nat \ {0}, i \in 1 .. b : m = (1 + (k - 1) * b) + i /\ k < m
    BY <1>1, <2>1, Parent
  <2>3. k \in DOMAIN services
    BY <1>1, <2>1, <2>2
  <2>4. m = At(s, k, i)
    BY <2>2 DEF At
  <2>5. i \in DOMAIN services[k].calls
    BY <1>6, <1>7, <2>1, <2>3, <2>4
  <2> QED
    BY <2>3, <2>4, <2>5
<1> QED
  BY <1>3, <1>4, <1>5, <1>8, <1>9 DEF Numbered

LEMMA Listed ==
  ASSUME NEW n \in Nat, NEW f, f = [i \in 1 .. n |-> f[i]]
  PROVE  IsSequence(f) /\ Len(f) = n
<1> DEFINE M == {f[i] : i \in 1 .. n}
<1>1. \A i \in 1 .. n : f[i] \in M
  OBVIOUS
<1> HIDE DEF M
<1>2. f \in Seq(M) /\ Len(f) = n
  <2>1. [i \in 1 .. n |-> f[i]] \in Seq(M) /\ Len([i \in 1 .. n |-> f[i]]) = n
    BY <1>1
  <2> QED
    BY <2>1
<1> QED
  BY <1>2 DEF IsSequence

\* The script of a service of the tree.
LEMMA TreeScript ==
  ASSUME NEW k \in DOMAIN services
  PROVE  LET script == GraphOfTree[k].script
             calls == services[k].calls
         IN  /\ \A i \in DOMAIN script : i = 1 /\ script[i].op = "all"
             /\ DOMAIN script = IF calls = <<>> THEN {} ELSE {1}
             /\ script = <<>> \/ script = <<script[1]>>
             /\ \A i \in DOMAIN script :
                  /\ script[i].cmds = [j \in DOMAIN calls |-> RequestCommand(ServiceName(calls[j]), 128)]
                  /\ Subcommands(script[i]) = [j \in DOMAIN calls |-> RequestCommand(ServiceName(calls[j]), 128)]
<1> DEFINE calls == services[k].calls
           cmds == [j \in DOMAIN calls |-> RequestCommand(ServiceName(calls[j]), 128)]
           script == GraphOfTree[k].script
<1>1. script = IF calls = <<>> THEN <<>> ELSE <<CallAll(calls, 128)>>
  BY DEF GraphOfTree, ReadOf
<1>2. CallAll(calls, 128).op = "all" /\ CallAll(calls, 128).cmds = cmds
  BY DEF CallAll, ConcurrentCommand
<1>3. Subcommands(CallAll(calls, 128)) = cmds
  BY <1>2 DEF Subcommands
<1> HIDE DEF calls, cmds, script
<1>4. CASE calls = <<>>
  <2>1. script = <<>> /\ DOMAIN script = {}
    BY <1>1, <1>4
  <2> QED
    BY <1>4, <2>1 DEF script, calls, cmds
<1>5. CASE calls # <<>>
  <2>1. script = <<CallAll(calls, 128)>> /\ DOMAIN script = {1} /\ script[1] = CallAll(calls, 128)
    BY <1>1, <1>5
  <2> QED
    BY <1>2, <1>3, <1>5, <2>1 DEF script, calls, cmds
<1> QED
  BY <1>4, <1>5

LEMMA TreeFits == TreeTypeOK => ListsAreSequences(GraphOfTree) /\ SizesFit(GraphOfTree)
<1> SUFFICES ASSUME TreeTypeOK PROVE ListsAreSequences(GraphOfTree) /\ SizesFit(GraphOfTree)
  OBVIOUS
<1>1. /\ Len(services) \in Nat /\ DOMAIN services = 1 .. Len(services)
      /\ \A k \in DOMAIN services : Len(services[k].calls) \in Nat
                                    /\ DOMAIN services[k].calls = 1 .. Len(services[k].calls)
  <2>1. services \in Seq([path : Seq(Nat), calls : Seq(Seq(Nat))])
    BY DEF TreeTypeOK
  <2>2. \A k \in DOMAIN services : services[k] \in [path : Seq(Nat), calls : Seq(Seq(Nat))]
    <3>1. PICK R : R = [path : Seq(Nat), calls : Seq(Seq(Nat))]
      OBVIOUS
    <3>2. services \in Seq(R)
      BY <2>1, <3>1
    <3>3. \A k \in DOMAIN services : services[k] \in R
      BY <3>2
    <3> QED
      BY <3>1, <3>3
  <2>3. \A k \in DOMAIN services : services[k].calls \in Seq(Seq(Nat))
    BY <2>2
  <2>4. \A x \in Seq(Seq(Nat)) : Len(x) \in Nat /\ DOMAIN x = 1 .. Len(x)
    OBVIOUS
  <2> QED
    BY <2>1, <2>3, <2>4
<1>2. DOMAIN GraphOfTree = DOMAIN services
  BY DEF GraphOfTree
<1>3. IsSequence(GraphOfTree)
  <2>1. GraphOfTree = [k \in 1 .. Len(services) |-> GraphOfTree[k]]
    BY <1>1 DEF GraphOfTree
  <2> QED
    BY <1>1, <2>1, Listed
<1>4. ASSUME NEW k \in DOMAIN services
      PROVE  /\ IsSequence(GraphOfTree[k].script)
             /\ \A i \in DOMAIN GraphOfTree[k].script : IsSequence(Subcommands(GraphOfTree[k].script[i]))
             /\ SizesFitScript(GraphOfTree[k].script)
             /\ GraphOfTree[k].responseSize \in 0 .. SizeLimit - 1
  <2> DEFINE calls == services[k].calls
             cmds == [j \in DOMAIN calls |-> RequestCommand(ServiceName(calls[j]), 128)]
             script == GraphOfTree[k].script
  <2>1. /\ script = <<>> \/ script = <<script[1]>>
        /\ \A i \in DOMAIN script : Subcommands(script[i]) = cmds
    BY TreeScript
  <2>2. IsSequence(cmds)
    <3>1. Len(calls) \in Nat /\ DOMAIN calls = 1 .. Len(calls)
      BY <1>1
    <3>2. cmds = [j \in 1 .. Len(calls) |-> cmds[j]]
      BY <3>1
    <3> HIDE DEF cmds
    <3> QED
      BY <3>1, <3>2, Listed
  <2>3. 128 \in 0 .. SizeLimit - 1
    BY SmallSizes
  <2>4. \A j \in DOMAIN cmds : cmds[j].size = 128
    BY DEF RequestCommand
  <2>5. GraphOfTree[k].responseSize = 128
    BY DEF GraphOfTree, ReadOf
  <2> HIDE DEF cmds, script
  <2>6. IsSequence(script)
    <3>1. PICK e : script = <<>> \/ script = <<e>>
      BY <2>1
    <3>2. IsSequence(<<>>) /\ IsSequence(<<e>>)
      BY DEF IsSequence
    <3> QED
      BY <3>1, <3>2
  <2>7. SizesFitScript(script)
    BY <2>1, <2>3, <2>4 DEF SizesFitScript
  <2> QED
    BY <2>1, <2>2, <2>3, <2>5, <2>6, <2>7 DEF script
<1> QED
  BY <1>2, <1>3, <1>4 DEF ListsAreSequences, SizesFit

LEMMA GeneratedAccepted ==
  ASSUME TreeTypeOK, BreadthFirst, Grown
  PROVE  Unmarshal(Generated) = {GraphOfTree}
<1>1. shape \in Shapes
  BY DEF TreeTypeOK
<1>2. Numbered(shape, services)
  BY GrownIsNumbered
<1>3. \A k \in DOMAIN services : ServiceName(services[k].path) # NoName
  <2>1. \A k \in DOMAIN services : services[k].path \in Paths(shape)
    BY <1>2 DEF Numbered
  <2> QED
    BY <1>1, <2>1, NamesAssumption
<1>4. ASSUME NEW k \in DOMAIN GraphOfTree
      PROVE  ValidateCommands(GraphOfTree[k].script, NamesOf(GraphOfTree))
  <2> DEFINE calls == services[k].calls
             cmds == [j \in DOMAIN calls |-> RequestCommand(ServiceName(calls[j]), 128)]
             script == GraphOfTree[k].script
             names == NamesOf(GraphOfTree)
  <2>1. k \in DOMAIN services
    BY DEF GraphOfTree
  <2>2. \A i \in DOMAIN script : script[i].op = "all" /\ script[i].cmds = cmds
    BY <2>1, TreeScript
  <2>3. ASSUME NEW j \in DOMAIN calls PROVE ServiceName(calls[j]) \in names
    <3>1. PICK m \in DOMAIN services : services[m].path = calls[j]
      BY <1>2, <2>1, <2>3 DEF Numbered
    <3>2. m \in DOMAIN GraphOfTree /\ GraphOfTree[m].name = ServiceName(calls[j])
      BY <3>1 DEF GraphOfTree, ReadOf
    <3> QED
      BY <3>2 DEF NamesOf
  <2>4. \A j \in DOMAIN cmds : cmds[j].op = "call" /\ cmds[j].service = ServiceName(calls[j]) /\ j \in DOMAIN calls
    BY DEF RequestCommand
  <2> HIDE DEF cmds, script, names
  <2>5. DefinedCalls(cmds, names) /\ ~ContainsConcurrentCommand(cmds)
    BY <2>3, <2>4 DEF DefinedCalls, ContainsConcurrentCommand
  <2>6. DefinedCalls(script, names)
    BY <2>2 DEF DefinedCalls
  <2> QED
    BY <2>2, <2>5, <2>6 DEF ValidateCommands, script, names
<1>5. Validate(GraphOfTree)
  BY <1>4 DEF Validate
<1> QED
  BY <1>3, <1>5, GeneratedParsed

LEMMA GeneratedFits ==
  ASSUME TreeTypeOK, BreadthFirst, Grown, NEW graph \in Unmarshal(Generated)
  PROVE  ListsAreSequences(graph) /\ SizesFit(graph)
BY GeneratedAccepted, TreeFits

\* Who calls the service k of a graph: services, and the places of their calls.
Callers(graph, branches, k) ==
  {c \in (DOMAIN graph) \X (1 .. branches) :
     \E i \in DOMAIN graph[c[1]].script :
       c[2] \in DOMAIN Subcommands(graph[c[1]].script[i])
       /\ Subcommands(graph[c[1]].script[i])[c[2]].service = graph[k].name}

LEMMA CallersInTree ==
  ASSUME TreeTypeOK, BreadthFirst, Grown, NEW k \in DOMAIN services
  PROVE  Cardinality(Callers(GraphOfTree, shape.branches, k)) = IF k = 1 THEN 0 ELSE 1
<1> DEFINE s == shape
           b == s.branches
           C == Callers(GraphOfTree, b, k)
<1>1. s \in Shapes /\ Numbered(s, services)
  BY GrownIsNumbered DEF TreeTypeOK
<1>2. DOMAIN services \subseteq Nat \ {0}
  BY DEF TreeTypeOK
<1>3. DOMAIN GraphOfTree = DOMAIN services
  BY DEF GraphOfTree
<1>4. ASSUME NEW h \in DOMAIN services, NEW j \in 1 .. b
      PROVE  <<h, j>> \in C <=> j \in DOMAIN services[h].calls /\ At(s, h, j) = k
  <2> DEFINE calls == services[h].calls
             script == GraphOfTree[h].script
             cmds == [i \in DOMAIN calls |-> RequestCommand(ServiceName(calls[i]), 128)]
  <2>1. /\ DOMAIN script = IF calls = <<>> THEN {} ELSE {1}
        /\ \A i \in DOMAIN script : Subcommands(script[i]) = cmds
    BY TreeScript
  <2>2. DOMAIN cmds = DOMAIN calls /\ \A i \in DOMAIN calls : cmds[i].service = ServiceName(calls[i])
    BY DEF RequestCommand
  <2>3. GraphOfTree[k].name = ServiceName(services[k].path)
    BY DEF GraphOfTree, ReadOf
  <2>4. <<h, j>> \in C <=>
          \E i \in DOMAIN script : j \in DOMAIN Subcommands(script[i]) /\ Subcommands(script[i])[j].service = GraphOfTree[k].name
    BY <1>3 DEF Callers
  <2>5. j \in DOMAIN calls => calls # <<>>
    OBVIOUS
  <2> HIDE DEF cmds, script, calls, C
  <2>6. <<h, j>> \in C <=> j \in DOMAIN calls /\ ServiceName(calls[j]) = ServiceName(services[k].path)
    BY <2>1, <2>2, <2>3, <2>4, <2>5
  <2>7. ASSUME j \in DOMAIN calls
        PROVE  ServiceName(calls[j]) = ServiceName(services[k].path) <=> At(s, h, j) = k
    <3>1. At(s, h, j) \in DOMAIN services /\ services[At(s, h, j)].path = calls[j]
      BY <1>1, <2>7 DEF Numbered, calls
    <3>2. PICK m : m = At(s, h, j)
      OBVIOUS
    <3>3. services[m].path \in Paths(s) /\ services[k].path \in Paths(s) /\ m \in DOMAIN services
      BY <1>1, <3>1, <3>2 DEF Numbered
    <3>4. ServiceName(services[m].path) = ServiceName(services[k].path) <=> services[m].path = services[k].path
      BY <1>1, <3>3, NamesAssumption
    <3>5. services[m].path = services[k].path <=> m = k
      BY <1>1, <3>3 DEF Numbered
    <3> QED
      BY <3>1, <3>2, <3>4, <3>5
  <2> QED
    BY <2>6, <2>7 DEF calls
<1>5. C \subseteq (DOMAIN services) \X (1 .. b)
  BY <1>3 DEF Callers
<1> HIDE DEF C
<1>6. CASE k = 1
  <2>1. ASSUME NEW c \in C PROVE FALSE
    <3>1. PICK h \in DOMAIN services, j \in 1 .. b : c = <<h, j>>
      BY <1>5, <2>1
    <3>2. At(s, h, j) = 1
      BY <1>4, <1>6, <2>1, <3>1
    <3>3. b \in Nat /\ h - 1 \in Nat
      BY <1>1, <1>2, ShapesAssumption
    <3>4. (h - 1) * b \in Nat
      BY <3>3, Products
    <3>5. (1 + (h - 1) * b) + j # 1
      <4> HIDE DEF b
      <4> QED
        BY <3>3, <3>4
    <3> QED
      BY <3>2, <3>5 DEF At
  <2>2. C = {}
    BY <2>1
  <2> QED
    BY <1>6, <2>2, FS_EmptySet DEF C
<1>7. CASE k # 1
  <2>1. PICK h \in DOMAIN services : \E j \in DOMAIN services[h].calls : k = At(s, h, j)
    BY <1>1, <1>7 DEF Numbered
  <2>2. PICK j \in DOMAIN services[h].calls : k = At(s, h, j)
    BY <2>1
  <2>3. j \in 1 .. b
    BY <1>1, <2>2 DEF Numbered
  <2>4. <<h, j>> \in C
    BY <1>4, <2>2, <2>3
  <2>5. ASSUME NEW c \in C PROVE c = <<h, j>>
    <3>1. PICK g \in DOMAIN services, i \in 1 .. b : c = <<g, i>>
      BY <1>5, <2>5
    <3>2. At(s, g, i) = At(s, h, j)
      BY <1>4, <2>2, <2>5, <3>1
    <3>3. g \in Nat \ {0} /\ h \in Nat \ {0}
      BY <1>2
    <3>4. g = h /\ i = j
      BY <1>1, <2>3, <3>2, <3>3, OneCaller
    <3> QED
      BY <3>1, <3>4
  <2>6. C = {<<h, j>>}
    BY <2>4, <2>5
  <2>7. Cardinality(C) = 1
    BY <2>6, FS_Singleton
  <2> QED
    BY <1>7, <2>7 DEF C
<1> QED
  BY <1>6, <1>7

\* The topology there is, when the generator has ended, is its own.
GeneratedInv == Grown /\ topology # {} => topology = {Generated}

LEMMA GeneratedInvInit == Init => GeneratedInv
<1> SUFFICES ASSUME Init PROVE ~Grown
  BY DEF GeneratedInv
<1>1. services = << >> /\ shape \in Shapes
  BY DEF Init, TreeInit
<1>2. Len(services) = 0 /\ NumServices(shape) \in Nat \ {0}
  BY <1>1, ShapeNumbers
<1> QED
  BY <1>2 DEF Grown

LEMMA GeneratedInvStep == GeneratedInv /\ [Next]_vars => GeneratedInv'
<1> SUFFICES ASSUME GeneratedInv, [Next]_vars PROVE GeneratedInv'
  OBVIOUS
<1>1. CASE topology' = topology /\ shape' = shape /\ services' = services
  BY <1>1 DEF GeneratedInv, Grown, Generated
<1>2. CASE Generate
  BY <1>2 DEF Generate, convertVars, GeneratedInv
<1>3. CASE WriteYAML
  <2>1. topology' = {Generated} /\ services' = services
    BY <1>3 DEF WriteYAML, treeVars
  <2>2. Generated' = Generated
    BY <2>1 DEF Generated
  <2> QED
    BY <2>1, <2>2 DEF GeneratedInv
<1> QED
  BY <1>1, <1>2, <1>3 DEF Next, vars, treeVars, ConvertGraphviz, ConvertKubernetes

\* Of every shape whose paths have names of their own: the generator's file is
\* accepted, its first service is its one entrypoint, and each of the others
\* is called in one place (create_tree_topology.py:23-66).
THEOREM TreeIsTopology == Spec => []GeneratedIsTopology
<1>1. TreeInv /\ BreadthFirst /\ GeneratedInv => GeneratedIsTopology
  <2> SUFFICES ASSUME TreeTypeOK, BreadthFirst, GeneratedInv, Grown, NEW d \in topology
               PROVE  /\ GraphOfTree \in Unmarshal(d)
                      /\ Len(GraphOfTree) = NumServices(shape)
                      /\ \A k \in DOMAIN GraphOfTree :
                           /\ GraphOfTree[k].isEntrypoint <=> k = 1
                           /\ Cardinality(Callers(GraphOfTree, shape.branches, k)) = IF k = 1 THEN 0 ELSE 1
    BY DEF GeneratedIsTopology, TreeInv, Callers
  <2>1. d = Generated
    BY DEF GeneratedInv
  <2>2. GraphOfTree \in Unmarshal(d)
    BY <2>1, GeneratedAccepted
  <2>3. /\ Len(services) = NumServices(shape) /\ Len(services) \in Nat
        /\ DOMAIN services = 1 .. Len(services)
    BY DEF TreeTypeOK, Grown
  <2>4. Len(GraphOfTree) = NumServices(shape)
    <3>1. GraphOfTree = [k \in 1 .. Len(services) |-> GraphOfTree[k]]
      BY <2>3 DEF GraphOfTree
    <3> QED
      BY <2>3, <3>1, Listed
  <2>5. ASSUME NEW k \in DOMAIN GraphOfTree
        PROVE  /\ GraphOfTree[k].isEntrypoint <=> k = 1
               /\ Cardinality(Callers(GraphOfTree, shape.branches, k)) = IF k = 1 THEN 0 ELSE 1
    <3>1. k \in DOMAIN services
      BY DEF GraphOfTree
    <3>2. GraphOfTree[k].isEntrypoint = (services[k].path = Root)
      BY <3>1 DEF GraphOfTree, ReadOf
    <3>3. services[k].path = Root <=> k = 1
      <4>1. 1 \in DOMAIN services
        BY <2>3, <3>1
      <4> QED
        BY <3>1, <4>1, GrownIsNumbered DEF Numbered
    <3>4. Cardinality(Callers(GraphOfTree, shape.branches, k)) = IF k = 1 THEN 0 ELSE 1
      BY <3>1, CallersInTree
    <3> QED
      BY <3>2, <3>3, <3>4, Zenon
  <2> QED
    BY <2>2, <2>4, <2>5
<1> QED
  BY <1>1, GeneratedInvInit, GeneratedInvStep, TreeInvariance, BreadthFirstInvariance, PTL DEF Spec

-----------------------------------------------------------------------------
(***************************************************************************)
(* What the commands have written last is of the topology there is.  First *)
(* the config map.                                                         *)
(***************************************************************************)
WrittenFrom(list, graph) ==
  \E nodes, clientNodes : list = ServiceGraphToKubernetesManifests(graph, nodes, clientNodes, 1)

KeepInv ==
  /\ topology = {} => manifests = {} /\ dot = {}
  /\ AtMostOne(topology)
  /\ \A d \in topology : \A graph \in Unmarshal(d) :
       /\ ListsAreSequences(graph) /\ SizesFit(graph)
       /\ \A list \in manifests : WrittenFrom(list, graph)
       /\ \A drawing \in dot : drawing \in ServiceGraphToGraph(graph)

LEMMA KeepInvInit == Init => KeepInv
BY DocumentsAssumption DEF Init, KeepInv, AtMostOne

LEMMA KeepInvStep == TreeInv /\ BreadthFirst /\ KeepInv /\ [Next]_vars => KeepInv'
<1> SUFFICES ASSUME TreeInv, BreadthFirst, KeepInv, [Next]_vars PROVE KeepInv'
  OBVIOUS
<1>1. CASE topology' = topology /\ manifests' = manifests /\ dot' = dot
  BY <1>1 DEF KeepInv
<1>2. CASE WriteYAML
  <2>1. topology' = {Generated} /\ manifests' = {} /\ dot' = {}
    BY <1>2 DEF WriteYAML, KeepInv
  <2>2. \A graph \in Unmarshal(Generated) : ListsAreSequences(graph) /\ SizesFit(graph)
    BY <1>2, GeneratedFits DEF WriteYAML, TreeInv
  <2> QED
    BY <2>1, <2>2 DEF KeepInv, AtMostOne
<1>a. ASSUME NEW d \in topology, NEW e \in topology, NEW graph \in Unmarshal(d), NEW other \in Unmarshal(e)
      PROVE  other = graph
  <2>1. e = d
    BY <1>a DEF KeepInv, AtMostOne
  <2> QED
    BY <2>1, UnmarshalIsOne DEF AtMostOne
<1>3. CASE ConvertKubernetes
  <2>1. PICK serviceNodes, clientNodes :
          \/ manifests' = manifests
          \/ manifests' = UNION {KubernetesCmd(d, serviceNodes, clientNodes, 1) : d \in topology}
    BY <1>3 DEF ConvertKubernetes
  <2>2. topology' = topology /\ dot' = dot
    BY <1>3 DEF ConvertKubernetes
  <2>3. ASSUME NEW d \in topology, NEW graph \in Unmarshal(d), NEW list \in manifests'
        PROVE  WrittenFrom(list, graph)
    <3>1. CASE manifests' = manifests
      BY <2>3, <3>1 DEF KeepInv
    <3>2. CASE manifests' = UNION {KubernetesCmd(e, serviceNodes, clientNodes, 1) : e \in topology}
      <4>1. PICK e \in topology : list \in KubernetesCmd(e, serviceNodes, clientNodes, 1)
        BY <2>3, <3>2
      <4>2. PICK other \in Unmarshal(e) : WrittenFrom(list, other)
        BY <4>1 DEF KubernetesCmd, WrittenFrom
      <4> QED
        BY <1>a, <4>2
    <3> QED
      BY <2>1, <3>1, <3>2
  <2>4. topology = {} => manifests' = {}
    BY <2>1 DEF KeepInv
  <2> QED
    BY <2>2, <2>3, <2>4 DEF KeepInv
<1>4. CASE ConvertGraphviz
  <2> DEFINE graphs == UNION {Unmarshal(d) : d \in topology}
             output == UNION {ServiceGraphToGraph(graph) : graph \in graphs}
  <2>1. topology' = topology /\ manifests' = manifests /\ dot' = IF output = {} THEN dot ELSE output
    BY <1>4 DEF ConvertGraphviz
  <2> HIDE DEF output
  <2>2. dot' = dot \/ dot' = output
    BY <2>1
  <2>3. ASSUME NEW d \in topology, NEW graph \in Unmarshal(d), NEW drawing \in output
        PROVE  drawing \in ServiceGraphToGraph(graph)
    <3>1. PICK e \in topology, other \in graphs : other \in Unmarshal(e) /\ drawing \in ServiceGraphToGraph(other)
      BY <2>3 DEF output
    <3>2. other = graph
      BY <1>a, <2>3, <3>1
    <3> QED
      BY <3>1, <3>2
  <2>4. topology = {} => output = {}
    BY DEF output
  <2> QED
    BY <2>1, <2>2, <2>3, <2>4 DEF KeepInv
<1> QED
  BY <1>1, <1>2, <1>3, <1>4 DEF Next, vars, convertVars, Generate

LEMMA KeepInvariance == Spec => []KeepInv
BY KeepInvInit, KeepInvStep, TreeInvariance, BreadthFirstInvariance, PTL DEF Spec

LEMMA OnlyOneConfigMap ==
  ASSUME NEW graph, NEW nodes, NEW clientNodes, NEW time,
         NEW m \in ManifestSet(graph, nodes, clientNodes, time), m.kind = "ConfigMap"
  PROVE  m.spec.data[ServiceGraphConfigMapKey] = Marshal(graph)
<1>1. m = MakeConfigMap(graph, time)
  BY DEF ManifestSet, MakeNamespace, MakeFortioDeployment, MakeFortioService, MakeDeployment, MakeService, Manifest
<1>2. m.spec = [data |-> [k \in {ServiceGraphConfigMapKey} |-> Marshal(graph)]]
  BY <1>1 DEF MakeConfigMap, Manifest
<1> QED
  BY <1>2

\* Of every document within the bound on sizes, and every tree: what a pod reads
\* from the config map is the graph that was converted, its sizes as near as
\* they are printed (kubernetes.go:104-121 and service/pkg/srv/graph.go:14-37).
THEOREM ConfigMapIsFaithful == Spec => []ConfigMapKeepsGraph
<1>1. KeepInv => ConfigMapKeepsGraph
  <2> SUFFICES ASSUME KeepInv, NEW d \in topology, NEW list \in manifests,
                      NEW i \in DOMAIN list, list[i].kind = "ConfigMap", NEW graph \in Unmarshal(d)
               PROVE  \E copy \in Unmarshal(list[i].spec.data[ServiceGraphConfigMapKey]) :
                        EmulatesAll(copy, graph)
    BY DEF ConfigMapKeepsGraph
  <2>1. IsSequence(graph) /\ SizesFit(graph)
    BY DEF KeepInv, ListsAreSequences
  <2>2. PICK nodes, clientNodes : list = ServiceGraphToKubernetesManifests(graph, nodes, clientNodes, 1)
    BY DEF KeepInv, WrittenFrom
  <2>3. list \in Seq(ManifestSet(graph, nodes, clientNodes, 1))
    <3>1. Len(graph) \in Nat
      BY <2>1 DEF IsSequence
    <3>2. FileParts(list, Len(graph), graph, nodes, clientNodes, 1)
      BY <2>1, <2>2, <3>1, ManifestsWritten
    <3> QED
      BY <3>2 DEF FileParts
  <2>4. list[i] \in ManifestSet(graph, nodes, clientNodes, 1)
    BY <2>3
  <2>5. list[i].spec.data[ServiceGraphConfigMapKey] = Marshal(graph)
    BY <2>4, OnlyOneConfigMap
  <2> QED
    BY <2>1, <2>5, RoundTrip
<1> QED
  BY <1>1, KeepInvariance, PTL

-----------------------------------------------------------------------------
(***************************************************************************)
(* Accepted documents: the generated one, and those of others.             *)
(***************************************************************************)
\* The tree generator writes numbers and names only.
LEMMA GeneratedIsTyped == ScalarsAreTyped(Generated)
<1> DEFINE object == [requestSize |-> Num(128), responseSize |-> Num(128), numReplicas |-> Num(1)]
           list == [k \in DOMAIN services |-> GeneratedService(services[k])]
<1>1. /\ DOMAIN Generated = {"defaults", "services"}
      /\ Generated["defaults"] = Object(object) /\ Generated["services"] = Array(list)
  <2> HIDE DEF object, list
  <2>1. Generated = [defaults |-> Object(object), services |-> Array(list)]
    BY DEF Generated, object, list
  <2> QED
    BY <2>1
<1>2. SettingsAreTyped(Object(object))
  <2>1. SizeIsTyped(Num(128))
    BY DEF SizeIsTyped, Num, Is
  <2>2. /\ "errorRate" \notin DOMAIN object /\ "script" \notin DOMAIN object
        /\ object["requestSize"] = Num(128) /\ object["responseSize"] = Num(128)
    OBVIOUS
  <2> HIDE DEF object
  <2> QED
    BY <2>1, <2>2 DEF SettingsAreTyped, Object, Optional
<1> HIDE DEF object
<1>3. ASSUME NEW k \in DOMAIN services PROVE SettingsAreTyped(list[k])
  <2> DEFINE s == services[k]
             o == GeneratedService(s).value
             calls == [i \in DOMAIN s.calls |-> Object([call |-> Str(ServiceName(s.calls[i]))])]
             script == GeneratedScript(s.calls)
  <2>1. list[k] = GeneratedService(s)
    OBVIOUS
  <2>2. /\ DOMAIN o \subseteq {"name", "isEntrypoint", "script"}
        /\ "script" \in DOMAIN o => o["script"] = script
    BY GeneratedServicePrinted
  <2>3. ScriptIsTyped(script)
    <3>a. script = Array(<<Array(calls)>>)
      BY DEF GeneratedScript
    <3>1. CommandsOfScript(script) = CommandsOf(Array(calls))
      <4> HIDE DEF calls, script
      <4> QED
        BY <3>a DEF CommandsOfScript, Array
    <3>2. CommandsOf(Array(calls)) = {calls[i] : i \in DOMAIN s.calls}
      BY DEF CommandsOf, Array, Is
    <3>3. ASSUME NEW i \in DOMAIN s.calls PROVE \A d \in CommandsOf(calls[i]) : CommandIsTyped(d)
      <4> DEFINE c == Object([call |-> Str(ServiceName(s.calls[i]))])
      <4>1. calls[i] = c
        OBVIOUS
      <4>2. c.json = "object" /\ c.value["call"] = Str(ServiceName(s.calls[i]))
        BY DEF Object
      <4> HIDE DEF c
      <4>3. CommandsOf(c) = {c}
        BY <4>2 DEF CommandsOf, Is
      <4>4. CommandIsTyped(c)
        BY <4>2 DEF CommandIsTyped, Str, Is
      <4> QED
        BY <4>1, <4>3, <4>4
    <3> HIDE DEF calls
    <3> QED
      BY <3>1, <3>2, <3>3 DEF ScriptIsTyped
  <2> HIDE DEF o, script
  <2>4. /\ "requestSize" \notin DOMAIN o /\ "responseSize" \notin DOMAIN o /\ "errorRate" \notin DOMAIN o
        /\ "script" \in DOMAIN o => ScriptIsTyped(o["script"])
    BY <2>2, <2>3
  <2> QED
    BY <2>1, <2>4 DEF SettingsAreTyped, Optional, o
<1>4. \A k \in DOMAIN list : SettingsAreTyped(list[k])
  BY <1>3
<1> HIDE DEF list
<1>5. Array(list).value = list
  BY DEF Array
<1> QED
  BY <1>1, <1>2, <1>4, <1>5 DEF ScalarsAreTyped, Optional

\* Every accepted graph can be drawn: its commands have a text.
LEMMA AcceptedIsDrawn ==
  ASSUME NEW document, NEW graph \in Unmarshal(document)
  PROVE  ServiceGraphToGraph(graph) # {}
<1>1. ASSUME NEW k \in DOMAIN graph PROVE ToGraphvizNode(graph[k]) # {}
  <2> DEFINE s == graph[k]
             steps == [i \in DOMAIN s.script |-> ExecutableToStrings(s.script[i])]
  <2>1. ValidScript(s.script, NamesOf(graph))
    BY AcceptedIsValid
  <2>2. ASSUME NEW i \in DOMAIN s.script PROVE ExecutableToStrings(s.script[i]) # {}
    <3> DEFINE cmds == Subcommands(s.script[i])
               texts == [j \in DOMAIN cmds |-> NonConcurrentCommandToString(cmds[j])]
    <3>1. \A j \in DOMAIN cmds : cmds[j].op \in {"sleep", "call"}
      BY <2>1 DEF ValidScript
    <3> HIDE DEF cmds
    <3>2. \A j \in DOMAIN cmds : texts[j] # {}
      BY <3>1 DEF NonConcurrentCommandToString
    <3>3. DOMAIN texts = DOMAIN cmds
      OBVIOUS
    <3>4. ExecutableToStrings(s.script[i]) = All(texts)
      BY DEF ExecutableToStrings, cmds
    <3> HIDE DEF texts
    <3> QED
      BY <3>2, <3>3, <3>4, AllAccepted
  <2>3. DOMAIN steps = DOMAIN s.script /\ \A i \in DOMAIN steps : steps[i] # {}
    BY <2>2
  <2>4. ToGraphvizNode(s) =
          {[name |-> s.name, type |-> s.type, errorRate |-> s.errorRate,
            responseSize |-> String(s.responseSize), steps |-> x] : x \in All(steps)}
    BY DEF ToGraphvizNode
  <2> HIDE DEF steps
  <2>5. All(steps) # {}
    BY <2>3, AllAccepted
  <2> QED
    BY <2>4, <2>5
<1> DEFINE nodes == [k \in DOMAIN graph |-> ToGraphvizNode(graph[k])]
           edges == FlattenSeq([k \in DOMAIN graph |-> EdgesOf(graph[k])])
<1>2. \A k \in DOMAIN nodes : nodes[k] # {}
  BY <1>1
<1>3. ServiceGraphToGraph(graph) = {[nodes |-> x, edges |-> edges] : x \in All(nodes)}
  BY DEF ServiceGraphToGraph
<1> HIDE DEF nodes, edges
<1>4. All(nodes) # {}
  BY <1>2, AllAccepted
<1> QED
  BY <1>3, <1>4

\* What convert graphviz has said of the file that it has read.
Draws(ok, files) == ok <=> \E d \in files : Unmarshal(d) # {}
AcceptInv ==
  /\ \A d \in topology : ScalarsAreTyped(d)
  /\ \A d \in exit.read : ScalarsAreTyped(d)
  /\ exit.command = "graphviz" => Draws(exit.ok, exit.read)

LEMMA AcceptInvInit == Init => AcceptInv
<1> SUFFICES ASSUME Init PROVE AcceptInv
  OBVIOUS
<1>1. \A d \in topology : ScalarsAreTyped(d)
  BY DocumentsAssumption DEF Init
<1>2. exit.command = "none" /\ exit.read = {}
  BY DEF Init, NoCommand
<1> QED
  BY <1>1, <1>2 DEF AcceptInv

LEMMA AcceptInvStep == AcceptInv /\ [Next]_vars => AcceptInv'
<1> SUFFICES ASSUME AcceptInv, [Next]_vars PROVE AcceptInv'
  OBVIOUS
<1>1. CASE topology' = topology /\ exit' = exit
  BY <1>1 DEF AcceptInv
<1>2. CASE WriteYAML
  <2>1. topology' = {Generated} /\ exit' = exit
    BY <1>2 DEF WriteYAML
  <2> QED
    BY <2>1, GeneratedIsTyped DEF AcceptInv
<1>3. CASE ConvertGraphviz
  <2> DEFINE graphs == UNION {Unmarshal(d) : d \in topology}
             output == UNION {ServiceGraphToGraph(graph) : graph \in graphs}
  <2>1. topology' = topology /\ exit' = [command |-> "graphviz", ok |-> output # {}, read |-> topology]
    BY <1>3 DEF ConvertGraphviz, Ends
  <2>2. \A graph \in graphs : ServiceGraphToGraph(graph) # {}
    BY AcceptedIsDrawn
  <2> HIDE DEF graphs
  <2>3. output # {} <=> graphs # {}
    BY <2>2
  <2>4. graphs # {} <=> \E d \in topology : Unmarshal(d) # {}
    BY DEF graphs
  <2> HIDE DEF output
  <2>5. exit'.read = topology /\ (exit'.ok <=> output # {})
    BY <2>1
  <2>6. Draws(exit'.ok, exit'.read)
    BY <2>3, <2>4, <2>5, Zenon DEF Draws
  <2> QED
    BY <2>1, <2>5, <2>6 DEF AcceptInv, Draws
<1>4. CASE ConvertKubernetes
  <2>1. topology' = topology /\ exit'.command = "kubernetes" /\ exit'.read = topology
    BY <1>4 DEF ConvertKubernetes, Ends
  <2> QED
    BY <2>1 DEF AcceptInv
<1> QED
  BY <1>1, <1>2, <1>3, <1>4 DEF Next, vars, convertVars, Generate

\* convert graphviz succeeds for topologies and for nothing else, whatever
\* documents there are and whatever tree was generated.
THEOREM ConvertAcceptsTopologies == Spec => []AcceptsExactlyTheWellFormed
<1>1. AcceptInv => AcceptsExactlyTheWellFormed
  <2> SUFFICES ASSUME AcceptInv, exit.command = "graphviz"
               PROVE  exit.ok <=> \E d \in exit.read : WellFormed(d)
    BY DEF AcceptsExactlyTheWellFormed
  <2>1. \A d \in exit.read : Unmarshal(d) # {} <=> WellFormed(d)
    BY AcceptsWellFormed DEF AcceptInv
  <2>2. exit.ok <=> \E d \in exit.read : Unmarshal(d) # {}
    BY Zenon DEF AcceptInv, Draws
  <2> QED
    BY <2>1, <2>2, Zenon
<1> QED
  BY <1>1, AcceptInvInit, AcceptInvStep, PTL DEF Spec

-----------------------------------------------------------------------------
(***************************************************************************)
(* The drawing.  First how often an element is in a flattened sequence.    *)
(***************************************************************************)
CountIn(s, e) == Cardinality({i \in DOMAIN s : s[i] = e})

LEMMA CountOfJoined ==
  ASSUME NEW M, NEW a \in Seq(M), NEW b \in Seq(M), NEW e
  PROVE  CountIn(a \o b, e) = CountIn(a, e) + CountIn(b, e)
<1> DEFINE c == a \o b
           A == {i \in DOMAIN a : a[i] = e}
           B == {i \in DOMAIN b : b[i] = e}
           C == {i \in DOMAIN c : c[i] = e}
           D == {Len(a) + i : i \in B}
<1>1. /\ Len(a) \in Nat /\ Len(b) \in Nat /\ DOMAIN a = 1 .. Len(a) /\ DOMAIN b = 1 .. Len(b)
  OBVIOUS
<1>2. Joined(c, a, b, M)
  BY Concatenated
<1> HIDE DEF c
<1>3. DOMAIN c = 1 .. Len(a) + Len(b)
  BY <1>1, <1>2 DEF Joined
<1>4. IsFiniteSet(A) /\ IsFiniteSet(B)
  <2>1. IsFiniteSet(DOMAIN a) /\ IsFiniteSet(DOMAIN b)
    BY <1>1, FS_Interval
  <2> QED
    BY <2>1, FS_Subset
<1>5. C = A \cup D
  <2>1. ASSUME NEW i \in C PROVE i \in A \cup D
    <3>1. i \in 1 .. Len(a) + Len(b) /\ c[i] = e
      BY <1>3
    <3>2. CASE i <= Len(a)
      <4>1. i \in 1 .. Len(a)
        BY <1>1, <3>1, <3>2
      <4> QED
        BY <1>1, <1>2, <3>1, <4>1 DEF Joined
    <3>3. CASE ~(i <= Len(a))
      <4>1. i - Len(a) \in 1 .. Len(b) /\ Len(a) + (i - Len(a)) = i
        BY <1>1, <3>1, <3>3
      <4>2. c[i] = b[i - Len(a)]
        BY <1>2, <4>1 DEF Joined
      <4> QED
        BY <1>1, <3>1, <4>1, <4>2
    <3> QED
      BY <3>2, <3>3
  <2>2. ASSUME NEW i \in A PROVE i \in C
    <3>1. i \in 1 .. Len(a) /\ i \in 1 .. Len(a) + Len(b)
      BY <1>1
    <3> QED
      BY <1>2, <1>3, <3>1 DEF Joined
  <2>3. ASSUME NEW i \in B PROVE Len(a) + i \in C
    <3>1. i \in 1 .. Len(b) /\ Len(a) + i \in 1 .. Len(a) + Len(b)
      BY <1>1
    <3> QED
      BY <1>2, <1>3, <3>1 DEF Joined
  <2> QED
    BY <2>1, <2>2, <2>3
<1>6. A \cap D = {}
  <2>1. \A i \in A : i <= Len(a)
    BY <1>1
  <2>2. \A i \in B : ~(Len(a) + i <= Len(a))
    BY <1>1
  <2> QED
    BY <2>1, <2>2
<1>7. IsFiniteSet(D) /\ Cardinality(D) = Cardinality(B)
  <2> DEFINE f == [i \in B |-> Len(a) + i]
  <2>1. \A i, j \in B : Len(a) + i = Len(a) + j => i = j
    BY <1>1
  <2>2. f \in Bijection(B, D)
    BY <2>1 DEF Bijection, Injection, Surjection, IsInjective
  <2> HIDE DEF f
  <2>3. ExistsBijection(B, D)
    BY <2>2 DEF ExistsBijection
  <2> QED
    BY <1>4, <2>3, FS_Bijection
<1> HIDE DEF A, B, C, D
<1>8. Cardinality(A \cap D) = 0
  BY <1>6, FS_EmptySet
<1>9. Cardinality(C) = Cardinality(A) + Cardinality(D) - Cardinality(A \cap D)
  BY <1>4, <1>5, <1>7, FS_Union
<1>10. Cardinality(A) \in Nat /\ Cardinality(D) \in Nat
  BY <1>4, <1>7, FS_CardinalityType
<1>11. Cardinality(C) = Cardinality(A) + Cardinality(B)
  BY <1>7, <1>8, <1>9, <1>10
<1> QED
  BY <1>11 DEF CountIn, c, A, B, C

Flattens(f, s, E) ==
  /\ f \in [1 .. Len(s) -> Seq(E)]
  /\ f[1] = s[1]
  /\ \A i \in 2 .. Len(s) : f[i] = f[i - 1] \o s[i]

LEMMA FlattenedInSteps ==
  ASSUME NEW E, NEW s \in Seq(Seq(E)), s # << >>
  PROVE  \E f : Flattens(f, s, E) /\ FlattenSeq(s) = f[Len(s)]
<1> DEFINE L == Len(s)
           V == Seq(E)
           g == [p \in Nat \X V |-> IF p[1] \in 1 .. L THEN p[2] \o s[p[1]] ELSE p[2]]
           Flat(h) == h = [i \in 1 .. L |-> IF i = 1 THEN s[i] ELSE h[i - 1] \o s[i]]
           flatten[i \in 1 .. L] == IF i = 1 THEN s[i] ELSE flatten[i - 1] \o s[i]
<1>1. L \in Nat /\ L # 0 /\ \A i \in 1 .. L : s[i] \in V
  OBVIOUS
<1>2. FlattenSeq(s) = flatten[L]
  <2>1. ~(Len(s) = 0)
    BY <1>1
  <2> QED
    BY <2>1 DEF FlattenSeq
<1>3. flatten = CHOOSE h : Flat(h)
  BY DEF flatten
<1> HIDE DEF flatten, L, V, g
<1>4. \A v, w \in V : v \o w \in V
  BY DEF V
<1>5. \A i \in Nat : \A v \in V : g[<<i, v>>] = (IF i \in 1 .. L THEN v \o s[i] ELSE v) /\ g[<<i, v>>] \in V
  BY <1>1, <1>4 DEF g
<1>6. s[1] \in V /\ L - 1 \in Nat /\ 1 + (L - 1) = L /\ 1 + 1 = 2 /\ 1 \in 1 .. L /\ 1 \in Nat
  BY <1>1
<1>a. \A i \in Nat : \A v \in V : g[<<i, v>>] \in V
  BY <1>5
<1>7. \E f : Recurs(f, V, 1, 1 + (L - 1), s[1], g)
  BY <1>a, <1>6, RecursionExists, Zenon
<1>8. PICK f \in [1 .. L -> V] : f[1] = s[1] /\ \A i \in 2 .. L : f[i] = g[<<i, f[i - 1]>>]
  BY <1>6, <1>7 DEF Recurs
<1>9. ASSUME NEW i \in 2 .. L PROVE f[i] = f[i - 1] \o s[i]
  <2>1. i \in Nat /\ i \in 1 .. L /\ i - 1 \in 1 .. L
    BY <1>1
  <2>2. f[i - 1] \in V
    BY <1>8, <2>1
  <2> QED
    BY <1>5, <1>8, <2>1, <2>2
<1>10. Flat(f)
  <2>1. \A i \in 1 .. L : i # 1 => i \in 2 .. L
    BY <1>1
  <2>2. \A i \in 1 .. L : f[i] = IF i = 1 THEN s[i] ELSE f[i - 1] \o s[i]
    BY <1>8, <1>9, <2>1
  <2> QED
    BY <1>8, <2>2
<1> HIDE DEF Flat
<1>11. Flat(flatten)
  BY <1>3, <1>10
<1>12. ASSUME NEW i \in 1 .. L PROVE flatten[i] = IF i = 1 THEN s[i] ELSE flatten[i - 1] \o s[i]
  BY <1>11 DEF Flat
<1>13. \A i \in 1 .. L : flatten[i] = f[i]
  <2> DEFINE S == {k \in Nat : k + 1 \in 1 .. L => flatten[k + 1] = f[k + 1]}
  <2>1. 0 \in S
    BY <1>6, <1>8, <1>12
  <2>2. ASSUME NEW k \in S PROVE k + 1 \in S
    <3> SUFFICES ASSUME (k + 1) + 1 \in 1 .. L PROVE flatten[(k + 1) + 1] = f[(k + 1) + 1]
      OBVIOUS
    <3>1. k \in Nat /\ k + 1 \in 1 .. L /\ (k + 1) + 1 \in 2 .. L /\ (k + 1) + 1 # 1 /\ ((k + 1) + 1) - 1 = k + 1
      BY <1>1
    <3>2. flatten[k + 1] = f[k + 1]
      BY <3>1
    <3>3. flatten[(k + 1) + 1] = flatten[k + 1] \o s[(k + 1) + 1]
      BY <1>12, <3>1
    <3>4. f[(k + 1) + 1] = f[k + 1] \o s[(k + 1) + 1]
      BY <1>9, <3>1
    <3> QED
      BY <3>2, <3>3, <3>4
  <2>3. \A k \in Nat : k + 1 \in 1 .. L => flatten[k + 1] = f[k + 1]
    <3>1. S = Nat
      <4>1. S \subseteq Nat
        OBVIOUS
      <4> HIDE DEF S
      <4> QED
        BY <2>1, <2>2, <4>1, NatSet
    <3> QED
      BY <3>1
  <2>4. \A i \in 1 .. L : i - 1 \in Nat /\ (i - 1) + 1 = i
    BY <1>1
  <2> QED
    BY <2>3, <2>4
<1>14. L \in 1 .. L
  BY <1>1
<1>15. Flattens(f, s, E)
  BY <1>8, <1>9 DEF Flattens, V, L
<1> QED
  BY <1>2, <1>13, <1>14, <1>15 DEF L

\* Of the elements of s, which are in E, as many equal e as the part has members.
Counts(s, part, E, e) == s \in Seq(E) /\ IsFiniteSet(part) /\ Cardinality(part) = CountIn(s, e)

LEMMA CountOfFlattened ==
  ASSUME NEW E, NEW s \in Seq(Seq(E)), NEW e, NEW part,
         \A i \in DOMAIN s : Counts(s[i], part[i], E, e),
         \A i, j \in DOMAIN s : i # j => part[i] \cap part[j] = {}
  PROVE  Counts(FlattenSeq(s), UNION {part[i] : i \in DOMAIN s}, E, e)
<1> DEFINE L == Len(s)
           first(n) == UNION {part[i] : i \in 1 .. n}
<1>1. L \in Nat /\ DOMAIN s = 1 .. L /\ \A i \in 1 .. L : s[i] \in Seq(E)
  OBVIOUS
<1>a. \A i \in DOMAIN s : IsFiniteSet(part[i]) /\ Cardinality(part[i]) = CountIn(s[i], e)
  BY DEF Counts
<1>2. CASE L = 0
  <2>1. DOMAIN s = {} /\ s = << >>
    BY <1>1, <1>2
  <2>2. FlattenSeq(s) = << >>
    BY <1>2, <2>1 DEF FlattenSeq
  <2>3. UNION {part[i] : i \in DOMAIN s} = {}
    BY <2>1
  <2>4. {i \in DOMAIN s : s[i] = e} = {}
    BY <2>1
  <2>5. CountIn(s, e) = 0
    BY <2>4, FS_EmptySet DEF CountIn
  <2>6. IsFiniteSet({}) /\ Cardinality({}) = 0
    BY FS_EmptySet
  <2>7. s \in Seq(E)
    BY <2>1
  <2> QED
    BY <2>1, <2>2, <2>3, <2>5, <2>6, <2>7 DEF Counts
<1>3. CASE L # 0
  <2>1. PICK f : Flattens(f, s, E) /\ FlattenSeq(s) = f[L]
    BY <1>3, FlattenedInSteps
  <2> DEFINE Good(n) == IsFiniteSet(first(n)) /\ Cardinality(first(n)) = CountIn(f[n], e)
             S == {k \in Nat : k + 1 \in 1 .. L => Good(k + 1)}
  <2> HIDE DEF L
  <2>2. 1 \in 1 .. L /\ L \in 1 .. L
    BY <1>1, <1>3
  <2>3. Good(1)
    <3>1. first(1) = part[1]
      OBVIOUS
    <3>2. f[1] = s[1]
      BY <2>1 DEF Flattens
    <3>3. IsFiniteSet(part[1]) /\ Cardinality(part[1]) = CountIn(s[1], e)
      BY <1>1, <1>a, <2>2
    <3> HIDE DEF first
    <3> QED
      BY <3>1, <3>2, <3>3
  <2>4. ASSUME NEW k \in Nat, (k + 1) + 1 \in 1 .. L, Good(k + 1)
        PROVE  Good((k + 1) + 1)
    <3> DEFINE m == k + 1
    <3>1. m \in 1 .. L /\ m + 1 \in 1 .. L /\ m + 1 \in 2 .. L /\ (m + 1) - 1 = m
      BY <1>1, <2>4
    <3> HIDE DEF m
    <3>2. f[m + 1] = f[m] \o s[m + 1] /\ f[m] \in Seq(E)
      BY <2>1, <3>1 DEF Flattens, L
    <3>3. CountIn(f[m + 1], e) = CountIn(f[m], e) + CountIn(s[m + 1], e)
      BY <1>1, <3>1, <3>2, CountOfJoined
    <3>4. first(m + 1) = first(m) \cup part[m + 1]
      <4>1. 1 .. m + 1 = (1 .. m) \cup {m + 1}
        BY <3>1
      <4> QED
        BY <4>1
    <3>5. first(m) \cap part[m + 1] = {}
      <4>1. \A i \in 1 .. m : i \in 1 .. L /\ i # m + 1
        BY <1>1, <3>1
      <4>2. \A i \in 1 .. m : part[i] \cap part[m + 1] = {}
        BY <1>1, <3>1, <4>1
      <4> QED
        BY <4>2
    <3>6. IsFiniteSet(part[m + 1]) /\ Cardinality(part[m + 1]) = CountIn(s[m + 1], e)
      BY <1>1, <1>a, <3>1
    <3>7. IsFiniteSet(first(m)) /\ Cardinality(first(m)) = CountIn(f[m], e)
      BY <2>4 DEF m
    <3> HIDE DEF first
    <3>8. Cardinality(first(m) \cap part[m + 1]) = 0
      BY <3>5, FS_EmptySet
    <3>9. /\ IsFiniteSet(first(m) \cup part[m + 1])
          /\ Cardinality(first(m) \cup part[m + 1]) =
               Cardinality(first(m)) + Cardinality(part[m + 1]) - Cardinality(first(m) \cap part[m + 1])
      BY <3>6, <3>7, FS_Union
    <3>10. Cardinality(first(m)) \in Nat /\ Cardinality(part[m + 1]) \in Nat
      BY <3>6, <3>7, FS_CardinalityType
    <3>a. Cardinality(first(m) \cup part[m + 1]) = Cardinality(first(m)) + Cardinality(part[m + 1])
      BY <3>8, <3>9, <3>10
    <3>11. Cardinality(first(m + 1)) = CountIn(f[m + 1], e)
      BY <3>3, <3>4, <3>6, <3>7, <3>a
    <3> QED
      BY <3>4, <3>9, <3>11 DEF m
  <2> HIDE DEF Good
  <2>5. S = Nat
    <3>1. 0 \in S
      BY <2>3
    <3>2. ASSUME NEW k \in S PROVE k + 1 \in S
      <4>1. (k + 1) + 1 \in 1 .. L => k + 1 \in 1 .. L
        BY <1>1
      <4> QED
        BY <2>4, <4>1
    <3>3. S \subseteq Nat
      OBVIOUS
    <3> HIDE DEF S
    <3> QED
      BY <3>1, <3>2, <3>3, NatSet
  <2>6. L - 1 \in Nat /\ (L - 1) + 1 = L
    BY <1>1, <2>2
  <2>7. Good(L)
    BY <2>2, <2>5, <2>6
  <2>8. f[L] \in Seq(E)
    BY <2>1, <2>2 DEF Flattens, L
  <2> QED
    BY <1>1, <2>1, <2>7, <2>8 DEF Good, Counts
<1> QED
  BY <1>2, <1>3

Edge(from, to, stepIndex) == [from |-> from, to |-> to, stepIndex |-> stepIndex]

EdgesBetween(graph) ==
  UNION {{Edge(graph[k].name, to, i - 1) : i \in DOMAIN graph[k].script, to \in NamesOf(graph)} : k \in DOMAIN graph}

StepCalls(graph, k, i, e) ==
  LET cmds == Subcommands(graph[k].script[i])
  IN  {<<k, j>> : j \in {l \in DOMAIN cmds : cmds[l].op = "call" /\ Edge(graph[k].name, cmds[l].service, i - 1) = e}}
ScriptCalls(graph, k, e) == UNION {StepCalls(graph, k, i, e) : i \in DOMAIN graph[k].script}

LEMMA SingleEdges ==
  ASSUME NEW cmd, NEW idx, NEW from, NEW E, NEW e, NEW x,
         cmd.op = "call" => Edge(from, cmd.service, idx) \in E
  PROVE  Counts(EdgesOfSingleCommand(cmd, idx, from),
                IF cmd.op = "call" /\ Edge(from, cmd.service, idx) = e THEN {x} ELSE {}, E, e)
<1> DEFINE edge == Edge(from, cmd.service, idx)
           edges == EdgesOfSingleCommand(cmd, idx, from)
<1>1. CASE cmd.op = "call"
  <2>1. edges = <<edge>>
    BY <1>1 DEF EdgesOfSingleCommand, Edge
  <2> HIDE DEF edge, edges
  <2>2. edges \in Seq(E) /\ DOMAIN edges = {1} /\ edges[1] = edge
    BY <1>1, <2>1 DEF edge
  <2>3. CASE edge = e
    <3>1. {i \in DOMAIN edges : edges[i] = e} = {1}
      BY <2>2, <2>3
    <3> QED
      BY <1>1, <2>2, <2>3, <3>1, FS_Singleton DEF Counts, CountIn, edge, edges
  <2>4. CASE edge # e
    <3>1. {i \in DOMAIN edges : edges[i] = e} = {}
      BY <2>2, <2>4
    <3> QED
      BY <1>1, <2>2, <2>4, <3>1, FS_EmptySet DEF Counts, CountIn, edge, edges
  <2> QED
    BY <2>3, <2>4
<1>2. CASE cmd.op # "call"
  <2>1. edges = << >>
    BY <1>2 DEF EdgesOfSingleCommand
  <2> HIDE DEF edges
  <2>2. edges \in Seq(E) /\ {i \in DOMAIN edges : edges[i] = e} = {}
    BY <2>1
  <2> QED
    BY <1>2, <2>2, FS_EmptySet DEF Counts, CountIn, edges
<1> QED
  BY <1>1, <1>2

LEMMA StepEdges ==
  ASSUME NEW graph, ListsAreSequences(graph), NEW k \in DOMAIN graph,
         ValidScript(graph[k].script, NamesOf(graph)), NEW i \in DOMAIN graph[k].script, NEW e
  PROVE  Counts(EdgesFromExe(graph[k].script[i], i - 1, graph[k].name), StepCalls(graph, k, i, e),
                EdgesBetween(graph), e)
<1> DEFINE cmds == Subcommands(graph[k].script[i])
           from == graph[k].name
           E == EdgesBetween(graph)
           single == [j \in DOMAIN cmds |-> EdgesOfSingleCommand(cmds[j], i - 1, from)]
           part == [j \in DOMAIN cmds |->
                      IF cmds[j].op = "call" /\ Edge(from, cmds[j].service, i - 1) = e THEN {<<k, j>>} ELSE {}]
<1>1. IsSequence(cmds)
  BY DEF ListsAreSequences
<1>2. PICK n \in Nat : DOMAIN cmds = 1 .. n
  BY <1>1 DEF IsSequence
<1>3. \A j \in DOMAIN cmds : cmds[j].op = "call" => cmds[j].service \in NamesOf(graph)
  BY DEF ValidScript
<1> HIDE DEF cmds
<1>4. ASSUME NEW j \in DOMAIN cmds PROVE cmds[j].op = "call" => Edge(from, cmds[j].service, i - 1) \in E
  BY <1>3 DEF EdgesBetween
<1> HIDE DEF from, E
<1>5. ASSUME NEW j \in DOMAIN cmds PROVE Counts(single[j], part[j], E, e)
  <2>1. Counts(EdgesOfSingleCommand(cmds[j], i - 1, from),
               IF cmds[j].op = "call" /\ Edge(from, cmds[j].service, i - 1) = e THEN {<<k, j>>} ELSE {}, E, e)
    BY <1>4, SingleEdges
  <2>2. /\ single[j] = EdgesOfSingleCommand(cmds[j], i - 1, from)
        /\ part[j] = IF cmds[j].op = "call" /\ Edge(from, cmds[j].service, i - 1) = e THEN {<<k, j>>} ELSE {}
    OBVIOUS
  <2> HIDE DEF single, part
  <2> QED
    BY <2>1, <2>2
<1>6. single \in Seq(Seq(E)) /\ DOMAIN single = 1 .. n
  <2>1. \A j \in 1 .. n : EdgesOfSingleCommand(cmds[j], i - 1, from) \in Seq(E)
    BY <1>2, <1>5 DEF Counts
  <2> QED
    BY <1>2, <2>1
<1>7. \A j, l \in DOMAIN single : j # l => part[j] \cap part[l] = {}
  BY <1>2, <1>6
<1>8. EdgesFromExe(graph[k].script[i], i - 1, graph[k].name) = FlattenSeq(single)
  BY DEF EdgesFromExe, cmds, from
<1>9. UNION {part[j] : j \in DOMAIN single} = StepCalls(graph, k, i, e)
  <2>1. StepCalls(graph, k, i, e) =
          {<<k, j>> : j \in {l \in DOMAIN cmds : cmds[l].op = "call" /\ Edge(from, cmds[l].service, i - 1) = e}}
    BY DEF StepCalls, cmds, from
  <2> QED
    BY <1>2, <1>6, <2>1
<1> HIDE DEF single, part
<1>10. \A j \in DOMAIN single : Counts(single[j], part[j], E, e)
  BY <1>2, <1>5, <1>6
<1>11. Counts(FlattenSeq(single), UNION {part[j] : j \in DOMAIN single}, E, e)
  BY <1>6, <1>7, <1>10, CountOfFlattened
<1> QED
  BY <1>8, <1>9, <1>11 DEF E

LEMMA ScriptEdges ==
  ASSUME NEW graph, ListsAreSequences(graph), NEW k \in DOMAIN graph,
         ValidScript(graph[k].script, NamesOf(graph)), NEW e
  PROVE  Counts(EdgesOf(graph[k]), ScriptCalls(graph, k, e), EdgesBetween(graph), e)
<1> DEFINE script == graph[k].script
           E == EdgesBetween(graph)
           steps == [i \in DOMAIN script |-> EdgesFromExe(script[i], i - 1, graph[k].name)]
           part == [i \in DOMAIN script |-> StepCalls(graph, k, i, e)]
<1>1. PICK n \in Nat : DOMAIN script = 1 .. n
  BY DEF ListsAreSequences, IsSequence
<1>2. ASSUME NEW i \in DOMAIN script PROVE Counts(steps[i], part[i], E, e)
  BY StepEdges
<1>3. steps \in Seq(Seq(E)) /\ DOMAIN steps = 1 .. n
  <2>1. \A i \in 1 .. n : EdgesFromExe(script[i], i - 1, graph[k].name) \in Seq(E)
    BY <1>1, <1>2 DEF Counts
  <2> HIDE DEF script, E
  <2> QED
    BY <1>1, <2>1
<1>4. ASSUME NEW i \in DOMAIN script, NEW j \in DOMAIN script, i # j
      PROVE  StepCalls(graph, k, i, e) \cap StepCalls(graph, k, j, e) = {}
  <2>1. i \in Nat /\ j \in Nat
    BY <1>1
  <2>2. i - 1 # j - 1
    BY <1>4, <2>1
  <2>3. \A to, other : Edge(graph[k].name, to, i - 1) # Edge(graph[k].name, other, j - 1)
    BY <2>2 DEF Edge
  <2> QED
    BY <2>3 DEF StepCalls
<1>5. EdgesOf(graph[k]) = FlattenSeq(steps)
  BY DEF EdgesOf
<1>6. UNION {part[i] : i \in DOMAIN steps} = ScriptCalls(graph, k, e)
  <2>1. ScriptCalls(graph, k, e) = UNION {StepCalls(graph, k, i, e) : i \in DOMAIN script}
    BY DEF ScriptCalls
  <2> QED
    BY <1>1, <1>3, <2>1
<1>7. \A i, j \in DOMAIN steps : i # j => part[i] \cap part[j] = {}
  <2> HIDE DEF steps
  <2> QED
    BY <1>1, <1>3, <1>4
<1> HIDE DEF steps, part, script
<1>8. \A i \in DOMAIN steps : Counts(steps[i], part[i], E, e)
  BY <1>1, <1>2, <1>3
<1>9. Counts(FlattenSeq(steps), UNION {part[i] : i \in DOMAIN steps}, E, e)
  <2> HIDE DEF E
  <2> QED
    BY <1>3, <1>7, <1>8, CountOfFlattened
<1> QED
  BY <1>5, <1>6, <1>9

GraphCalls(graph, e) == UNION {ScriptCalls(graph, k, e) : k \in DOMAIN graph}

LEMMA GraphEdges ==
  ASSUME NEW graph, ListsAreSequences(graph),
         \A k \in DOMAIN graph : ValidScript(graph[k].script, NamesOf(graph)), NEW e
  PROVE  Counts(FlattenSeq([k \in DOMAIN graph |-> EdgesOf(graph[k])]), GraphCalls(graph, e),
                EdgesBetween(graph), e)
<1> DEFINE E == EdgesBetween(graph)
           edges == [k \in DOMAIN graph |-> EdgesOf(graph[k])]
           part == [k \in DOMAIN graph |-> ScriptCalls(graph, k, e)]
<1>1. PICK n \in Nat : DOMAIN graph = 1 .. n
  BY DEF ListsAreSequences, IsSequence
<1>2. ASSUME NEW k \in DOMAIN graph PROVE Counts(edges[k], part[k], E, e)
  BY ScriptEdges
<1>3. edges \in Seq(Seq(E)) /\ DOMAIN edges = 1 .. n
  <2>1. \A k \in 1 .. n : EdgesOf(graph[k]) \in Seq(E)
    BY <1>1, <1>2 DEF Counts
  <2> HIDE DEF E
  <2> QED
    BY <1>1, <2>1
<1>4. \A k, l \in DOMAIN graph : k # l => ScriptCalls(graph, k, e) \cap ScriptCalls(graph, l, e) = {}
  BY DEF ScriptCalls, StepCalls
<1>6. UNION {part[k] : k \in DOMAIN edges} = GraphCalls(graph, e)
  BY <1>1, <1>3 DEF GraphCalls
<1>7. \A k, l \in DOMAIN edges : k # l => part[k] \cap part[l] = {}
  <2> HIDE DEF edges
  <2> QED
    BY <1>1, <1>3, <1>4
<1> HIDE DEF edges, part, E
<1>8. \A k \in DOMAIN edges : Counts(edges[k], part[k], E, e)
  BY <1>1, <1>2, <1>3
<1>9. Counts(FlattenSeq(edges), UNION {part[k] : k \in DOMAIN edges}, E, e)
  BY <1>3, <1>7, <1>8, CountOfFlattened
<1> QED
  BY <1>6, <1>9 DEF edges, E

\* Of every document whose lists are sequences, and every tree: the drawing has
\* an edge for each call, those of concurrent commands included, between nodes
\* and from ports that it has (graphviz.go:40-155).
THEOREM DrawingIsFaithful == Spec => []EdgesAreCalls
<1>1. KeepInv => EdgesAreCalls
  <2> SUFFICES ASSUME KeepInv, NEW d \in topology, NEW drawing \in dot, NEW graph \in Unmarshal(d)
               PROVE  /\ \A e \in DOMAIN drawing.edges :
                           /\ \E n \in DOMAIN drawing.nodes : drawing.nodes[n].name = drawing.edges[e].to
                           /\ \E n \in DOMAIN drawing.nodes :
                                drawing.nodes[n].name = drawing.edges[e].from
                                /\ drawing.edges[e].stepIndex + 1 \in DOMAIN drawing.nodes[n].steps
                      /\ \A k, l \in DOMAIN graph : \A i \in DOMAIN graph[k].script :
                           Cardinality(CallsFrom(graph, graph[k].name, i - 1, graph[l].name)) =
                             Cardinality({e \in DOMAIN drawing.edges :
                                drawing.edges[e] = [from |-> graph[k].name, to |-> graph[l].name, stepIndex |-> i - 1]})
    BY DEF EdgesAreCalls
  <2> DEFINE edges == FlattenSeq([k \in DOMAIN graph |-> EdgesOf(graph[k])])
             results == [k \in DOMAIN graph |-> ToGraphvizNode(graph[k])]
  <2>1. drawing \in ServiceGraphToGraph(graph) /\ ListsAreSequences(graph)
    BY DEF KeepInv
  <2>2. PICK nodes \in All(results) : drawing = [nodes |-> nodes, edges |-> edges]
    BY <2>1 DEF ServiceGraphToGraph
  <2>3. drawing.nodes = nodes /\ drawing.edges = edges
    BY <2>2
  <2>4. DOMAIN nodes = DOMAIN graph /\ \A k \in DOMAIN graph : nodes[k] \in ToGraphvizNode(graph[k])
    <3>1. DOMAIN results = DOMAIN graph /\ \A k \in DOMAIN graph : results[k] = ToGraphvizNode(graph[k])
      OBVIOUS
    <3> HIDE DEF results
    <3> QED
      BY <3>1, AllElements
  <2>5. ASSUME NEW k \in DOMAIN graph
        PROVE  nodes[k].name = graph[k].name /\ DOMAIN nodes[k].steps = DOMAIN graph[k].script
    <3> DEFINE texts == [i \in DOMAIN graph[k].script |-> ExecutableToStrings(graph[k].script[i])]
    <3>1. ToGraphvizNode(graph[k]) =
            {[name |-> graph[k].name, type |-> graph[k].type, errorRate |-> graph[k].errorRate,
              responseSize |-> String(graph[k].responseSize), steps |-> x] : x \in All(texts)}
      BY DEF ToGraphvizNode
    <3>2. DOMAIN texts = DOMAIN graph[k].script
      OBVIOUS
    <3> HIDE DEF texts
    <3>3. PICK steps \in All(texts) : nodes[k].name = graph[k].name /\ nodes[k].steps = steps
      BY <2>4, <3>1
    <3> QED
      BY <3>2, <3>3, AllElements
  <2>6. ASSUME NEW e PROVE Counts(edges, GraphCalls(graph, e), EdgesBetween(graph), e)
    <3>1. \A k \in DOMAIN graph : ValidScript(graph[k].script, NamesOf(graph))
      BY AcceptedIsValid
    <3> QED
      BY <2>1, <3>1, GraphEdges
  <2>7. \A k \in DOMAIN graph : DOMAIN graph[k].script \subseteq Nat
    BY <2>1 DEF ListsAreSequences, IsSequence
  <2> HIDE DEF edges, results
  <2>8. ASSUME NEW e \in DOMAIN edges
        PROVE  /\ \E n \in DOMAIN nodes : nodes[n].name = edges[e].to
               /\ \E n \in DOMAIN nodes :
                    nodes[n].name = edges[e].from /\ edges[e].stepIndex + 1 \in DOMAIN nodes[n].steps
    <3>1. edges \in Seq(EdgesBetween(graph))
      BY <2>6 DEF Counts
    <3>2. edges[e] \in EdgesBetween(graph)
      BY <3>1
    <3>3. PICK k \in DOMAIN graph : \E i \in DOMAIN graph[k].script, to \in NamesOf(graph) :
            edges[e] = Edge(graph[k].name, to, i - 1)
      BY <3>2 DEF EdgesBetween
    <3>4. PICK i \in DOMAIN graph[k].script, to \in NamesOf(graph) : edges[e] = Edge(graph[k].name, to, i - 1)
      BY <3>3
    <3>5. edges[e].from = graph[k].name /\ edges[e].to = to /\ edges[e].stepIndex = i - 1
      BY <3>4 DEF Edge
    <3>6. PICK l \in DOMAIN graph : graph[l].name = to
      BY DEF NamesOf
    <3>7. (i - 1) + 1 = i
      BY <2>7
    <3> QED
      BY <2>4, <2>5, <3>5, <3>6, <3>7
  <2>9. ASSUME NEW k \in DOMAIN graph, NEW l \in DOMAIN graph, NEW i \in DOMAIN graph[k].script
        PROVE  Cardinality(CallsFrom(graph, graph[k].name, i - 1, graph[l].name)) =
                 Cardinality({e \in DOMAIN edges :
                    edges[e] = [from |-> graph[k].name, to |-> graph[l].name, stepIndex |-> i - 1]})
    <3> DEFINE from == graph[k].name
               to == graph[l].name
               edge == Edge(from, to, i - 1)
    <3>1. i \in Nat /\ (i - 1) + 1 = i
      BY <2>7
    <3>2. Cardinality(GraphCalls(graph, edge)) = Cardinality({e \in DOMAIN edges : edges[e] = edge})
      BY <2>6 DEF Counts, CountIn
    <3>3. ASSUME NEW m \in DOMAIN graph, NEW j \in DOMAIN graph[m].script, NEW name
          PROVE  Edge(graph[m].name, name, j - 1) = edge <=> graph[m].name = from /\ name = to /\ j = i
      <4>1. j \in Nat
        BY <2>7
      <4>2. j - 1 = i - 1 <=> j = i
        BY <3>1, <4>1
      <4> QED
        BY <4>2 DEF Edge
    <3> HIDE DEF edge, from, to
    <3>4. ASSUME NEW m \in DOMAIN graph
          PROVE  ScriptCalls(graph, m, edge) =
                   IF graph[m].name = from /\ i \in DOMAIN graph[m].script
                   THEN LET cmds == Subcommands(graph[m].script[i])
                        IN  {<<m, j>> : j \in {n \in DOMAIN cmds : cmds[n].op = "call" /\ cmds[n].service = to}}
                   ELSE {}
      <4>1. \A j \in DOMAIN graph[m].script :
              StepCalls(graph, m, j, edge) =
                IF graph[m].name = from /\ j = i
                THEN LET cmds == Subcommands(graph[m].script[i])
                     IN  {<<m, x>> : x \in {n \in DOMAIN cmds : cmds[n].op = "call" /\ cmds[n].service = to}}
                ELSE {}
        BY <3>3 DEF StepCalls
      <4> QED
        BY <4>1 DEF ScriptCalls
    <3>5. CallsFrom(graph, from, i - 1, to) = GraphCalls(graph, edge)
      BY <3>1, <3>4 DEF CallsFrom, GraphCalls
    <3> QED
      BY <3>2, <3>5 DEF edge, from, to, Edge
  <2> QED
    BY <2>3, <2>8, <2>9
<1> QED
  BY <1>1, KeepInvariance, PTL
=============================================================================
