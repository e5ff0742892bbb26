--------------------------- MODULE Routing_proofs ---------------------------
(***************************************************************************)
(* Proofs about routing along the tree of coordinators, for any            *)
(* coordinators, any tree of them and any losses.                          *)
(***************************************************************************)
EXTENDS Routing, NaturalsInduction, WellFoundedInduction, FiniteSetTheorems,
        TLAPS

-----------------------------------------------------------------------------
(* Induction.  The induction rules of the library take a predicate, the    *)
(* ones here a set.                                                        *)

(* A set of natural numbers that is not empty has a least element.         *)
LEMMA Least ==
  ASSUME NEW T \in SUBSET Nat, T # {}
  PROVE  \E n \in T : \A m \in T : n <= m
<1> DEFINE Less == OpToRel(<, Nat)
<1>1. IsWellFoundedOn(Less, Nat)
  BY NatLessThanWellFounded, Zenon
<1>2. \A x, y \in Nat : x < y => <<x, y>> \in Less
  BY Zenon DEF OpToRel
<1> HIDE DEF Less
<1>3. PICK n \in T : \A m \in T : <<m, n>> \notin Less
  BY <1>1, WFMin, Zenon
<1>4. \A m \in T : ~(m < n)
  BY <1>2, <1>3
<1> QED BY <1>3, <1>4

(* What holds at 0 and goes on from each number to the next holds up to n. *)
LEMMA UpTo ==
  ASSUME NEW n \in Nat, NEW P \in SUBSET (0..n),
         0 \in P, \A i \in 1..n : i - 1 \in P => i \in P
  PROVE  P = 0..n
<1> SUFFICES ASSUME (0..n) \ P # {} PROVE FALSE
  OBVIOUS
<1>1. PICK k \in (0..n) \ P : \A m \in (0..n) \ P : k <= m
  <2>1. (0..n) \ P \in SUBSET Nat
    OBVIOUS
  <2> QED BY <2>1, Least
<1>2. k \in 1..n /\ k - 1 \in P
  BY <1>1
<1> QED BY <1>1, <1>2

(* There is a sequence of values that begins with d and goes on by the     *)
(* given steps.                                                            *)
Iterable(D, d, n, step) ==
  \E f \in [0..n -> D] : /\ f[0] = d
                         /\ \A i \in 1..n : f[i] = step[i][f[i - 1]]

LEMMA Iterates ==
  ASSUME NEW D, NEW d \in D, NEW n \in Nat, NEW step \in [1..n -> [D -> D]]
  PROVE  Iterable(D, d, n, step)
<1> DEFINE Reaches(k, f) == /\ f \in [0..k -> D]
                            /\ f[0] = d
                            /\ \A i \in 1..k : f[i] = step[i][f[i - 1]]
           P == {k \in 0..n : \E f : Reaches(k, f)}
<1>1. 0 \in P
  <2>1. Reaches(0, [i \in 0..0 |-> d])
    OBVIOUS
  <2>2. 0 \in 0..n
    OBVIOUS
  <2> HIDE DEF Reaches
  <2> QED BY <2>1, <2>2
<1>2. ASSUME NEW k \in 1..n, k - 1 \in P PROVE k \in P
  <2>1. PICK f : Reaches(k - 1, f)
    BY <1>2
  <2> DEFINE g == [i \in 0..k |-> IF i = k THEN step[k][f[k - 1]] ELSE f[i]]
  <2>2. f[k - 1] \in D /\ step[k] \in [D -> D]
    BY <2>1
  <2>3. step[k][f[k - 1]] \in D
    BY <2>2
  <2>4. \A i \in 0..(k - 1) : g[i] = f[i] /\ f[i] \in D
    BY <2>1
  <2>5. g \in [0..k -> D]
    <3>1. \A i \in 0..k : i = k \/ i \in 0..(k - 1)
      OBVIOUS
    <3>2. g[k] \in D
      BY <2>3
    <3>3. \A i \in 0..k : g[i] \in D
      BY <2>4, <3>1, <3>2
    <3> QED BY <3>3
  <2>6. \A i \in 1..k : g[i] = step[i][g[i - 1]]
    BY <2>1, <2>4
  <2>7. g[0] = d
    BY <2>1, <2>4
  <2>8. Reaches(k, g)
    BY <2>5, <2>6, <2>7
  <2> HIDE DEF Reaches
  <2> QED BY <2>8
<1>3. P = 0..n
  <2> HIDE DEF P
  <2>1. P \in SUBSET (0..n)
    BY DEF P
  <2> QED BY <1>1, <1>2, <2>1, UpTo
<1>4. PICK f : Reaches(n, f)
  <2>1. n \in P
    BY <1>3
  <2> QED BY <2>1
<1> QED BY <1>4 DEF Iterable

-----------------------------------------------------------------------------
(* Climbing.                                                               *)

LEMMA Sizes ==
  /\ IsFiniteSet(Node) /\ MaxClimb \in Nat /\ MaxClimb >= 1
  /\ Cids \subseteq 1..63 /\ 0 \notin Cids /\ 0 \notin Device
  /\ INVALID \notin Node /\ INVALID \notin Device /\ Ed \notin Node
  /\ NoEd \notin Device
<1>1. IsFiniteSet(Node)
  BY RoutingAssumption, FS_AddElement, Zenon DEF Node
<1>2. MaxClimb \in Nat
  BY <1>1, FS_CardinalityType DEF MaxClimb
<1>3. MaxClimb # 0
  <2>1. Node # {}
    BY DEF Node
  <2> QED BY <1>1, <2>1, FS_EmptySet DEF MaxClimb
<1>4. MaxClimb >= 1
  BY <1>2, <1>3
<1>5. \A x \in Cids : x \in Nat /\ x # 0
  BY RoutingAssumption
<1>6. /\ 0 \notin Cids /\ 0 \notin Device
      /\ INVALID \notin Node /\ INVALID \notin Device /\ Ed \notin Node
      /\ NoEd \notin Device
  <2>1. /\ Cids \subseteq 1..63
        /\ Ed \notin Nat /\ NoEd \notin Nat /\ INVALID \notin Nat
        /\ Ed # NoEd /\ Ed # INVALID
    BY RoutingAssumption
  <2>2. 0 \notin Cids /\ Ed # 0 /\ INVALID # 0 /\ NoEd # 0
    BY <1>5, <2>1
  <2>3. INVALID \notin Cids /\ Ed \notin Cids /\ NoEd \notin Cids
    BY <1>5, <2>1
  <2> QED BY <2>1, <2>2, <2>3 DEF Node, Device
<1> QED BY <1>1, <1>2, <1>4, <1>6, RoutingAssumption

(* The next node on the way up.                                            *)
Above(t, y) == IF y \in DOMAIN t THEN t[y] ELSE INVALID

(* The recursive function Climb is well defined.                           *)
ClimbsUp(t, x) ==
  /\ Climb(t, x)[0] = x
  /\ \A k \in 1..MaxClimb : Climb(t, x)[k] = Above(t, Climb(t, x)[k - 1])

LEMMA ClimbSteps ==
  ASSUME NEW S, NEW T, NEW t \in [S -> T], NEW x
  PROVE  ClimbsUp(t, x)
<1> DEFINE n == MaxClimb
           D == S \cup T \cup {x, INVALID}
           step == [k \in 1..n |-> [y \in D |-> Above(t, y)]]
           Loops(g) == g = [k \in 0..n |-> IF k = 0 THEN x ELSE Above(t, g[k - 1])]
           F == CHOOSE g : Loops(g)
<1>0. n \in Nat
  BY Sizes
<1>1. \A y \in D : Above(t, y) \in D
  BY DEF Above
<1>2. step \in [1..n -> [D -> D]] /\ x \in D
  BY <1>1
<1>3. \A k \in 1..n, y \in D : step[k][y] = Above(t, y)
  OBVIOUS
<1>4. PICK f \in [0..n -> D] :
        f[0] = x /\ \A k \in 1..n : f[k] = step[k][f[k - 1]]
  <2>1. x \in D /\ step \in [1..n -> [D -> D]]
    BY <1>2
  <2> HIDE DEF step, D, n
  <2>2. Iterable(D, x, n, step)
    BY <1>0, <2>1, Iterates, Zenon
  <2> QED BY <2>2, Zenon DEF Iterable
<1> HIDE DEF step, D, n
<1>5. f = [k \in 0..n |-> IF k = 0 THEN x ELSE Above(t, f[k - 1])]
  <2>1. \A k \in 1..n : k - 1 \in 0..n /\ f[k - 1] \in D
    BY <1>0, <1>4
  <2>2. \A k \in 1..n : f[k] = Above(t, f[k - 1])
    BY <1>3, <1>4, <2>1
  <2>3. \A k \in 0..n : k = 0 \/ k \in 1..n
    BY <1>0
  <2>4. \A k \in 0..n : f[k] = IF k = 0 THEN x ELSE Above(t, f[k - 1])
    BY <1>4, <2>2, <2>3
  <2>5. f = [k \in 0..n |-> f[k]]
    BY <1>4
  <2> QED BY <2>4, <2>5, Zenon
<1>6. Loops(F)
  <2>1. Loops(f)
    BY <1>5
  <2> HIDE DEF Loops
  <2> QED BY <2>1, Zenon
<1>7. Climb(t, x) = F
  BY Zenon DEF Climb, Above, n
<1>8. /\ F[0] = x
      /\ \A k \in 1..n : F[k] = Above(t, F[k - 1])
  <2> HIDE DEF F
  <2>1. \A k \in 0..n : F[k] = IF k = 0 THEN x ELSE Above(t, F[k - 1])
    BY <1>6
  <2>2. \A k \in 1..n : k \in 0..n /\ k # 0
    BY <1>0
  <2>3. 0 \in 0..n
    BY <1>0
  <2> QED BY <2>1, <2>2, <2>3
<1> QED BY <1>7, <1>8 DEF n, ClimbsUp

(* Two trees agree on the first n steps of the way up from x.              *)
SameSteps(t, u, x, n) ==
  \A j \in 0..(n - 1) : Above(t, Climb(t, x)[j]) = Above(u, Climb(t, x)[j])

SameWay(t, u, x, n) == \A k \in 0..n : Climb(u, x)[k] = Climb(t, x)[k]

(* Two trees that agree on the way up from x give the same way.            *)
LEMMA Agree ==
  ASSUME NEW S, NEW T, NEW t \in [S -> T], NEW V, NEW W, NEW u \in [V -> W],
         NEW x, NEW n \in 0..MaxClimb, SameSteps(t, u, x, n)
  PROVE  SameWay(t, u, x, n)
<1>a. ClimbsUp(t, x) /\ ClimbsUp(u, x)
  BY ClimbSteps, Zenon
<1> DEFINE C == Climb(t, x)
           E == Climb(u, x)
           P == {k \in 0..n : E[k] = C[k]}
<1>0. n \in Nat /\ \A k \in 1..n : k \in 1..MaxClimb /\ k - 1 \in 0..(n - 1)
  BY Sizes
<1>1. C[0] = x /\ E[0] = x
  BY <1>a DEF ClimbsUp
<1>2. \A k \in 1..MaxClimb : C[k] = Above(t, C[k - 1]) /\ E[k] = Above(u, E[k - 1])
  BY <1>a DEF ClimbsUp
<1>3. \A j \in 0..(n - 1) : Above(t, C[j]) = Above(u, C[j])
  BY DEF SameSteps
<1> HIDE DEF C, E
<1>4. ASSUME NEW k \in 1..n, k - 1 \in P  PROVE  k \in P
  BY <1>0, <1>2, <1>3, <1>4
<1>5. 0 \in P
  BY <1>0, <1>1
<1>6. P = 0..n
  <2>1. P \in SUBSET (0..n)
    OBVIOUS
  <2> HIDE DEF P
  <2> QED BY <1>0, <1>4, <1>5, <2>1, UpTo
<1> QED BY <1>6 DEF C, E, SameWay

(* The way up from a node on the way is the rest of the way.               *)
LEMMA Shift ==
  ASSUME NEW S, NEW T, NEW t \in [S -> T], NEW x, NEW j \in 0..MaxClimb
  PROVE  \A i \in 0..(MaxClimb - j) :
           Climb(t, Climb(t, x)[j])[i] = Climb(t, x)[j + i]
<1>a. ClimbsUp(t, x) /\ ClimbsUp(t, Climb(t, x)[j])
  BY ClimbSteps, Zenon
<1> DEFINE C == Climb(t, x)
           E == Climb(t, C[j])
           n == MaxClimb - j
           P == {i \in 0..n : E[i] = C[j + i]}
<1>0. /\ n \in Nat /\ MaxClimb \in Nat /\ j \in Nat
      /\ \A i \in 1..n : /\ i \in 1..MaxClimb /\ j + i \in 1..MaxClimb
                         /\ j + (i - 1) = (j + i) - 1
  BY Sizes
<1>1. E[0] = C[j]
  BY <1>a DEF ClimbsUp
<1>2. \A k \in 1..MaxClimb : C[k] = Above(t, C[k - 1]) /\ E[k] = Above(t, E[k - 1])
  BY <1>a DEF ClimbsUp
<1> HIDE DEF C, E
<1>4. ASSUME NEW i \in 1..n, i - 1 \in P  PROVE  i \in P
  <2>1. E[i] = Above(t, E[i - 1]) /\ C[j + i] = Above(t, C[(j + i) - 1])
    BY <1>0, <1>2
  <2> QED BY <1>0, <1>4, <2>1
<1>5. 0 \in P
  BY <1>0, <1>1
<1>6. P = 0..n
  <2>1. P \in SUBSET (0..n)
    OBVIOUS
  <2> HIDE DEF P, n
  <2> QED BY <1>0, <1>4, <1>5, <2>1, UpTo
<1> QED BY <1>6 DEF C, E

(* Where the way up has left the tree, it has ended.                       *)
LEMMA Dead ==
  ASSUME NEW S, NEW T, NEW t \in [S -> T], NEW x, INVALID \notin S,
         NEW j \in 0..MaxClimb, Climb(t, x)[j] \notin S
  PROVE  \A k \in (j + 1)..MaxClimb : Climb(t, x)[k] = INVALID
<1>a. ClimbsUp(t, x)
  BY ClimbSteps, Zenon
<1> DEFINE C == Climb(t, x)
           n == MaxClimb - j
           P == {i \in 0..n : C[j + i] \notin S /\ (i = 0 \/ C[j + i] = INVALID)}
<1>0. /\ n \in Nat /\ MaxClimb \in Nat /\ j \in Nat
      /\ \A i \in 1..n : /\ j + i \in 1..MaxClimb
                         /\ j + (i - 1) = (j + i) - 1
  BY Sizes
<1>2. \A k \in 1..MaxClimb : C[k] = Above(t, C[k - 1])
  BY <1>a DEF ClimbsUp
<1>3. C[j] \notin S
  OBVIOUS
<1> HIDE DEF C
<1>4. ASSUME NEW i \in 1..n, i - 1 \in P  PROVE  i \in P
  <2>1. C[j + i] = Above(t, C[(j + i) - 1])
    BY <1>0, <1>2
  <2> QED BY <1>0, <1>4, <2>1 DEF Above
<1>5. 0 \in P
  BY <1>0, <1>3
<1>6. P = 0..n
  <2>1. P \in SUBSET (0..n)
    OBVIOUS
  <2> HIDE DEF P, n
  <2> QED BY <1>0, <1>4, <1>5, <2>1, UpTo
<1>7. ASSUME NEW k \in (j + 1)..MaxClimb  PROVE  C[k] = INVALID
  <2>1. k - j \in 0..n /\ k - j # 0 /\ j + (k - j) = k
    BY <1>0
  <2> QED BY <1>6, <2>1
<1> QED BY <1>7 DEF C

-----------------------------------------------------------------------------
(* The gateway's device table is a tree.                                   *)

(* The way up from a coordinator ends at the gateway.                      *)
LEMMA RootPath ==
  ASSUME top \in Topologies, NEW c \in Cids
  PROVE  \E n \in 1..MaxClimb :
           /\ Climb(top, c)[n] = 0
           /\ \A k \in 0..(n - 1) : Climb(top, c)[k] \in Cids
           /\ \A k \in (n + 1)..MaxClimb : Climb(top, c)[k] = INVALID
<1>1. top \in [Device -> Node] /\ top[Ed] = Home /\ INVALID \notin Device
  BY Sizes DEF Topologies
<1>2. ClimbsUp(top, c)
  BY <1>1, ClimbSteps, Zenon
<1>3. PICK n \in 0..MaxClimb : Climb(top, c)[n] = 0
  BY Zenon DEF Topologies
<1> DEFINE C == Climb(top, c)
<1>4. MaxClimb \in Nat /\ n \in Nat
  BY Sizes
<1>5. /\ C[0] = c /\ C[n] = 0
      /\ \A k \in 1..MaxClimb : C[k] = Above(top, C[k - 1])
  BY <1>2, <1>3 DEF ClimbsUp
<1>6. \A j \in 0..MaxClimb :
        C[j] \notin Device => \A k \in (j + 1)..MaxClimb : C[k] = INVALID
  BY <1>1, Dead
<1> HIDE DEF C
<1>7. n \in 1..MaxClimb
  BY <1>3, <1>4, <1>5, Sizes
<1>8. \A k \in (n + 1)..MaxClimb : C[k] = INVALID
  BY <1>5, <1>6, Sizes
<1>9. ASSUME NEW k \in 0..(n - 1)  PROVE  C[k] \in Device
  <2>1. k \in 0..MaxClimb /\ n \in (k + 1)..MaxClimb
    BY <1>3, <1>4
  <2>2. INVALID # 0
    BY Sizes DEF Node
  <2> QED BY <1>5, <1>6, <2>1, <2>2
<1>10. ASSUME NEW k \in 0..(n - 1)  PROVE  C[k] \in Cids
  <2>1. CASE k = 0
    BY <1>5, <2>1
  <2>2. CASE k # 0
    <3>1. k \in 1..MaxClimb /\ k - 1 \in 0..(n - 1)
      BY <1>3, <1>4, <2>2
    <3>2. C[k] = top[C[k - 1]] /\ C[k - 1] \in Device
      BY <1>1, <1>5, <1>9, <3>1 DEF Above
    <3>3. C[k] \in Node /\ C[k] \in Device
      BY <1>1, <1>9, <3>2
    <3> QED BY <3>3, Sizes DEF Node, Device
  <2> QED BY <2>1, <2>2
<1> QED BY <1>5, <1>7, <1>8, <1>10 DEF C

(* Every coordinator is below the gateway and below itself.                *)
LEMMA BelowRoot ==
  ASSUME top \in Topologies, NEW c \in Cids
  PROVE  IsBelow(c, 0) /\ IsBelow(c, c)
<1>1. PICK n \in 1..MaxClimb : Climb(top, c)[n] = 0
  BY RootPath
<1>2. ClimbsUp(top, c)
  BY ClimbSteps, Zenon DEF Topologies
<1>3. n \in 0..MaxClimb /\ 0 \in 0..MaxClimb
  BY Sizes
<1> QED BY <1>1, <1>2, <1>3 DEF IsBelow, ClimbsUp

(* What is below a coordinator is below its parent.                        *)
LEMMA BelowUp ==
  ASSUME top \in Topologies, NEW y \in Cids, NEW x \in Cids, IsBelow(y, x)
  PROVE  IsBelow(y, top[x])
<1> DEFINE C == Climb(top, y)
<1>1. PICK k \in 0..MaxClimb : C[k] = x
  BY DEF IsBelow
<1>2. PICK n \in 1..MaxClimb :
        C[n] = 0 /\ \A j \in (n + 1)..MaxClimb : C[j] = INVALID
  BY RootPath
<1>3. top \in [Device -> Node] /\ x \in Device
  BY DEF Topologies, Device
<1>4. ClimbsUp(top, y)
  BY <1>3, ClimbSteps, Zenon
<1>5. \A j \in 1..MaxClimb : C[j] = Above(top, C[j - 1])
  BY <1>4 DEF ClimbsUp
<1> HIDE DEF C
<1>6. x # 0 /\ x # INVALID /\ MaxClimb \in Nat
  BY Sizes DEF Node
<1>7. k + 1 \in 1..MaxClimb /\ (k + 1) - 1 = k
  BY <1>1, <1>2, <1>6
<1>8. C[k + 1] = top[x]
  BY <1>1, <1>3, <1>5, <1>7 DEF Above
<1>9. k + 1 \in 0..MaxClimb
  BY <1>7
<1> QED BY <1>8, <1>9 DEF IsBelow, C

(* What is below a node is the node, or below one of its children.         *)
LEMMA BelowChild ==
  ASSUME top \in Topologies, NEW y \in Cids, NEW a \in Node, IsBelow(y, a)
  PROVE  y = a \/ \E x \in Cids : top[x] = a /\ IsBelow(y, x)
<1> DEFINE C == Climb(top, y)
<1>1. PICK k \in 0..MaxClimb : C[k] = a
  BY DEF IsBelow
<1>2. PICK n \in 1..MaxClimb :
        /\ C[n] = 0
        /\ \A j \in 0..(n - 1) : C[j] \in Cids
        /\ \A j \in (n + 1)..MaxClimb : C[j] = INVALID
  BY RootPath
<1>3. top \in [Device -> Node] /\ Cids \subseteq Device
  BY DEF Topologies, Device
<1>4. ClimbsUp(top, y)
  BY <1>3, ClimbSteps, Zenon
<1>5. C[0] = y /\ \A j \in 1..MaxClimb : C[j] = Above(top, C[j - 1])
  BY <1>4 DEF ClimbsUp
<1> HIDE DEF C
<1>6. a # INVALID /\ MaxClimb \in Nat
  BY Sizes
<1>7. CASE k = 0
  BY <1>1, <1>5, <1>7
<1>8. CASE k # 0
  <2>1. k <= n
    BY <1>1, <1>2, <1>6
  <2>2. k \in 1..MaxClimb /\ k - 1 \in 0..(n - 1) /\ k - 1 \in 0..MaxClimb
    BY <1>6, <1>8, <2>1
  <2>3. C[k - 1] \in Cids
    BY <1>2, <2>2
  <2>4. C[k] = top[C[k - 1]]
    BY <1>3, <1>5, <2>2, <2>3 DEF Above
  <2>5. IsBelow(y, C[k - 1])
    BY <2>2, Zenon DEF IsBelow, C
  <2> QED BY <1>1, <2>3, <2>4, <2>5
<1> QED BY <1>7, <1>8

(* If a coordinator's ID is above its parent's, then it is above those of  *)
(* all coordinators on its way up.                                         *)
LEMMA BelowAbove ==
  ASSUME top \in Topologies, Ordered, NEW y \in Cids, NEW x \in Cids,
         IsBelow(y, x)
  PROVE  x <= y
<1> DEFINE C == Climb(top, y)
<1>1. PICK k \in 0..MaxClimb : C[k] = x
  BY DEF IsBelow
<1>2. PICK n \in 1..MaxClimb :
        /\ C[n] = 0
        /\ \A j \in 0..(n - 1) : C[j] \in Cids
        /\ \A j \in (n + 1)..MaxClimb : C[j] = INVALID
  BY RootPath
<1>3. /\ top \in [Device -> Node] /\ Cids \subseteq Device
      /\ \A c \in Cids : top[c] < c /\ c \in Nat
  BY Sizes DEF Topologies, Device
<1>4. ClimbsUp(top, y)
  BY <1>3, ClimbSteps, Zenon
<1>5. C[0] = y /\ \A j \in 1..MaxClimb : C[j] = Above(top, C[j - 1])
  BY <1>4 DEF ClimbsUp
<1> HIDE DEF C
<1>6. x # 0 /\ x # INVALID /\ MaxClimb \in Nat /\ n - 1 \in Nat
  BY Sizes DEF Node
<1> DEFINE P == {j \in 0..(n - 1) : C[j] <= y}
<1>7. 0 \in P
  BY <1>3, <1>5, <1>6
<1>8. ASSUME NEW j \in 1..(n - 1), j - 1 \in P  PROVE  j \in P
  <2>1. j \in 1..MaxClimb /\ j \in 0..(n - 1) /\ j - 1 \in 0..(n - 1)
    BY <1>6
  <2>2. C[j] = top[C[j - 1]] /\ C[j - 1] \in Cids /\ C[j] \in Cids
    BY <1>2, <1>3, <1>5, <2>1 DEF Above
  <2> QED BY <1>3, <1>8, <2>1, <2>2
<1>9. P = 0..(n - 1)
  <2>1. P \in SUBSET (0..(n - 1))
    OBVIOUS
  <2> HIDE DEF P
  <2> QED BY <1>6, <1>7, <1>8, <2>1, UpTo
<1>10. k \in 0..(n - 1)
  BY <1>1, <1>2, <1>6
<1> QED BY <1>1, <1>9, <1>10

-----------------------------------------------------------------------------
(* The inductive invariant of the trees, the tables and the packets.       *)

(* The row of coordinator x in the gateway's device table.                 *)
RowOf(x) == [cid |-> x, parent |-> top[x]]

SoundRows(rows) == \A r \in rows : r.parent = top[r.cid]

(* The gateway's tree once it has started.                                 *)
Start == [x \in Node |-> IF x = 0 THEN 0 ELSE top[x]]

Unknown == [x \in Node |-> INVALID]

Tree == [Node -> Node \cup {INVALID}]

(* A packet to a node itself, not to a device, names a node that exists.   *)
Held == {r \in Packet : r.ed = NoEd => r.dcid \in Node}

(* All rows that travel are those of the gateway's table, the gateway has  *)
(* started or knows nothing, and packets can be routed.                    *)
TreesInv ==
  /\ TypeOK
  /\ top \in Topologies
  /\ TreesSound
  /\ \A m \in tables : SoundRows(m.rows)
  /\ tree[0] \in {Unknown, Start}
  /\ boots > 0 => tree[0] = Start
  /\ packet \in [Packets -> Held]

(* The node before the first meeting with c exists.                        *)
LEMMA OneBeforeType ==
  ASSUME NEW c \in Node, NEW d, tree[c] \in Tree, Hits(c, d) # {}
  PROVE  OneBefore(c, d) \in Node
<1> DEFINE C == Climb(tree[c], d)
           H == Hits(c, d)
           k == CHOOSE i \in H : \A l \in H : i <= l
<1>1. ClimbsUp(tree[c], d)
  <2>1. tree[c] \in [Node -> Node \cup {INVALID}]
    BY DEF Tree
  <2> QED BY <2>1, ClimbSteps, Zenon
<1>2. H \in SUBSET Nat /\ H # {} /\ \A i \in H : i \in 1..MaxClimb /\ C[i] = c
  BY Sizes DEF Hits
<1>3. k \in H
  <2>1. \E i \in H : \A l \in H : i <= l
    <3> HIDE DEF H
    <3> QED BY <1>2, Least
  <2> HIDE DEF H
  <2> QED BY <2>1, Zenon
<1>4. OneBefore(c, d) = C[k - 1]
  BY Zenon DEF OneBefore
<1>5. \A i \in 1..MaxClimb : C[i] = Above(tree[c], C[i - 1])
  BY <1>1 DEF ClimbsUp
<1> HIDE DEF C, H, k
<1>6. c = Above(tree[c], C[k - 1])
  BY <1>2, <1>3, <1>5
<1>7. C[k - 1] \in Node
  BY <1>6, Sizes DEF Above, Tree
<1> QED BY <1>4, <1>7

(* The gateway's search meets the gateway.                                 *)
LEMMA GatewayHits ==
  ASSUME top \in Topologies, tree[0] = Start, NEW d \in Cids
  PROVE  Hits(0, d) # {}
<1>1. PICK n \in 1..MaxClimb :
        /\ Climb(top, d)[n] = 0
        /\ \A j \in 0..(n - 1) : Climb(top, d)[j] \in Cids
  BY RootPath
<1>2. top \in [Device -> Node] /\ Start \in [Node -> Node]
  <2>1. top \in [Device -> Node] /\ \A x \in Cids : x \in Device
    BY DEF Topologies, Device
  <2>2. \A x \in Node : x = 0 \/ x \in Cids
    BY DEF Node
  <2>3. \A x \in Node : (IF x = 0 THEN 0 ELSE top[x]) \in Node
    BY <2>1, <2>2 DEF Node
  <2> QED BY <2>1, <2>3 DEF Start
<1>3. \A x \in Cids : Above(top, x) = Above(Start, x)
  BY <1>2, Sizes DEF Above, Start, Node, Device
<1>4. n \in 0..MaxClimb
  BY Sizes
<1>5. SameSteps(top, Start, d, n)
  BY <1>1, <1>3 DEF SameSteps
<1>6. SameWay(top, Start, d, n)
  <2> QED BY <1>2, <1>4, <1>5, Agree, Zenon
<1>7. n \in 0..n
  BY Sizes
<1>8. Climb(tree[0], d)[n] = 0
  BY <1>1, <1>6, <1>7 DEF SameWay
<1> QED BY <1>8, Zenon DEF Hits

LEMMA NextCoordType ==
  ASSUME TypeOK, top \in Topologies, NEW c \in Node, NEW d,
         c = 0 => tree[0] = Start /\ d \in Cids
  PROVE  NextCoord(c, d) \in Node
<1>1. tree[c] \in Tree
  BY DEF TypeOK, Tree
<1>2. CASE c = 0
  <2>1. NextCoord(c, d) = OneBefore(c, d)
    BY <1>2 DEF NextCoord, GatewayNextCoord
  <2>2. Hits(c, d) # {}
    BY <1>2, GatewayHits
  <2> QED BY <1>1, <2>1, <2>2, OneBeforeType, Zenon
<1>3. CASE c # 0 /\ (d = 0 \/ Hits(c, d) = {})
  <2>1. NextCoord(c, d) = top[c]
    BY <1>3 DEF NextCoord
  <2>2. c \in Device
    BY <1>3 DEF Node, Device
  <2> QED BY <2>1, <2>2 DEF TypeOK
<1>4. CASE c # 0 /\ ~(d = 0 \/ Hits(c, d) = {})
  <2>1. NextCoord(c, d) = OneBefore(c, d)
    BY <1>4 DEF NextCoord
  <2> QED BY <1>1, <1>4, <2>1, OneBeforeType
<1> QED BY <1>2, <1>3, <1>4

-----------------------------------------------------------------------------
(* Packets.                                                                *)

LEMMA IdleHeld ==
  ASSUME NEW w \in {"none", "received", "lost"}
  PROVE  [Idle EXCEPT !.place = w] \in Held
<1> DEFINE r == [Idle EXCEPT !.place = w]
<1>1. r = [place |-> w, at |-> 0, to |-> 0, dcid |-> 0, ed |-> NoEd]
  BY DEF Idle
<1>2. 0 \in Node /\ 0 \in 0..63
  BY DEF Node
<1> QED BY <1>1, <1>2 DEF Held, Packet

LEMMA ToChildHeld ==
  ASSUME NEW c \in Node, NEW d \in 0..63, NEW e \in Device
  PROVE  ToChild(c, d, e) \in Held
BY Sizes DEF ToChild, Held, Packet

LEMMA TowardsHeld ==
  ASSUME TypeOK, top \in Topologies,
         NEW c \in Node, NEW a, c = 0 => tree[0] = Start /\ a \in Cids,
         NEW d \in 0..63, NEW e \in Device \cup {NoEd}, e = NoEd => d \in Node
  PROVE  Towards(c, a, d, e) \in Held
<1>1. NextCoord(c, a) \in Node
  BY NextCoordType
<1> QED BY <1>1 DEF Towards, Held, Packet

LEMMA NodeSmall == Node \subseteq 0..63
BY Sizes DEF Node

LEMMA RewrittenSmall ==
  ASSUME NEW a \in 0..63
  PROVE  Rewritten(a) \in 0..63
<1>1. a \div 16 \in 0..3 /\ a % 4 \in 0..3
  OBVIOUS
<1> QED BY <1>1 DEF Rewritten

LEMMA RouteHeld ==
  ASSUME TreesInv, NEW p \in Packets, NEW c \in Node, c = 0 => tree[0] = Start
  PROVE  LINK_route(p, c) \in [Packets -> Held]
<1> DEFINE d == packet[p].dcid
           e == packet[p].ed
<1>1. /\ TypeOK /\ top \in Topologies /\ packet \in [Packets -> Held]
      /\ top \in [Device -> Node]
  BY DEF TreesInv, TypeOK
<1>2. /\ d \in 0..63 /\ e \in Device \cup {NoEd} /\ (e = NoEd => d \in Node)
  <2>1. packet[p] \in Held
    BY <1>1
  <2> QED BY <2>1 DEF Held, Packet
<1>3. \A r \in Held : [packet EXCEPT ![p] = r] \in [Packets -> Held]
  BY <1>1
<1>4. Done(p, "lost") \in [Packets -> Held] /\ Done(p, "received") \in [Packets -> Held]
  BY <1>3, IdleHeld DEF Done
<1> HIDE DEF d, e
<1>5. CASE c = 0
  <2>1. ASSUME e = NoEd, d # 0  PROVE  Towards(0, d, d, e) \in Held
    <3>1. d \in Cids
      BY <1>2, <2>1 DEF Node
    <3> QED BY <1>1, <1>2, <1>5, <3>1, TowardsHeld
  <2>2. ASSUME e # NoEd, top[e] # 0
        PROVE  Towards(0, top[e], Rewritten(top[e]), e) \in Held
    <3>1. top[e] \in Cids /\ top[e] \in 0..63
      BY <1>1, <1>2, <2>2, NodeSmall DEF Node
    <3>2. Rewritten(top[e]) \in 0..63
      BY <3>1, RewrittenSmall
    <3> QED BY <1>1, <1>2, <1>5, <2>2, <3>1, <3>2, TowardsHeld
  <2>3. ASSUME e # NoEd  PROVE  ToChild(0, d, e) \in Held
    BY <1>2, <1>5, <2>3, ToChildHeld
  <2>4. RouteAtGateway(p) \in [Packets -> Held]
    BY <1>3, <1>4, <2>1, <2>2, <2>3 DEF RouteAtGateway, d, e
  <2> QED BY <1>5, <2>4 DEF LINK_route
<1>6. CASE c # 0
  <2>1. Towards(c, d, d, e) \in Held
    BY <1>1, <1>2, <1>6, TowardsHeld
  <2>2. ASSUME e # NoEd  PROVE  ToChild(c, d, e) \in Held
    BY <1>2, <2>2, ToChildHeld
  <2>3. RouteAtCoord(p, c) \in [Packets -> Held]
    BY <1>3, <1>4, <2>1, <2>2 DEF RouteAtCoord, d, e
  <2> QED BY <1>6, <2>3 DEF LINK_route
<1> QED BY <1>5, <1>6

-----------------------------------------------------------------------------
(* Tables.                                                                 *)

(* The table of those rows that lie below x.                               *)
ForChild(m, t, x, rows) ==
  /\ m.to = x
  /\ \A r \in rows : InSubtree(t, r.cid, x) = {TRUE} => r \in m.rows

(* The tables that a node sends: one to each child, with the rows that are *)
(* below it, and with no rows that the node does not have.                 *)
LEMMA SentTables ==
  ASSUME NEW t, NEW a, NEW rows, NEW s \in Sent(t, a, rows)
  PROVE  /\ \A m \in s : /\ m = [to |-> m.to, rows |-> m.rows]
                         /\ m.to \in Children(t, a) /\ m.rows \subseteq rows
         /\ \A x \in Children(t, a) : \E m \in s : ForChild(m, t, x, rows)
<1> DEFINE pairs == Children(t, a) \X rows
           sure  == {q \in pairs : InSubtree(t, q[2].cid, q[1]) = {TRUE}}
           maybe == {q \in pairs : InSubtree(t, q[2].cid, q[1]) = BOOLEAN}
           For(x, more) == {r \in rows : <<x, r>> \in sure \cup more}
<1>1. PICK more \in SUBSET maybe :
        s = {[to |-> x, rows |-> For(x, more)] : x \in Children(t, a)}
  BY Zenon DEF Sent
<1>2. \A x : For(x, more) \subseteq rows
  OBVIOUS
<1>3. \A x \in Children(t, a), r \in rows :
        InSubtree(t, r.cid, x) = {TRUE} => r \in For(x, more)
  <2> SUFFICES ASSUME NEW x \in Children(t, a), NEW r \in rows,
                      InSubtree(t, r.cid, x) = {TRUE}
               PROVE  r \in For(x, more)
    OBVIOUS
  <2>1. <<x, r>> \in pairs /\ <<x, r>>[1] = x /\ <<x, r>>[2] = r
    OBVIOUS
  <2>2. <<x, r>> \in sure
    BY <2>1, Zenon
  <2> HIDE DEF sure, maybe, pairs
  <2> QED BY <2>2
<1> HIDE DEF For
<1>4. ASSUME NEW m \in s
      PROVE  /\ m = [to |-> m.to, rows |-> m.rows]
             /\ m.to \in Children(t, a) /\ m.rows \subseteq rows
  <2>1. PICK x \in Children(t, a) : m = [to |-> x, rows |-> For(x, more)]
    BY <1>1
  <2> QED BY <1>2, <2>1
<1>5. ASSUME NEW x \in Children(t, a)
      PROVE  \E m \in s : ForChild(m, t, x, rows)
  <2> DEFINE m == [to |-> x, rows |-> For(x, more)]
  <2>1. m \in s /\ m.to = x /\ m.rows = For(x, more)
    BY <1>1
  <2> HIDE DEF m
  <2>2. ASSUME NEW r \in rows, InSubtree(t, r.cid, x) = {TRUE}
        PROVE  r \in m.rows
    <3>1. r \in For(x, more)
      BY <1>3, <2>2
    <3> QED BY <2>1, <3>1
  <2>3. ForChild(m, t, x, rows)
    BY <2>1, <2>2 DEF ForChild
  <2> QED BY <2>1, <2>3, Zenon
<1> QED BY <1>4, <1>5

LEMMA SentSound ==
  ASSUME NEW t, NEW a, NEW rows \in SUBSET Row, SoundRows(rows),
         NEW s \in Sent(t, a, rows)
  PROVE  \A m \in s : m \in Table /\ SoundRows(m.rows)
<1> SUFFICES ASSUME NEW m \in s PROVE m \in Table /\ SoundRows(m.rows)
  OBVIOUS
<1>1. /\ m = [to |-> m.to, rows |-> m.rows]
      /\ m.to \in Children(t, a) /\ m.rows \subseteq rows
  BY SentTables
<1>2. m.to \in Cids /\ m.rows \in SUBSET Row
  BY <1>1 DEF Children
<1>3. m \in Table
  BY <1>1, <1>2, Zenon DEF Table
<1> QED BY <1>1, <1>3 DEF SoundRows

(* A tree that knows nothing that is not in the gateway's table.           *)
SoundTree(t) ==
  /\ t \in Tree
  /\ \A x \in Cids : t[x] \in {INVALID, top[x]}

(* The rows that a coordinator composes are those of the gateway's table.  *)
LEMMA ComposedSound ==
  ASSUME NEW c \in Node, NEW t, SoundTree(t)
  PROVE  RTable(t, c) \in SUBSET Row /\ SoundRows(RTable(t, c))
<1> SUFFICES ASSUME NEW r \in RTable(t, c)
             PROVE  r \in Row /\ r.parent = top[r.cid]
  BY DEF SoundRows
<1>1. INVALID \notin Node
  BY Sizes
<1>2. CASE r \in {[cid |-> i, parent |-> c] : i \in Children(t, c)}
  <2>1. PICK i \in Children(t, c) : r = [cid |-> i, parent |-> c]
    BY <1>2
  <2>2. i \in Cids /\ t[i] = c
    BY <2>1 DEF Children
  <2>3. top[i] = c
    BY <1>1, <2>2 DEF SoundTree
  <2> QED BY <2>1, <2>2, <2>3 DEF Row
<1>3. ASSUME NEW i \in Cids, t[i] # INVALID, r = [cid |-> i, parent |-> t[i]]
      PROVE  r \in Row /\ r.parent = top[r.cid]
  <2>1. i \in Node
    BY DEF Node
  <2>2. t[i] \in Node /\ t[i] = top[i]
    BY <1>3, <2>1 DEF SoundTree, Tree
  <2> QED BY <1>3, <2>2 DEF Row
<1> QED BY <1>2, <1>3 DEF RTable

(* The tree after a table of the gateway's rows has arrived.               *)
Learnt(t, rows) ==
  [x \in Node |-> IF \E r \in rows : r.cid = x
                  THEN (CHOOSE r \in rows : r.cid = x).parent ELSE t[x]]

LEMMA LearntSound ==
  ASSUME NEW t, SoundTree(t), NEW rows \in SUBSET Row, SoundRows(rows)
  PROVE  /\ SoundTree(Learnt(t, rows))
         /\ \A r \in rows : Learnt(t, rows)[r.cid] = top[r.cid]
         /\ \A x \in Cids : t[x] = top[x] => Learnt(t, rows)[x] = top[x]
<1> DEFINE u == Learnt(t, rows)
           Of(x) == CHOOSE r \in rows : r.cid = x
<1>1. \A x \in Node :
        u[x] = IF \E r \in rows : r.cid = x THEN Of(x).parent ELSE t[x]
  BY DEF Learnt
<1>2. ASSUME NEW x \in Node, \E r \in rows : r.cid = x
      PROVE  u[x] = top[x] /\ u[x] \in Node
  <2>1. Of(x) \in rows /\ Of(x).cid = x
    BY <1>2
  <2>2. Of(x) \in Row /\ Of(x).parent = top[x]
    BY <2>1 DEF SoundRows
  <2>3. Of(x).parent \in Node
    BY <2>2 DEF Row
  <2> QED BY <1>1, <1>2, <2>2, <2>3
<1>3. ASSUME NEW x \in Node, ~\E r \in rows : r.cid = x  PROVE  u[x] = t[x]
  BY <1>1, <1>3
<1> HIDE DEF Of
<1>4. \A x \in Cids : x \in Node
  BY DEF Node
<1>5. u = [x \in Node |-> u[x]]
  BY DEF Learnt
<1>6. u \in Tree
  <2>1. \A x \in Node : u[x] \in Node \cup {INVALID}
    BY <1>2, <1>3 DEF SoundTree, Tree
  <2> HIDE DEF u
  <2> QED BY <1>5, <2>1 DEF Tree
<1>7. \A r \in rows : r.cid \in Cids
  BY DEF Row
<1> HIDE DEF u
<1>8. \A x \in Cids : u[x] \in {INVALID, top[x]}
  BY <1>2, <1>3, <1>4 DEF SoundTree
<1>9. \A r \in rows : u[r.cid] = top[r.cid]
  BY <1>2, <1>4, <1>7
<1>10. \A x \in Cids : t[x] = top[x] => u[x] = top[x]
  BY <1>2, <1>3, <1>4
<1> QED BY <1>6, <1>8, <1>9, <1>10 DEF SoundTree, u

-----------------------------------------------------------------------------
(* The invariant holds.                                                    *)

LEMMA TreesInit == Init => TreesInv
<1> SUFFICES ASSUME Init PROVE TreesInv
  OBVIOUS
<1>1. 0 \in Node /\ 0 \in 0..63 /\ MaxBoots \in Nat /\ MaxLosses \in Nat
  BY RoutingAssumption DEF Node
<1>2. Idle \in Held
  BY <1>1 DEF Idle, Held, Packet
<1>3. packet \in [Packets -> Held] /\ packet \in [Packets -> Packet]
  BY <1>2 DEF Init, Held
<1>4. tree \in [Node -> [Node -> Node \cup {INVALID}]] /\ tree[0] = Unknown
  BY <1>1 DEF Init, Unknown
<1>5. TypeOK
  BY <1>1, <1>3, <1>4 DEF Init, TypeOK, Topologies
<1>6. TreesSound
  BY DEF Init, TreesSound, Node
<1> QED BY <1>1, <1>3, <1>4, <1>5, <1>6 DEF Init, TreesInv

LEMMA StartSound ==
  ASSUME TypeOK
  PROVE  SoundTree(Start) /\ \A x \in Cids : Start[x] = top[x]
<1>1. \A x \in Node : x = 0 \/ x \in Cids
  BY DEF Node
<1>2. \A x \in Cids : x \in Node /\ x # 0 /\ x \in Device
  BY Sizes DEF Node, Device
<1>3. \A x \in Node : (IF x = 0 THEN 0 ELSE top[x]) \in Node
  BY <1>1, <1>2 DEF TypeOK, Node
<1>4. Start \in Tree
  BY <1>3 DEF Start, Tree
<1>5. \A x \in Cids : Start[x] = top[x]
  BY <1>2 DEF Start
<1> QED BY <1>4, <1>5 DEF SoundTree

(* Steps that change neither trees nor tables.                             *)
LEMMA PacketStep ==
  ASSUME TreesInv, UNCHANGED <<top, tree, tables, boots>>,
         rebuilding' \in SUBSET Cids, losses' \in 0..MaxLosses,
         packet' \in [Packets -> Held]
  PROVE  TreesInv'
<1>1. packet' \in [Packets -> Packet]
  BY DEF Held
<1>2. TypeOK'
  BY <1>1 DEF TreesInv, TypeOK
<1>3. Start' = Start /\ \A m \in tables : SoundRows(m.rows)' = SoundRows(m.rows)
  BY DEF Start, SoundRows
<1> QED BY <1>2, <1>3 DEF TreesInv, TreesSound, Topologies, IsBelow, Unknown

LEMMA ErrorType ==
  ASSUME NEW c \in Node, NEW d, LINK_error_handler_coord(c, d),
         rebuilding \subseteq Cids
  PROVE  rebuilding' \in SUBSET Cids
BY DEF LINK_error_handler_coord, NET_send_move_request, Node

LEMMA LossType ==
  ASSUME TypeOK, losses < MaxLosses, losses' = losses + 1
  PROVE  losses' \in 0..MaxLosses
BY RoutingAssumption DEF TypeOK

LEMMA TreesStepTables ==
  ASSUME TreesInv,
         \/ NET_init
         \/ \E m \in tables : NET_process_routing_table(m) \/ LoseTable(m)
  PROVE  TreesInv'
<1>1. /\ TypeOK /\ top \in Topologies /\ TreesSound
      /\ \A m \in tables : m \in Table /\ SoundRows(m.rows)
      /\ tree[0] \in {Unknown, Start} /\ (boots > 0 => tree[0] = Start)
      /\ packet \in [Packets -> Held] /\ 0 \in Node /\ 0 \notin Cids
      /\ tree \in [Node -> Tree]
  BY Sizes DEF TreesInv, TypeOK, Node, Tree
<1>2. UNCHANGED <<top, packet>>
  BY DEF NET_init, NET_process_routing_table, LoseTable
<1>3. /\ Start' = Start /\ Unknown' = Unknown
      /\ \A rows : SoundRows(rows)' = SoundRows(rows)
  BY <1>2 DEF Start, Unknown, SoundRows
<1>4. ASSUME tree' \in [Node -> Tree], tables' \in SUBSET Table,
             boots' \in 0..MaxBoots, losses' \in 0..MaxLosses,
             rebuilding' \in SUBSET Cids,
             \A c, x \in Cids : tree'[c][x] \in {INVALID, top[x]},
             \A m \in tables' : SoundRows(m.rows),
             tree'[0] \in {Unknown, Start}, boots' > 0 => tree'[0] = Start
      PROVE  TreesInv'
  <2>1. TypeOK'
    BY <1>1, <1>2, <1>4 DEF TypeOK, Tree
  <2>2. TreesSound'
    BY <1>2, <1>4 DEF TreesSound
  <2>3. (\A m \in tables : SoundRows(m.rows))'
    BY <1>3, <1>4
  <2>4. top' \in Topologies' /\ packet' \in [Packets -> Held]'
    BY <1>1, <1>2 DEF Topologies, Held
  <2> QED BY <1>2, <1>3, <1>4, <2>1, <2>2, <2>3, <2>4 DEF TreesInv
<1>5. CASE NET_init
  <2> DEFINE rows == {[cid |-> x, parent |-> top[x]] : x \in Cids}
  <2>1. PICK m \in Sent(Start, 0, rows) : tables' = tables \cup m
    BY <1>5 DEF NET_init, Start
  <2>2. tree' = [tree EXCEPT ![0] = Start] /\ boots' = boots + 1 /\ boots < MaxBoots
        /\ UNCHANGED <<rebuilding, losses>>
    BY <1>5 DEF NET_init, Start
  <2>3. rows \in SUBSET Row /\ SoundRows(rows)
    <3>1. \A x \in Cids : top[x] \in Node
      BY <1>1 DEF TypeOK, Device
    <3> QED BY <3>1 DEF Row, SoundRows
  <2> HIDE DEF rows
  <2>4. \A k \in m : k \in Table /\ SoundRows(k.rows)
    BY <2>1, <2>3, SentSound
  <2>5. Start \in Tree
    BY <1>1, StartSound DEF SoundTree
  <2>6. tree' \in [Node -> Tree] /\ tree'[0] = Start
        /\ \A c \in Cids : tree'[c] = tree[c]
    <3> HIDE DEF Start
    <3> QED BY <1>1, <2>2, <2>5 DEF Node
  <2>7. \A c, x \in Cids : tree'[c][x] \in {INVALID, top[x]}
    BY <1>1, <2>6 DEF TreesSound
  <2>8. tables' \in SUBSET Table /\ \A k \in tables' : SoundRows(k.rows)
    BY <1>1, <2>1, <2>4
  <2>9. boots' \in 0..MaxBoots /\ losses' \in 0..MaxLosses
        /\ rebuilding' \in SUBSET Cids
    BY <1>1, <2>2, RoutingAssumption DEF TypeOK
  <2> QED BY <1>4, <2>6, <2>7, <2>8, <2>9
<1>6. ASSUME NEW m \in tables, NET_process_routing_table(m)  PROVE  TreesInv'
  <2> DEFINE c == m.to
             u == Learnt(tree[c], m.rows)
  <2>1. m \in Table /\ SoundRows(m.rows) /\ c \in Cids /\ m.rows \in SUBSET Row
    BY <1>1 DEF Table
  <2>2. /\ tree' = [tree EXCEPT ![c] = u]
        /\ \/ tables' = tables \ {m}
           \/ \E s \in Sent(u, c, RTable(u, c)) : tables' = (tables \ {m}) \cup s
        /\ UNCHANGED <<rebuilding, boots, losses>>
    BY <1>6 DEF NET_process_routing_table, Learnt
  <2>3. c \in Node /\ SoundTree(tree[c])
    BY <1>1, <2>1 DEF SoundTree, TreesSound, Node
  <2>4. SoundTree(u)
    BY <2>1, <2>3, LearntSound
  <2> HIDE DEF c, u
  <2>5. RTable(u, c) \in SUBSET Row /\ SoundRows(RTable(u, c))
    BY <2>3, <2>4, ComposedSound
  <2>6. \A s \in Sent(u, c, RTable(u, c)) : \A k \in s : k \in Table /\ SoundRows(k.rows)
    BY <2>5, SentSound
  <2>7. tables' \in SUBSET Table /\ \A k \in tables' : SoundRows(k.rows)
    BY <1>1, <2>2, <2>6
  <2>8. tree' \in [Node -> Tree] /\ tree'[0] = tree[0]
    BY <1>1, <2>1, <2>2, <2>3, <2>4 DEF SoundTree
  <2>9. \A b, x \in Cids : tree'[b][x] \in {INVALID, top[x]}
    <3>1. \A b \in Cids : b = c \/ tree'[b] = tree[b]
      BY <1>1, <2>2 DEF Node
    <3>2. tree'[c] = u
      BY <1>1, <2>2, <2>3
    <3> QED BY <1>1, <2>4, <3>1, <3>2 DEF SoundTree, TreesSound
  <2>10. boots' = boots /\ boots' \in 0..MaxBoots /\ losses' \in 0..MaxLosses
         /\ rebuilding' \in SUBSET Cids
    BY <1>1, <2>2 DEF TypeOK
  <2> QED BY <1>1, <1>4, <2>7, <2>8, <2>9, <2>10
<1>7. ASSUME NEW m \in tables, LoseTable(m)  PROVE  TreesInv'
  <2>1. tables' \in SUBSET Table /\ \A k \in tables' : SoundRows(k.rows)
    BY <1>1, <1>7 DEF LoseTable
  <2>2. losses' \in 0..MaxLosses
    BY <1>1, <1>7, LossType DEF LoseTable
  <2>3. boots' = boots /\ tree' = tree /\ rebuilding' = rebuilding
    BY <1>7 DEF LoseTable
  <2>4. \A b, x \in Cids : tree'[b][x] \in {INVALID, top[x]}
    BY <1>1, <2>3 DEF TreesSound
  <2> QED BY <1>1, <1>4, <2>1, <2>2, <2>3, <2>4 DEF TypeOK
<1> QED BY <1>5, <1>6, <1>7

LEMMA TreesStepPackets ==
  ASSUME TreesInv, NEW p \in Packets,
         \/ \E e \in Device : GatewaySends(p, e)
         \/ \E c \in Cids, d \in Node, e \in Device \cup {NoEd} :
              CoordSends(p, c, d, e)
         \/ Step(p)
  PROVE  TreesInv'
<1>1. /\ TypeOK /\ top \in Topologies /\ packet \in [Packets -> Held]
      /\ tree[0] \in {Unknown, Start} /\ (boots > 0 => tree[0] = Start)
      /\ top \in [Device -> Node] /\ NoEd \notin Device
      /\ rebuilding \in SUBSET Cids /\ losses \in 0..MaxLosses
  BY Sizes DEF TreesInv, TypeOK
<1>2. \A r \in Held : [packet EXCEPT ![p] = r] \in [Packets -> Held]
  BY <1>1
<1>3. Done(p, "received") \in [Packets -> Held] /\ Done(p, "lost") \in [Packets -> Held]
  BY <1>2, IdleHeld DEF Done
<1>4. \A x \in Node : x \in 0..63
  BY NodeSmall
<1>5. ASSUME NEW e \in Device, GatewaySends(p, e)  PROVE  TreesInv'
  <2>1. boots > 0 /\ tree[0] = Start /\ 0 \in Node /\ 0 \in 0..63
    BY <1>1, <1>5 DEF GatewaySends, Node
  <2>2. CASE top[e] = 0
    <3>1. GatewaySend(e) \in Held
      BY <2>1, <2>2, ToChildHeld DEF GatewaySend
    <3> QED BY <1>1, <1>2, <1>5, <3>1, PacketStep DEF GatewaySends
  <2>3. CASE top[e] # 0
    <3>1. top[e] \in Cids /\ top[e] \in 0..63 /\ e # NoEd
      BY <1>1, <1>4, <2>3 DEF Node
    <3>2. Towards(0, top[e], top[e], e) \in Held
      BY <1>1, <2>1, <3>1, TowardsHeld
    <3>3. GatewaySend(e) \in Held
      BY <2>3, <3>2 DEF GatewaySend
    <3> QED BY <1>1, <1>2, <1>5, <3>3, PacketStep DEF GatewaySends
  <2> QED BY <2>2, <2>3
<1>6. ASSUME NEW c \in Cids, NEW d \in Node, NEW e \in Device \cup {NoEd},
             CoordSends(p, c, d, e)
      PROVE  TreesInv'
  <2>1. c \in Node /\ c # 0 /\ d \in 0..63
    BY <1>4, Sizes DEF Node
  <2>2. Towards(c, d, d, e) \in Held
    BY <1>1, <2>1, TowardsHeld
  <2> QED BY <1>1, <1>2, <1>6, <2>2, PacketStep DEF CoordSends
<1>7. packet[p].to \in Node /\ packet[p].at \in Node
  <2>1. packet[p] \in Held
    BY <1>1
  <2> QED BY <2>1 DEF Held, Packet
<1>8. ASSUME Neighbours(packet[p].to, packet[p].at)
      PROVE  LINK_route(p, packet[p].to) \in [Packets -> Held]
  <2>1. ASSUME packet[p].to = 0  PROVE  tree[0] = Start
    <3>1. tree[0][packet[p].at] = 0
      BY <1>8, <2>1 DEF Neighbours
    <3>2. 0 # INVALID
      BY Sizes DEF Node
    <3> QED BY <1>1, <1>7, <3>1, <3>2 DEF Unknown
  <2> QED BY <1>7, <2>1, RouteHeld
<1>9. CASE HopSucceeds(p)
  BY <1>1, <1>8, <1>9, PacketStep DEF HopSucceeds, CanTalk
<1>10. ASSUME NEW d, LINK_error_handler_coord(packet[p].at, d)
       PROVE  rebuilding' \in SUBSET Cids
  BY <1>1, <1>7, <1>10, ErrorType
<1>11. CASE HopUnnoticed(p)
  <2>1. losses' \in 0..MaxLosses
    BY <1>1, <1>11, LossType DEF HopUnnoticed
  <2>2. packet' \in [Packets -> Held] /\ UNCHANGED <<top, tree, tables, boots>>
    BY <1>8, <1>11 DEF HopUnnoticed, CanTalk
  <2>3. rebuilding' \in SUBSET Cids
    BY <1>10, <1>11 DEF HopUnnoticed
  <2> QED BY <2>1, <2>2, <2>3, PacketStep
<1>12. CASE HopFails(p)
  <2>1. losses' \in 0..MaxLosses
    BY <1>1, <1>12, LossType DEF HopFails
  <2>2. packet' \in [Packets -> Held] /\ UNCHANGED <<top, tree, tables, boots>>
    BY <1>3, <1>12 DEF HopFails
  <2>3. rebuilding' \in SUBSET Cids
    BY <1>10, <1>12 DEF HopFails
  <2> QED BY <2>1, <2>2, <2>3, PacketStep
<1>13. CASE ChildTakes(p)
  BY <1>1, <1>3, <1>13, PacketStep DEF ChildTakes
<1>14. CASE ChildFails(p)
  <2>1. losses' \in 0..MaxLosses
    BY <1>1, <1>14, LossType DEF ChildFails
  <2>2. packet' \in [Packets -> Held] /\ UNCHANGED <<top, tree, tables, boots>>
    BY <1>3, <1>14 DEF ChildFails
  <2>3. rebuilding' \in SUBSET Cids
    BY <1>10, <1>14 DEF ChildFails
  <2> QED BY <2>1, <2>2, <2>3, PacketStep
<1> QED BY <1>5, <1>6, <1>9, <1>11, <1>12, <1>13, <1>14 DEF Step

LEMMA TreesStep == TreesInv /\ [Next]_vars => TreesInv'
<1> SUFFICES ASSUME TreesInv, [Next]_vars PROVE TreesInv'
  OBVIOUS
<1>1. CASE UNCHANGED vars
  BY <1>1, PacketStep DEF vars, TreesInv, TypeOK
<1>2. CASE Next
  <2>1. CASE NET_init \/ \E m \in tables : NET_process_routing_table(m) \/ LoseTable(m)
    BY <2>1, TreesStepTables
  <2>2. ASSUME NEW p \in Packets,
               \/ \E e \in Device : GatewaySends(p, e)
               \/ \E c \in Cids, d \in Node, e \in Device \cup {NoEd} :
                    CoordSends(p, c, d, e)
               \/ Step(p)
        PROVE  TreesInv'
    BY <2>2, TreesStepPackets
  <2> QED BY <1>2, <2>1, <2>2, Zenon DEF Next
<1> QED BY <1>1, <1>2

(* Every variable has its type.  In particular the next node of a packet   *)
(* exists, whatever tables were lost: the gateway's search for it, which   *)
(* has no end of its own, ends (net.cpp:903-914), and what a coordinator   *)
(* finds is a node, not a missing entry (coord net.c:420-444).             *)
THEOREM TypeCorrect == Spec => []TypeOK
<1>1. TreesInv => TypeOK
  BY DEF TreesInv
<1> QED BY <1>1, TreesInit, TreesStep, PTL DEF Spec

(* No coordinator believes in a parent that the gateway's table does not   *)
(* give, although tables are composed and passed on by coordinators        *)
(* (coord net.c:735-760).                                                  *)
THEOREM TreesCorrect == Spec => []TreesSound
<1>1. TreesInv => TreesSound
  BY DEF TreesInv
<1> QED BY <1>1, TreesInit, TreesStep, PTL DEF Spec

-----------------------------------------------------------------------------
(* Every coordinator learns what is below it, if IDs grow on the way down. *)

(* A table with the rows of all coordinators below the one it goes to.     *)
Complete(m) == \A y \in Cids : IsBelow(y, m.to) => RowOf(y) \in m.rows

(* A coordinator knows all that it should, or a table is on its way to it  *)
(* or to one above it from which all of that can be composed.              *)
Served(c) == Knows(c) \/ \E m \in tables : IsBelow(c, m.to) /\ Complete(m)

CompleteInv ==
  /\ TreesInv
  /\ boots > 0 /\ losses = 0 => \A c \in Cids : Served(c)

(* A tree that knows all that is below a.                                  *)
KnowsBelow(t, a) == \A z \in Cids : IsBelow(z, a) => t[z] = top[z]

(* The search for child x of a from a coordinator below x succeeds.        *)
LEMMA SureBelow ==
  ASSUME top \in Topologies, NEW t, t \in Tree, NEW a, KnowsBelow(t, a),
         NEW x \in Cids, top[x] = a, NEW y \in Cids, IsBelow(y, x)
  PROVE  InSubtree(t, y, x) = {TRUE}
<1> DEFINE C == Climb(top, y)
<1>1. PICK k \in 0..MaxClimb : C[k] = x
  BY DEF IsBelow
<1>2. PICK n \in 1..MaxClimb :
        /\ C[n] = 0
        /\ \A j \in 0..(n - 1) : C[j] \in Cids
        /\ \A j \in (n + 1)..MaxClimb : C[j] = INVALID
  BY RootPath
<1>3. top \in [Device -> Node] /\ t \in [Node -> Node \cup {INVALID}]
  BY DEF Topologies, Tree
<1>4. x # 0 /\ x # INVALID /\ MaxClimb \in Nat
  BY Sizes DEF Node
<1>5. k < n /\ k \in Nat
  <2> HIDE DEF C
  <2>1. k # n
    BY <1>1, <1>2, <1>4
  <2>2. ~(k > n)
    BY <1>1, <1>2, <1>4
  <2> QED BY <1>4, <2>1, <2>2
<1>6. ASSUME NEW j \in 0..(k - 1)
      PROVE  C[j] \in Cids /\ IsBelow(C[j], x)
  <2>1. j \in 0..MaxClimb /\ j \in 0..(n - 1) /\ k - j \in 0..(MaxClimb - j)
        /\ j + (k - j) = k /\ k - j \in 0..MaxClimb
    BY <1>4, <1>5
  <2>2. C[j] \in Cids
    BY <1>2, <2>1
  <2>3. Climb(top, C[j])[k - j] = C[j + (k - j)]
    BY <1>3, <2>1, Shift
  <2>4. Climb(top, C[j])[k - j] = x
    BY <1>1, <2>1, <2>3
  <2> QED BY <2>1, <2>2, <2>4, Zenon DEF IsBelow
<1>7. SameSteps(top, t, y, k)
  <2> SUFFICES ASSUME NEW j \in 0..(k - 1)
               PROVE  Above(top, C[j]) = Above(t, C[j])
    BY DEF SameSteps
  <2>1. C[j] \in Cids /\ IsBelow(C[j], x)
    BY <1>6
  <2>2. IsBelow(C[j], a)
    BY <2>1, BelowUp
  <2> HIDE DEF C
  <2>3. t[C[j]] = top[C[j]]
    BY <2>1, <2>2 DEF KnowsBelow
  <2> QED BY <1>3, <2>1, <2>3 DEF Above, Node, Device
<1>8. SameWay(top, t, y, k)
  BY <1>3, <1>7, Agree
<1>9. Climb(t, y)[k] = x
  BY <1>1, <1>5, <1>8 DEF SameWay
<1> QED BY <1>9, Zenon DEF InSubtree

(* What a node that knows all below it sends serves all below it.          *)
LEMMA SentServes ==
  ASSUME top \in Topologies, NEW a \in Node, NEW t, SoundTree(t),
         KnowsBelow(t, a), NEW rows,
         \A x, y \in Cids : top[x] = a /\ IsBelow(y, x) => RowOf(y) \in rows,
         NEW s \in Sent(t, a, rows),
         NEW y \in Cids, IsBelow(y, a), y # a
  PROVE  \E m \in s : IsBelow(y, m.to) /\ Complete(m)
<1>1. PICK x \in Cids : top[x] = a /\ IsBelow(y, x)
  BY BelowChild
<1>2. IsBelow(x, x) /\ IsBelow(x, a)
  BY <1>1, BelowRoot, BelowUp
<1>3. x \in Children(t, a)
  BY <1>1, <1>2 DEF KnowsBelow, Children
<1>4. PICK m \in s : ForChild(m, t, x, rows)
  BY <1>3, SentTables
<1>5. ASSUME NEW z \in Cids, IsBelow(z, m.to)  PROVE  RowOf(z) \in m.rows
  <2>1. IsBelow(z, x) /\ RowOf(z) \in rows /\ RowOf(z).cid = z
    BY <1>1, <1>4, <1>5 DEF RowOf, ForChild
  <2>2. InSubtree(t, z, x) = {TRUE}
    BY <1>1, <2>1, SureBelow DEF SoundTree
  <2> QED BY <1>4, <2>1, <2>2 DEF ForChild
<1> QED BY <1>1, <1>4, <1>5 DEF Complete, ForChild

(* The parent of a coordinator below x is below x, or the coordinator is x. *)
LEMMA BelowNext ==
  ASSUME top \in Topologies, NEW x \in Cids, NEW y \in Cids, IsBelow(y, x),
         y # x
  PROVE  top[y] \in Cids /\ IsBelow(top[y], x)
<1> DEFINE C == Climb(top, y)
<1>1. PICK k \in 0..MaxClimb : C[k] = x
  BY DEF IsBelow
<1>2. PICK n \in 1..MaxClimb :
        /\ C[n] = 0
        /\ \A j \in 0..(n - 1) : C[j] \in Cids
        /\ \A j \in (n + 1)..MaxClimb : C[j] = INVALID
  BY RootPath
<1>3. top \in [Device -> Node] /\ y \in Device
  BY DEF Topologies, Device
<1>4. ClimbsUp(top, y)
  BY <1>3, ClimbSteps, Zenon
<1>5. C[0] = y /\ \A j \in 1..MaxClimb : C[j] = Above(top, C[j - 1])
  BY <1>4 DEF ClimbsUp
<1>6. \A i \in 0..(MaxClimb - 1) : Climb(top, C[1])[i] = C[1 + i]
  <2>1. 1 \in 0..MaxClimb
    BY Sizes
  <2> QED BY <1>3, <2>1, Shift
<1>7. x # 0 /\ x # INVALID /\ MaxClimb \in Nat
  BY Sizes DEF Node
<1> HIDE DEF C
<1>8. k # 0 /\ k < n
  <2>1. k # 0
    BY <1>1, <1>5
  <2>2. k # n
    BY <1>1, <1>2, <1>7
  <2>3. ~(k > n)
    BY <1>1, <1>2, <1>7
  <2> QED BY <1>7, <2>1, <2>2, <2>3
<1>9. /\ 1 \in 1..MaxClimb /\ 1 \in 0..MaxClimb /\ 1 \in 0..(n - 1)
      /\ k - 1 \in 0..(MaxClimb - 1) /\ 1 + (k - 1) = k /\ k - 1 \in 0..MaxClimb
  BY <1>7, <1>8
<1>10. C[1] = top[y] /\ C[1] \in Cids
  <2>1. C[1] = Above(top, C[1 - 1])
    BY <1>5, <1>9
  <2>2. C[1 - 1] = y
    BY <1>5
  <2> QED BY <1>2, <1>3, <1>9, <2>1, <2>2 DEF Above
<1>11. Climb(top, top[y])[k - 1] = x
  BY <1>1, <1>6, <1>9, <1>10
<1> QED BY <1>9, <1>10, <1>11, Zenon DEF IsBelow

(* A coordinator that knows all below it composes all of these rows.       *)
LEMMA ComposedComplete ==
  ASSUME top \in Topologies, Ordered, NEW c \in Cids, NEW t, SoundTree(t),
         KnowsBelow(t, c), NEW x \in Cids, top[x] = c,
         NEW y \in Cids, IsBelow(y, x)
  PROVE  RowOf(y) \in RTable(t, c)
<1>1. IsBelow(x, x) /\ IsBelow(x, c) /\ IsBelow(y, c)
  BY BelowRoot, BelowUp
<1>2. t[x] = top[x] /\ t[y] = top[y] /\ x \in Children(t, c)
  BY <1>1 DEF KnowsBelow, Children
<1>3. CASE top[y] = c
  BY <1>2, <1>3 DEF RTable, RowOf, Children
<1>4. CASE top[y] # c
  <2>1. y \in Cids \ Children(t, c)
    BY <1>2, <1>4 DEF Children
  <2>2. PICK z \in Cids : top[y] = z /\ IsBelow(z, c) /\ top[z] # 0
    <3>1. y # x
      BY <1>4
    <3>2. top[y] \in Cids /\ IsBelow(top[y], x)
      BY <3>1, BelowNext
    <3>3. IsBelow(top[y], c)
      BY <3>2, BelowUp
    <3>4. top[top[y]] \in Cids
      <4>1. CASE top[y] = x
        BY <4>1
      <4>2. CASE top[y] # x
        BY <3>2, <4>2, BelowNext
      <4> QED BY <4>1, <4>2
    <3>5. 0 \notin Cids
      BY Sizes
    <3> QED BY <3>2, <3>3, <3>4, <3>5
  <2>3. t[y] = z /\ t[z] = top[z]
    BY <1>2, <2>2 DEF KnowsBelow
  <2>4. z # INVALID /\ x <= y
    BY BelowAbove, Sizes DEF Node
  <2>5. y \in {i \in Cids \ Children(t, c) :
                 /\ t[i] # INVALID /\ t[t[i]] # 0
                 /\ \E j \in Children(t, c) : j <= i}
    BY <1>2, <2>1, <2>2, <2>3, <2>4
  <2>6. RowOf(y) = [cid |-> y, parent |-> t[y]]
    BY <1>2 DEF RowOf
  <2> QED BY <2>5, <2>6 DEF RTable
<1> QED BY <1>3, <1>4

(* A table with one row has only one.                                      *)
LEMMA SingleRow ==
  ASSUME NEW rows \in SUBSET Row, Cardinality(rows) = 1,
         NEW q \in rows, NEW r \in rows
  PROVE  q = r
<1> DEFINE f == [z \in Cids \X Node |-> [cid |-> z[1], parent |-> z[2]]]
<1>1. f \in Surjection(Cids \X Node, Row)
  <2>1. f \in [Cids \X Node -> Row]
    BY DEF Row
  <2>2. ASSUME NEW w \in Row  PROVE  \E z \in Cids \X Node : f[z] = w
    <3>1. w.cid \in Cids /\ w.parent \in Node /\ w = [cid |-> w.cid, parent |-> w.parent]
      BY DEF Row
    <3>2. <<w.cid, w.parent>> \in Cids \X Node
      BY <3>1
    <3>3. f[<<w.cid, w.parent>>] = w
      BY <3>1, <3>2
    <3> QED BY <3>2, <3>3, Zenon
  <2> HIDE DEF f
  <2> QED BY <2>1, <2>2 DEF Surjection
<1> HIDE DEF f
<1>2. IsFiniteSet(Cids \X Node)
  BY RoutingAssumption, Sizes, FS_Product, Zenon
<1>3. IsFiniteSet(Row)
  BY <1>1, <1>2, FS_Surjection, Zenon
<1>4. IsFiniteSet(rows)
  BY <1>3, FS_Subset
<1>5. \E w : rows = {w}
  BY <1>4, FS_Singleton
<1> QED BY <1>5

LEMMA CompleteStepSend ==
  ASSUME CompleteInv, Ordered, losses' = 0, NET_init
  PROVE  \A c \in Cids : Served(c)'
<1> DEFINE rows == {[cid |-> x, parent |-> top[x]] : x \in Cids}
<1>1. top \in Topologies /\ TypeOK /\ 0 \in Node /\ 0 \notin Cids
  BY Sizes DEF CompleteInv, TreesInv, Node
<1>2. PICK s \in Sent(Start, 0, rows) : tables' = tables \cup s
  BY DEF NET_init, Start
<1>3. top' = top
  BY DEF NET_init
<1>4. SoundTree(Start) /\ KnowsBelow(Start, 0)
  BY <1>1, StartSound DEF KnowsBelow
<1>5. \A x, y \in Cids : top[x] = 0 /\ IsBelow(y, x) => RowOf(y) \in rows
  BY DEF RowOf
<1> HIDE DEF rows
<1>6. ASSUME NEW c \in Cids  PROVE  \E m \in s : IsBelow(c, m.to) /\ Complete(m)
  <2>1. IsBelow(c, 0) /\ c # 0
    BY <1>1, BelowRoot
  <2> QED BY <1>1, <1>4, <1>5, <2>1, SentServes
<1>7. \A x, y : IsBelow(x, y)' = IsBelow(x, y)
  BY <1>3 DEF IsBelow
<1>8. \A m : Complete(m)' = Complete(m)
  BY <1>3, <1>7 DEF Complete, RowOf
<1> QED BY <1>2, <1>6, <1>7, <1>8 DEF Served

LEMMA CompleteStepLearn ==
  ASSUME CompleteInv, Ordered, boots > 0, losses = 0,
         NEW m \in tables, NET_process_routing_table(m)
  PROVE  \A c \in Cids : Served(c)'
<1> DEFINE a == m.to
           u == Learnt(tree[a], m.rows)
<1>1. /\ top \in Topologies /\ TypeOK /\ TreesSound
      /\ m \in Table /\ SoundRows(m.rows) /\ m.rows \in SUBSET Row
      /\ a \in Cids /\ a \in Node
      /\ \A c \in Cids : Served(c)
  BY DEF CompleteInv, TreesInv, TypeOK, Table, Node
<1>2. top' = top /\ tree' = [tree EXCEPT ![a] = u]
  BY DEF NET_process_routing_table, Learnt
<1>3. \/ Cardinality(m.rows) = 1 /\ tables' = tables \ {m}
      \/ \E s \in Sent(u, a, RTable(u, a)) : tables' = (tables \ {m}) \cup s
  BY DEF NET_process_routing_table, Learnt
<1>4. SoundTree(tree[a]) /\ tree \in [Node -> Tree]
  BY <1>1 DEF SoundTree, TreesSound, TypeOK, Tree
<1>5. /\ SoundTree(u)
      /\ \A r \in m.rows : u[r.cid] = top[r.cid]
      /\ \A x \in Cids : tree[a][x] = top[x] => u[x] = top[x]
  BY <1>1, <1>4, LearntSound
<1> HIDE DEF a, u
<1>6. tree'[a] = u /\ \A c \in Cids : c # a => tree'[c] = tree[c]
  BY <1>1, <1>2, <1>4 DEF Node
<1>7. \A x, y : IsBelow(x, y)' = IsBelow(x, y)
  BY <1>2 DEF IsBelow
<1>8. \A k : Complete(k)' = Complete(k)
  BY <1>2, <1>7 DEF Complete, RowOf
<1>9. \A k \in tables : k = m \/ k \in tables'
  BY <1>3
<1> SUFFICES ASSUME NEW c \in Cids PROVE Served(c)'
  OBVIOUS
<1>10. CASE Knows(c)
  <2>1. \A x \in Cids : tree[c][x] = top[x] => tree'[c][x] = top[x]
    BY <1>5, <1>6
  <2>2. Knows(c)'
    BY <1>2, <1>7, <1>10, <2>1 DEF Knows
  <2> QED BY <2>2 DEF Served
<1>11. ASSUME NEW k \in tables, k # m, IsBelow(c, k.to), Complete(k)
       PROVE  Served(c)'
  BY <1>7, <1>8, <1>9, <1>11 DEF Served
<1>12. ASSUME IsBelow(c, a), Complete(m)
       PROVE  Served(c)'
  <2>1. \A y \in Cids : IsBelow(y, a) => RowOf(y) \in m.rows
    BY <1>12 DEF Complete, a
  <2>2. KnowsBelow(u, a)
    BY <1>5, <2>1 DEF KnowsBelow, RowOf
  <2>3. CASE c = a
    <3>1. Knows(c)'
      BY <1>2, <1>6, <1>7, <2>2, <2>3 DEF Knows, KnowsBelow
    <3> QED BY <3>1 DEF Served
  <2>4. CASE c # a
    <3>1. Cardinality(m.rows) # 1
      <4>1. RowOf(c) \in m.rows /\ RowOf(a) \in m.rows
        BY <1>1, <1>12, <2>1, BelowRoot
      <4>2. RowOf(c) # RowOf(a)
        BY <2>4 DEF RowOf
      <4> QED BY <1>1, <4>1, <4>2, SingleRow
    <3>2. PICK s \in Sent(u, a, RTable(u, a)) : tables' = (tables \ {m}) \cup s
      BY <1>3, <3>1
    <3>3. \A x, y \in Cids : top[x] = a /\ IsBelow(y, x) => RowOf(y) \in RTable(u, a)
      BY <1>1, <1>5, <2>2, ComposedComplete
    <3>4. \E k \in s : IsBelow(c, k.to) /\ Complete(k)
      BY <1>1, <1>5, <1>12, <2>2, <2>4, <3>3, SentServes
    <3> QED BY <1>7, <1>8, <3>2, <3>4 DEF Served
  <2> QED BY <2>3, <2>4
<1>13. Served(c)
  BY <1>1
<1> QED BY <1>10, <1>11, <1>12, <1>13 DEF Served, a

LEMMA CompleteStep ==
  ASSUME CompleteInv, Ordered, [Next]_vars
  PROVE  CompleteInv'
<1>1. TreesInv' /\ TypeOK /\ losses \in Nat
  BY TreesStep, RoutingAssumption DEF CompleteInv, TreesInv, TypeOK
<1> SUFFICES ASSUME boots' > 0, losses' = 0 PROVE \A c \in Cids : Served(c)'
  BY <1>1 DEF CompleteInv
<1>2. CASE UNCHANGED <<top, tree, tables, boots>> /\ losses = 0
  <2>1. \A c \in Cids : Served(c)
    BY <1>2 DEF CompleteInv
  <2>2. \A x, y : IsBelow(x, y)' = IsBelow(x, y)
    BY <1>2 DEF IsBelow
  <2>3. \A c : Knows(c)' = Knows(c)
    BY <1>2, <2>2 DEF Knows
  <2>4. \A m : Complete(m)' = Complete(m)
    BY <1>2, <2>2 DEF Complete, RowOf
  <2> QED BY <1>2, <2>1, <2>2, <2>3, <2>4 DEF Served
<1>3. CASE UNCHANGED vars
  BY <1>2, <1>3 DEF vars
<1>4. CASE NET_init
  BY <1>4, CompleteStepSend
<1>5. ASSUME NEW m \in tables, NET_process_routing_table(m)
      PROVE  \A c \in Cids : Served(c)'
  <2>1. boots > 0 /\ losses = 0
    BY <1>5 DEF NET_process_routing_table
  <2> QED BY <1>5, <2>1, CompleteStepLearn
<1>6. \A m \in tables : ~LoseTable(m)
  BY <1>1 DEF LoseTable
<1>7. ASSUME NEW p \in Packets,
             \/ \E e \in Device : GatewaySends(p, e)
             \/ \E c \in Cids, d \in Node, e \in Device \cup {NoEd} :
                  CoordSends(p, c, d, e)
             \/ Step(p)
      PROVE  \A c \in Cids : Served(c)'
  <2>1. UNCHANGED <<top, tree, tables, boots>>
    BY <1>7, Zenon DEF GatewaySends, CoordSends, Step, HopSucceeds, HopFails,
                       HopUnnoticed, ChildTakes, ChildFails
  <2>2. losses' = losses \/ losses' = losses + 1
    BY <1>7, Zenon DEF GatewaySends, CoordSends, Step, HopSucceeds, HopFails,
                       HopUnnoticed, ChildTakes, ChildFails
  <2>3. losses = 0
    BY <1>1, <2>2
  <2> QED BY <1>2, <2>1, <2>3
<1> QED BY <1>3, <1>4, <1>5, <1>6, <1>7, Zenon DEF Next

(* If IDs grow on the way down the tree, as they do until one is freed and *)
(* given out anew, then every coordinator knows all that is below it once  *)
(* the tables have arrived and none was lost (coord net.h:71): the rows    *)
(* that coord net.c:735-760 leaves out, and the tables that a coordinator  *)
(* does not pass on, are missed by nobody.                                 *)
THEOREM TablesCorrect == Ordered => (Spec => []TablesComplete)
<1> SUFFICES ASSUME Ordered PROVE Spec => []TablesComplete
  OBVIOUS
<1>1. Init => CompleteInv
  <2>1. Init => boots = 0
    BY DEF Init
  <2> QED BY <2>1, TreesInit DEF CompleteInv
<1>2. CompleteInv /\ [Next]_vars => CompleteInv'
  BY CompleteStep
<1>3. CompleteInv => TablesComplete
  <2> SUFFICES ASSUME CompleteInv, boots > 0, tables = {}, losses = 0
               PROVE  AllKnown
    BY DEF TablesComplete
  <2>1. \A c \in Cids : Knows(c)
    BY DEF CompleteInv, Served
  <2>2. tree[0] = Start /\ 0 \in Node
    BY DEF CompleteInv, TreesInv, Node
  <2>3. tree[0][0] = 0
    BY <2>2 DEF Start
  <2> QED BY <2>1, <2>3 DEF AllKnown
<1> QED BY <1>1, <1>2, <1>3, PTL DEF Spec

-----------------------------------------------------------------------------
(* The search for the next coordinator.                                    *)

(* The search of coordinator c from d meets c, the gateway or an entry     *)
(* that is missing.                                                        *)
SearchEnds ==
  \A c, d \in Cids : \E k \in 0..MaxClimb :
    Climb(tree[c], d)[k] \in {c, 0, INVALID}

(* get_next_coord of a coordinator, a loop with no bound of its own (coord *)
(* net.c:430-440), never goes round in a circle within one tree: however   *)
(* many tables were lost, what is left of the tree has no circle.          *)
THEOREM SearchCorrect == Spec => []SearchEnds
<1>1. TreesInv => SearchEnds
  <2> SUFFICES ASSUME TreesInv, NEW c \in Cids, NEW d \in Cids
               PROVE  \E k \in 0..MaxClimb :
                        Climb(tree[c], d)[k] \in {c, 0, INVALID}
    BY DEF SearchEnds
  <2> DEFINE C == Climb(top, d)
             B == Climb(tree[c], d)
  <2>1. /\ top \in Topologies /\ top \in [Device -> Node] /\ Cids \subseteq Device
        /\ tree[c] \in [Node -> Node \cup {INVALID}]
        /\ \A x \in Cids : tree[c][x] \in {INVALID, top[x]} /\ x \in Node
    BY DEF TreesInv, TypeOK, TreesSound, Node, Device
  <2>2. PICK n \in 1..MaxClimb : C[n] = 0 /\ \A j \in 0..(n - 1) : C[j] \in Cids
    BY <2>1, RootPath
  <2>3. ClimbsUp(top, d) /\ ClimbsUp(tree[c], d)
    BY <2>1, ClimbSteps, Zenon
  <2>4. /\ C[0] = d /\ B[0] = d
        /\ \A k \in 1..MaxClimb : C[k] = Above(top, C[k - 1])
        /\ \A k \in 1..MaxClimb : B[k] = Above(tree[c], B[k - 1])
    BY <2>3 DEF ClimbsUp
  <2> HIDE DEF C, B
  <2> DEFINE P == {j \in 0..n : B[j] = C[j] \/ \E i \in 0..j : B[i] = INVALID}
  <2>5. n \in Nat /\ MaxClimb \in Nat
    BY Sizes
  <2>6. 0 \in P
    BY <2>4, <2>5
  <2>7. ASSUME NEW j \in 1..n, j - 1 \in P  PROVE  j \in P
    <3>1. CASE \E i \in 0..(j - 1) : B[i] = INVALID
      BY <2>5, <3>1
    <3>2. CASE B[j - 1] = C[j - 1]
      <4>1. j - 1 \in 0..(n - 1) /\ j \in 1..MaxClimb /\ j \in 0..n /\ j \in 0..j
        BY <2>5
      <4>2. C[j - 1] \in Cids /\ C[j] = top[C[j - 1]] /\ B[j] = tree[c][C[j - 1]]
        BY <2>1, <2>2, <2>4, <3>2, <4>1 DEF Above
      <4>3. B[j] = INVALID \/ B[j] = C[j]
        BY <2>1, <4>2
      <4> QED BY <4>1, <4>3
    <3> QED BY <2>7, <3>1, <3>2
  <2>8. P = 0..n
    <3>1. P \in SUBSET (0..n)
      OBVIOUS
    <3> HIDE DEF P
    <3> QED BY <2>5, <2>6, <2>7, <3>1, UpTo
  <2>9. B[n] = 0 \/ \E i \in 0..n : B[i] = INVALID
    <3>1. n \in P
      BY <2>5, <2>8
    <3> QED BY <2>2, <3>1
  <2>10. n \in 0..MaxClimb /\ \A i \in 0..n : i \in 0..MaxClimb
    BY <2>5
  <2> QED BY <2>9, <2>10 DEF B
<1> QED BY <1>1, TreesInit, TreesStep, PTL DEF Spec
=============================================================================
