--------------------------- MODULE PanJoin_proofs ---------------------------
(***************************************************************************)
(* Proofs about the device table of the gateway, its file and its routing  *)
(* tree, for any devices, any sizes of the table and of join_info and any  *)
(* number of saves that fail.                                              *)
(***************************************************************************)
EXTENDS PanJoin, NaturalsInduction, WellFoundedInduction, FiniteSetTheorems,
        TLAPS

-----------------------------------------------------------------------------
(* Induction.  The induction rules of the library take a predicate, the    *)
(* ones here a set.                                                        *)

(* A set of natural numbers that is not empty has a least element.         *)
LEMMA Least ==
  ASSUME NEW T \in SUBSET Nat, T # {}
  PROVE  \E n \in T : \A m \in T : n <= m
<1> DEFINE Less == OpToRel(<, Nat)
<1>1. IsWellFoundedOn(Less, Nat)
  BY NatLessThanWellFounded, Zenon
<1>2. \A x, y \in Nat : x < y => <<x, y>> \in Less
  BY Zenon DEF OpToRel
<1> HIDE DEF Less
<1>3. PICK n \in T : \A m \in T : <<m, n>> \notin Less
  BY <1>1, WFMin, Zenon
<1>4. \A m \in T : ~(m < n)
  BY <1>2, <1>3
<1> QED BY <1>3, <1>4

(* What holds at 0 and goes on from each number to the next holds up to n. *)
LEMMA UpTo ==
  ASSUME NEW n \in Nat, NEW P \in SUBSET (0..n),
         0 \in P, \A i \in 1..n : i - 1 \in P => i \in P
  PROVE  P = 0..n
<1> SUFFICES ASSUME (0..n) \ P # {} PROVE FALSE
  OBVIOUS
<1>1. PICK k \in (0..n) \ P : \A m \in (0..n) \ P : k <= m
  <2>1. (0..n) \ P \in SUBSET Nat
    OBVIOUS
  <2> QED BY <2>1, Least
<1>2. k \in 1..n /\ k - 1 \in P
  BY <1>1
<1> QED BY <1>1, <1>2

(* There is a sequence of values that begins with d and goes on by the     *)
(* given steps.                                                            *)
LEMMA Iterates ==
  ASSUME NEW D, NEW d \in D, NEW n \in Nat, NEW step \in [1..n -> [D -> D]]
  PROVE  \E f \in [0..n -> D] : /\ f[0] = d
                                /\ \A i \in 1..n : f[i] = step[i][f[i - 1]]
<1> DEFINE Reaches(k, f) == /\ f \in [0..k -> D]
                            /\ f[0] = d
                            /\ \A i \in 1..k : f[i] = step[i][f[i - 1]]
           P == {k \in 0..n : \E f : Reaches(k, f)}
<1>1. 0 \in P
  <2>1. Reaches(0, [i \in 0..0 |-> d])
    OBVIOUS
  <2>2. 0 \in 0..n
    OBVIOUS
  <2> HIDE DEF Reaches
  <2> QED BY <2>1, <2>2
<1>2. ASSUME NEW k \in 1..n, k - 1 \in P PROVE k \in P
  <2>1. PICK f : Reaches(k - 1, f)
    BY <1>2
  <2> DEFINE g == [i \in 0..k |-> IF i = k THEN step[k][f[k - 1]] ELSE f[i]]
  <2>2. f[k - 1] \in D /\ step[k] \in [D -> D]
    BY <2>1
  <2>3. step[k][f[k - 1]] \in D
    BY <2>2
  <2>4. \A i \in 0..(k - 1) : g[i] = f[i] /\ f[i] \in D
    BY <2>1
  <2>5. g \in [0..k -> D]
    <3>1. \A i \in 0..k : i = k \/ i \in 0..(k - 1)
      OBVIOUS
    <3>2. g[k] \in D
      BY <2>3
    <3>3. \A i \in 0..k : g[i] \in D
      BY <2>4, <3>1, <3>2
    <3> QED BY <3>3
  <2>6. \A i \in 1..k : g[i] = step[i][g[i - 1]]
    BY <2>1, <2>4
  <2>7. g[0] = d
    BY <2>1, <2>4
  <2>8. Reaches(k, g)
    BY <2>5, <2>6, <2>7
  <2> HIDE DEF Reaches
  <2> QED BY <2>8
<1>3. P = 0..n
  <2> HIDE DEF P
  <2>1. P \in SUBSET (0..n)
    BY DEF P
  <2> QED BY <1>1, <1>2, <2>1, UpTo
<1>4. PICK f : Reaches(n, f)
  <2>1. n \in P
    BY <1>3
  <2> QED BY <2>1
<1> QED BY <1>4

(* The least and the greatest element of a set.                            *)
LEMMA MinIn ==
  ASSUME NEW T \in SUBSET Nat, T # {}
  PROVE  Min(T) \in T
BY Least DEF Min

LEMMA MaxIn ==
  ASSUME NEW n \in Nat, NEW T \in SUBSET (0..n), T # {}
  PROVE  Max(T) \in T
<1> DEFINE U == {k \in Nat : \E x \in T : k = n - x}
<1>1. U \in SUBSET Nat /\ U # {}
  <2>1. PICK x \in T : TRUE
    OBVIOUS
  <2>2. n - x \in U
    OBVIOUS
  <2> QED BY <2>2
<1>2. PICK k \in U : \A m \in U : k <= m
  <2> HIDE DEF U
  <2> QED BY <1>1, Least
<1>3. PICK x \in T : k = n - x
  BY <1>2
<1>4. \A y \in T : x >= y
  <2> SUFFICES ASSUME NEW y \in T PROVE x >= y
    OBVIOUS
  <2>1. n - y \in U
    OBVIOUS
  <2>2. n - x <= n - y
    BY <1>2, <1>3, <2>1
  <2> QED BY <2>2
<1>5. \E z \in T : \A y \in T : z >= y
  BY <1>3, <1>4
<1> HIDE DEF U
<1> QED BY <1>5, Zenon DEF Max

-----------------------------------------------------------------------------
(* The loop that writes the table to the file.                             *)

Table == [Slot -> Entry]

LEMMA Sizes ==
  /\ MaxCoord \in Nat /\ MaxCoord >= 2 /\ MaxCoord <= 255
  /\ MaxDevices \in Nat /\ MaxDevices >= MaxCoord
  /\ MaxJoin \in Nat /\ MaxJoin >= 1
  /\ INVALID_CID = 255 /\ INVALID_CID \notin Cid
  /\ PAN = 0 /\ PAN \in Cid /\ 1 \in Cid
  /\ Cid \subseteq Nat /\ Slot \subseteq Nat /\ JoinSlot \subseteq Nat
  /\ Cid \subseteq Slot /\ Scanned = Cid
BY PanJoinAssumption DEF INVALID_CID, PAN, Cid, Slot, JoinSlot, Scanned

LEMMA FreeType == Free \in Entry /\ Free.edid = NoDevice /\ ~Free.coord
BY Sizes DEF Free, Entry

(* One step of the loop, for slot k - 1.                                   *)
SaveStep(dev, k, s) ==
  IF dev[k - 1].edid = NoDevice THEN s ELSE Append(s, dev[k - 1])

(* The loop is well defined, and each of its steps leads from a sequence   *)
(* of records to a sequence of records.                                    *)
LEMMA SaveLoop ==
  ASSUME NEW dev \in Table
  PROVE  \E f \in [0..MaxCoord -> Seq(Entry)] :
           /\ f[0] = <<>>
           /\ \A k \in 1..MaxCoord : f[k] = SaveStep(dev, k, f[k - 1])
           /\ Saved(dev) = f[MaxCoord]
<1> DEFINE step == [k \in 1..MaxCoord |->
                      [s \in Seq(Entry) |-> SaveStep(dev, k, s)]]
           Loops(g) == g = [k \in 0..MaxCoord |->
                              IF k = 0 THEN <<>> ELSE SaveStep(dev, k, g[k - 1])]
           F == CHOOSE g : Loops(g)
<1>0. MaxCoord \in Nat
  BY Sizes
<1>1. \A k \in 1..MaxCoord, s \in Seq(Entry) : SaveStep(dev, k, s) \in Seq(Entry)
  <2> SUFFICES ASSUME NEW k \in 1..MaxCoord, NEW s \in Seq(Entry)
               PROVE  SaveStep(dev, k, s) \in Seq(Entry)
    OBVIOUS
  <2>1. k - 1 \in Slot
    BY Sizes DEF Slot
  <2>2. dev[k - 1] \in Entry
    BY <2>1 DEF Table
  <2> QED BY <2>2 DEF SaveStep
<1>2. step \in [1..MaxCoord -> [Seq(Entry) -> Seq(Entry)]]
  BY <1>1
<1>3. PICK f \in [0..MaxCoord -> Seq(Entry)] :
        f[0] = <<>> /\ \A k \in 1..MaxCoord : f[k] = step[k][f[k - 1]]
  <2> DEFINE S == Seq(Entry)
  <2>1. <<>> \in S /\ step \in [1..MaxCoord -> [S -> S]]
    BY <1>2
  <2> HIDE DEF step, S
  <2>2. \E f \in [0..MaxCoord -> S] :
          f[0] = <<>> /\ \A k \in 1..MaxCoord : f[k] = step[k][f[k - 1]]
    BY <1>0, <2>1, Iterates
  <2> QED BY <2>2 DEF S
<1>4. ASSUME NEW k \in 1..MaxCoord PROVE f[k] = SaveStep(dev, k, f[k - 1])
  <2>1. f[k - 1] \in Seq(Entry)
    BY <1>0
  <2>2. \A j \in 1..MaxCoord, s \in Seq(Entry) : step[j][s] = SaveStep(dev, j, s)
    OBVIOUS
  <2> HIDE DEF step
  <2> QED BY <1>3, <2>1, <2>2
<1>5. Loops(f)
  BY <1>0, <1>3, <1>4
<1>6. Loops(F)
  <2> HIDE DEF Loops
  <2> QED BY <1>5
<1>7. Saved(dev) = F[MaxCoord]
  BY Zenon DEF Saved, SaveStep
<1>8. /\ F[0] = <<>>
      /\ \A k \in 1..MaxCoord : F[k] = SaveStep(dev, k, F[k - 1])
  <2> HIDE DEF F
  <2> QED BY <1>0, <1>6
<1>9. \A k \in 0..MaxCoord : F[k] \in Seq(Entry)
  <2> DEFINE P == {k \in 0..MaxCoord : F[k] \in Seq(Entry)}
  <2> HIDE DEF F
  <2>1. 0 \in P
    <3>1. F[0] \in Seq(Entry)
      BY <1>8
    <3>2. 0 \in 0..MaxCoord
      BY <1>0
    <3> QED BY <3>1, <3>2
  <2>2. ASSUME NEW k \in 1..MaxCoord, k - 1 \in P PROVE k \in P
    <3>1. F[k - 1] \in Seq(Entry)
      BY <2>2
    <3>2. F[k] \in Seq(Entry)
      BY <1>1, <1>8, <3>1
    <3> QED BY <1>0, <3>2
  <2>3. P = 0..MaxCoord
    <3> HIDE DEF P
    <3>1. P \in SUBSET (0..MaxCoord)
      BY DEF P
    <3> QED BY <1>0, <2>1, <2>2, <3>1, UpTo
  <2> QED BY <2>3
<1>10. F \in [0..MaxCoord -> Seq(Entry)]
  <2> HIDE DEF F
  <2>1. F = [k \in 0..MaxCoord |-> F[k]]
    BY <1>6
  <2> QED BY <1>9, <2>1
<1> HIDE DEF F
<1> QED BY <1>7, <1>8, <1>10

(* What the loop has written after k slots: the records in use of these    *)
(* slots, in the order of the slots.                                       *)
Written(dev, k, s) ==
  /\ s \in Seq(Entry) /\ Len(s) <= k
  /\ \E place \in [1..Len(s) -> 0..k - 1] :
       /\ \A i \in 1..Len(s) : /\ dev[place[i]].edid # NoDevice
                               /\ s[i] = dev[place[i]]
       /\ \A i, j \in 1..Len(s) : i < j => place[i] < place[j]

LEMMA WrittenAt ==
  ASSUME NEW dev, NEW k \in Nat, NEW s \in Seq(Entry), Len(s) <= k,
         NEW place \in [1..Len(s) -> 0..k - 1],
         \A i \in 1..Len(s) : dev[place[i]].edid # NoDevice /\ s[i] = dev[place[i]],
         \A i, j \in 1..Len(s) : i < j => place[i] < place[j]
  PROVE  Written(dev, k, s)
BY Zenon DEF Written

LEMMA WrittenStep ==
  ASSUME NEW dev \in Table, NEW k \in 1..MaxCoord, NEW s, Written(dev, k - 1, s)
  PROVE  Written(dev, k, SaveStep(dev, k, s))
<1> DEFINE n == Len(s)
           Places(m, p) == p \in [1..n -> 0..m - 1]
           Copies(p) == \A i \in 1..n : /\ dev[p[i]].edid # NoDevice
                                        /\ s[i] = dev[p[i]]
           Grows(p) == \A i, j \in 1..n : i < j => p[i] < p[j]
<1>1. PICK place : Places(k - 1, place) /\ Copies(place) /\ Grows(place)
  BY DEF Written
<1>2. s \in Seq(Entry) /\ n \in Nat /\ n <= k - 1 /\ k \in Nat
  BY Sizes DEF Written
<1>3. \A i \in 1..n : place[i] \in 0..k - 1 /\ place[i] < k - 1
  BY <1>1, <1>2
<1>4. CASE dev[k - 1].edid = NoDevice
  <2>1. place \in [1..n -> 0..k - 1]
    BY <1>1, <1>3
  <2>2. Written(dev, k, s)
    BY <1>1, <1>2, <2>1 DEF Written
  <2> QED BY <1>4, <2>2 DEF SaveStep
<1>5. CASE dev[k - 1].edid # NoDevice
  <2> DEFINE t == Append(s, dev[k - 1])
             q == [i \in 1..n + 1 |-> IF i = n + 1 THEN k - 1 ELSE place[i]]
  <2>1. dev[k - 1] \in Entry
    BY Sizes DEF Table, Slot
  <2>2. t \in Seq(Entry) /\ Len(t) = n + 1 /\ t[n + 1] = dev[k - 1]
    BY <1>2, <2>1
  <2>3. \A i \in 1..n : t[i] = s[i]
    BY <1>2, <2>1
  <2>4. \A i \in 1..n + 1 : i = n + 1 \/ i \in 1..n
    BY <1>2
  <2>5. q[n + 1] = k - 1 /\ \A i \in 1..n : q[i] = place[i]
    BY <1>2
  <2>6. q \in [1..n + 1 -> 0..k - 1]
    BY <1>2, <1>3, <2>4
  <2> HIDE DEF t, q
  <2>7. \A i \in 1..n + 1 : dev[q[i]].edid # NoDevice /\ t[i] = dev[q[i]]
    BY <1>1, <1>5, <2>2, <2>3, <2>4, <2>5
  <2>8. \A i, j \in 1..n + 1 : i < j => q[i] < q[j]
    <3> SUFFICES ASSUME NEW i \in 1..n + 1, NEW j \in 1..n + 1, i < j
                 PROVE  q[i] < q[j]
      OBVIOUS
    <3>1. i \in 1..n
      BY <1>2
    <3>2. CASE j = n + 1
      BY <1>3, <2>5, <3>1, <3>2
    <3>3. CASE j \in 1..n
      BY <1>1, <2>5, <3>1, <3>3
    <3> QED BY <2>4, <3>2, <3>3
  <2>9. Written(dev, k, t)
    <3>1. Len(t) <= k
      BY <1>2, <2>2
    <3> QED BY <1>2, <2>2, <2>6, <2>7, <2>8, <3>1, WrittenAt
  <2> QED BY <1>5, <2>9 DEF SaveStep, t
<1> QED BY <1>4, <1>5

(* The file has the records in use of the slots that are saved, in the     *)
(* order of the slots.                                                     *)
LEMMA SavedPlaces ==
  ASSUME NEW dev \in Table
  PROVE  Written(dev, MaxCoord, Saved(dev))
<1>1. PICK f \in [0..MaxCoord -> Seq(Entry)] :
        /\ f[0] = <<>>
        /\ \A k \in 1..MaxCoord : f[k] = SaveStep(dev, k, f[k - 1])
        /\ Saved(dev) = f[MaxCoord]
  BY SaveLoop
<1> DEFINE P == {k \in 0..MaxCoord : Written(dev, k, f[k])}
<1>2. MaxCoord \in Nat
  BY Sizes
<1>3. 0 \in P
  <2> DEFINE s == <<>>
             none == [i \in 1..0 |-> 0]
  <2>1. s \in Seq(Entry) /\ Len(s) = 0 /\ s = <<>>
    OBVIOUS
  <2>2. none \in [1..0 -> 0..0 - 1]
    OBVIOUS
  <2> HIDE DEF s, none
  <2>3. none \in [1..Len(s) -> 0..0 - 1] /\ Len(s) <= 0 /\ 1..Len(s) = {}
    BY <2>1, <2>2
  <2>4. Written(dev, 0, s)
    BY <2>1, <2>3, WrittenAt
  <2> QED BY <1>1, <1>2, <2>1, <2>4
<1>4. ASSUME NEW k \in 1..MaxCoord, k - 1 \in P PROVE k \in P
  <2>1. Written(dev, k - 1, f[k - 1])
    BY <1>4
  <2>2. Written(dev, k, SaveStep(dev, k, f[k - 1]))
    BY <2>1, WrittenStep
  <2> QED BY <1>1, <1>2, <2>2
<1>5. P = 0..MaxCoord
  <2> HIDE DEF P
  <2>1. P \in SUBSET (0..MaxCoord)
    BY DEF P
  <2> QED BY <1>2, <1>3, <1>4, <2>1, UpTo
<1>6. MaxCoord \in P
  BY <1>2, <1>5
<1> QED BY <1>1, <1>6

-----------------------------------------------------------------------------
(* Sound tables and sound files.                                           *)

(* The coordinators with slots of the table of which CIDs are told apart.  *)
Numbered(dev, S) == {i \in S : dev[i].coord /\ dev[i].cid \in Cid}

(* A table that is sound: only records in use are those of coordinators,   *)
(* no device is listed twice and no CID, the first slot not counted.       *)
SoundTable(dev) ==
  /\ dev \in Table
  /\ \A i \in Slot : dev[i].coord => dev[i].edid # NoDevice
  /\ \A i, j \in Used(dev) : dev[i].edid = dev[j].edid => i = j
  /\ \A i, j \in Numbered(dev, Used(dev) \ {0}) :
       dev[i].cid = dev[j].cid => i = j

(* A file that is sound: so is the table that is made of it.               *)
SoundFile(f) ==
  /\ f \in Seq(Entry) /\ Len(f) <= MaxCoord
  /\ \A i \in 1..Len(f) : f[i].edid # NoDevice
  /\ \A i, j \in 1..Len(f) : f[i].edid = f[j].edid => i = j
  /\ \A i, j \in Numbered(f, 2..Len(f)) : f[i].cid = f[j].cid => i = j

LEMMA SavedSound ==
  ASSUME NEW dev, SoundTable(dev)
  PROVE  SoundFile(Saved(dev))
<1> DEFINE f == Saved(dev)
           n == Len(f)
<1>1. dev \in Table
  BY DEF SoundTable
<1>2. Written(dev, MaxCoord, f)
  BY <1>1, SavedPlaces
<1>3. f \in Seq(Entry) /\ n <= MaxCoord /\ n \in Nat
  BY <1>2 DEF Written
<1> HIDE DEF f
<1>4. PICK place \in [1..n -> 0..MaxCoord - 1] :
        /\ \A i \in 1..n : dev[place[i]].edid # NoDevice /\ f[i] = dev[place[i]]
        /\ \A i, j \in 1..n : i < j => place[i] < place[j]
  BY <1>2 DEF Written
<1>5. \A i \in 1..n : place[i] \in Used(dev) /\ place[i] \in Nat
  BY <1>4, Sizes DEF Used, Scanned, Cid
<1>6. \A i, j \in 1..n : place[i] = place[j] => i = j
  <2> SUFFICES ASSUME NEW i \in 1..n, NEW j \in 1..n, place[i] = place[j], i # j
               PROVE  FALSE
    OBVIOUS
  <2>1. i < j \/ j < i
    BY <1>3
  <2> QED BY <1>4, <1>5, <2>1
<1>7. \A i \in 2..n : place[i] # 0
  <2> SUFFICES ASSUME NEW i \in 2..n PROVE place[i] # 0
    OBVIOUS
  <2>1. 1 \in 1..n /\ i \in 1..n /\ 1 < i
    BY <1>3
  <2>2. place[1] < place[i] /\ place[1] \in Nat /\ place[i] \in Nat
    BY <1>4, <1>5, <2>1
  <2> QED BY <2>2
<1>8. \A i \in 1..n : f[i].edid # NoDevice
  BY <1>4
<1>9. \A i, j \in 1..n : f[i].edid = f[j].edid => i = j
  BY <1>4, <1>5, <1>6 DEF SoundTable
<1>10. \A i, j \in Numbered(f, 2..n) : f[i].cid = f[j].cid => i = j
  <2> SUFFICES ASSUME NEW i \in Numbered(f, 2..n), NEW j \in Numbered(f, 2..n),
                      f[i].cid = f[j].cid
               PROVE  i = j
    OBVIOUS
  <2>1. i \in 2..n /\ j \in 2..n /\ i \in 1..n /\ j \in 1..n
    BY <1>3 DEF Numbered
  <2>2. f[i] = dev[place[i]] /\ f[j] = dev[place[j]]
    BY <1>4, <2>1
  <2>3. /\ place[i] \in Numbered(dev, Used(dev) \ {0})
        /\ place[j] \in Numbered(dev, Used(dev) \ {0})
    BY <1>5, <1>7, <2>1, <2>2 DEF Numbered
  <2>4. place[i] = place[j]
    BY <2>2, <2>3 DEF SoundTable
  <2> QED BY <1>6, <2>1, <2>4
<1> QED BY <1>3, <1>8, <1>9, <1>10 DEF SoundFile, f

(* A file that was written in part is sound, too.                          *)
LEMMA PrefixSound ==
  ASSUME NEW f, SoundFile(f), NEW g \in Prefixes(f)
  PROVE  SoundFile(g)
<1>1. PICK l \in 0..Len(f) : g = SubSeq(f, 1, l)
  BY DEF Prefixes
<1>2. f \in Seq(Entry) /\ Len(f) \in Nat /\ Len(f) <= MaxCoord
  BY DEF SoundFile
<1>3. g \in Seq(Entry) /\ Len(g) = l
  BY <1>1, <1>2
<1>4. \A i \in 1..l : g[i] = f[i] /\ i \in 1..Len(f)
  BY <1>1, <1>2
<1>5. \A i \in 2..l : i \in 1..l /\ i \in 2..Len(f)
  BY <1>2
<1>6. Numbered(g, 2..l) \subseteq Numbered(f, 2..Len(f)) \cap (2..l)
  BY <1>4, <1>5 DEF Numbered
<1>7. l <= MaxCoord
  BY <1>2, Sizes
<1>8. \A i \in 1..l : g[i].edid # NoDevice
  BY <1>4 DEF SoundFile
<1>9. \A i, j \in 1..l : g[i].edid = g[j].edid => i = j
  BY <1>4 DEF SoundFile
<1>10. \A i, j \in Numbered(g, 2..l) : g[i].cid = g[j].cid => i = j
  BY <1>4, <1>5, <1>6 DEF SoundFile
<1> QED BY <1>3, <1>7, <1>8, <1>9, <1>10 DEF SoundFile

(* What is loaded: the file, from the first slot on.                       *)
LEMMA LoadedSlots ==
  ASSUME NEW f, SoundFile(f)
  PROVE  /\ Loaded(f) \in Table
         /\ \A i \in Slot : i < Len(f) => /\ Loaded(f)[i] = f[i + 1]
                                          /\ i + 1 \in 1..Len(f)
         /\ \A i \in Slot : ~(i < Len(f)) => Loaded(f)[i] = Free
<1>1. f \in Seq(Entry) /\ Len(f) \in Nat
  BY DEF SoundFile
<1>2. \A i \in Slot : i < Len(f) => f[i + 1] \in Entry /\ i + 1 \in 1..Len(f)
  BY <1>1, Sizes
<1>3. Loaded(f) = [i \in Slot |-> IF i < Len(f) THEN f[i + 1] ELSE Free]
  BY DEF Loaded
<1>4. Loaded(f) \in Table
  BY <1>2, <1>3, FreeType DEF Table
<1> QED BY <1>2, <1>3, <1>4

LEMMA LoadedSound ==
  ASSUME NEW f, SoundFile(f)
  PROVE  SoundTable(Loaded(f))
<1> DEFINE dev == Loaded(f)
<1>1. /\ dev \in Table
      /\ \A i \in Slot : i < Len(f) => dev[i] = f[i + 1] /\ i + 1 \in 1..Len(f)
      /\ \A i \in Slot : ~(i < Len(f)) => dev[i] = Free
  BY LoadedSlots
<1>2. f \in Seq(Entry) /\ Len(f) \in Nat
  BY DEF SoundFile
<1> HIDE DEF dev
<1>3. \A i \in Slot : dev[i].edid # NoDevice <=> i < Len(f)
  BY <1>1, FreeType DEF SoundFile
<1>4. \A i \in Slot : dev[i].coord => dev[i].edid # NoDevice
  BY <1>1, <1>3, FreeType
<1>5. \A i \in Used(dev) : /\ i \in Slot /\ i \in Nat /\ i < Len(f)
                           /\ dev[i] = f[i + 1] /\ i + 1 \in 1..Len(f)
  BY <1>1, <1>3, Sizes DEF Used
<1>6. \A i, j \in Used(dev) : dev[i].edid = dev[j].edid => i = j
  <2> SUFFICES ASSUME NEW i \in Used(dev), NEW j \in Used(dev),
                      dev[i].edid = dev[j].edid
               PROVE  i = j
    OBVIOUS
  <2>1. i + 1 = j + 1
    BY <1>5 DEF SoundFile
  <2> QED BY <1>5, <2>1
<1>7. \A i, j \in Numbered(dev, Used(dev) \ {0}) : dev[i].cid = dev[j].cid => i = j
  <2> SUFFICES ASSUME NEW i \in Numbered(dev, Used(dev) \ {0}),
                      NEW j \in Numbered(dev, Used(dev) \ {0}),
                      dev[i].cid = dev[j].cid
               PROVE  i = j
    OBVIOUS
  <2>1. i \in Used(dev) /\ j \in Used(dev) /\ i # 0 /\ j # 0
    BY DEF Numbered
  <2>2. i + 1 \in 2..Len(f) /\ j + 1 \in 2..Len(f)
    BY <1>2, <1>5, <2>1
  <2>3. i + 1 \in Numbered(f, 2..Len(f)) /\ j + 1 \in Numbered(f, 2..Len(f))
    BY <1>5, <2>1, <2>2 DEF Numbered
  <2>4. f[i + 1].cid = f[j + 1].cid
    BY <1>5, <2>1
  <2>5. i + 1 = j + 1
    BY <2>3, <2>4 DEF SoundFile
  <2> QED BY <1>5, <2>1, <2>5
<1> QED BY <1>1, <1>4, <1>6, <1>7 DEF SoundTable, dev

(* Saving what was loaded writes the same file again.                      *)
LEMMA LoadedSaved ==
  ASSUME NEW f, SoundFile(f)
  PROVE  Saved(Loaded(f)) = f
<1> DEFINE dev == Loaded(f)
           n == Len(f)
<1>1. /\ dev \in Table
      /\ \A i \in Slot : i < n => dev[i] = f[i + 1] /\ i + 1 \in 1..n
      /\ \A i \in Slot : ~(i < n) => dev[i] = Free
  BY LoadedSlots
<1>2. f \in Seq(Entry) /\ n \in Nat /\ n <= MaxCoord /\ MaxCoord \in Nat
  BY Sizes DEF SoundFile
<1>3. \A i \in 1..n : f[i].edid # NoDevice
  BY DEF SoundFile
<1>4. PICK s \in [0..MaxCoord -> Seq(Entry)] :
        /\ s[0] = <<>>
        /\ \A k \in 1..MaxCoord : s[k] = SaveStep(dev, k, s[k - 1])
        /\ Saved(dev) = s[MaxCoord]
  BY <1>1, SaveLoop
<1> DEFINE least(k) == IF k <= n THEN k ELSE n
           Copies(k) == /\ Len(s[k]) = least(k)
                        /\ \A i \in 1..least(k) : s[k][i] = f[i]
           P == {k \in 0..MaxCoord : Copies(k)}
<1> HIDE DEF dev
<1>5. 0 \in P
  BY <1>2, <1>4
<1>6. ASSUME NEW k \in 1..MaxCoord, k - 1 \in P PROVE k \in P
  <2>1. /\ s[k - 1] \in Seq(Entry) /\ k - 1 \in Nat
        /\ Len(s[k - 1]) = least(k - 1)
        /\ \A i \in 1..least(k - 1) : s[k - 1][i] = f[i]
    BY <1>2, <1>6
  <2>2. k - 1 \in Slot
    BY Sizes DEF Slot
  <2>3. s[k] = SaveStep(dev, k, s[k - 1])
    BY <1>4
  <2>4. CASE k <= n
    <3>1. least(k - 1) = k - 1 /\ least(k) = k
      BY <1>2, <2>4
    <3>2. dev[k - 1] = f[k] /\ f[k].edid # NoDevice /\ f[k] \in Entry
      <4>1. k - 1 < n /\ (k - 1) + 1 = k /\ k \in 1..n
        BY <1>2, <2>4
      <4> QED BY <1>1, <1>2, <1>3, <2>2, <4>1
    <3>3. s[k] = Append(s[k - 1], f[k])
      BY <2>3, <3>2 DEF SaveStep
    <3>4. Len(s[k]) = k
      BY <2>1, <3>1, <3>2, <3>3
    <3>5. \A i \in 1..k : s[k][i] = f[i]
      BY <2>1, <3>1, <3>2, <3>3
    <3> QED BY <1>2, <3>1, <3>4, <3>5
  <2>5. CASE ~(k <= n)
    <3>1. least(k - 1) = n /\ least(k) = n
      BY <1>2, <2>5
    <3>2. dev[k - 1].edid = NoDevice
      <4>1. ~(k - 1 < n)
        BY <1>2, <2>5
      <4> QED BY <1>1, <2>2, <4>1, FreeType
    <3>3. s[k] = s[k - 1]
      BY <2>3, <3>2 DEF SaveStep
    <3> QED BY <1>2, <2>1, <3>1, <3>3
  <2> QED BY <2>4, <2>5
<1>7. P = 0..MaxCoord
  <2> HIDE DEF P
  <2>1. P \in SUBSET (0..MaxCoord)
    BY DEF P
  <2> QED BY <1>2, <1>5, <1>6, <2>1, UpTo
<1>8. Copies(MaxCoord)
  <2>1. MaxCoord \in 0..MaxCoord
    BY <1>2
  <2> HIDE DEF Copies
  <2> QED BY <1>7, <2>1
<1> DEFINE t == Saved(dev)
<1>9. t \in Seq(Entry) /\ Len(t) = n /\ \A i \in 1..n : t[i] = f[i]
  <2>1. least(MaxCoord) = n
    BY <1>2
  <2> QED BY <1>2, <1>4, <1>8, <2>1
<1> HIDE DEF t
<1>10. t = f
  <2>1. t = [i \in 1..n |-> t[i]] /\ f = [i \in 1..n |-> f[i]]
    BY <1>2, <1>9
  <2> HIDE DEF n
  <2>2. [i \in 1..n |-> t[i]] = [i \in 1..n |-> f[i]]
    BY <1>9
  <2> QED BY <2>1, <2>2
<1> QED BY <1>10 DEF t, dev

-----------------------------------------------------------------------------
(* The routing tree and the coordinators heard.                            *)

(* The coordinators of a table with a CID.                                 *)
With(dev, c) == {i \in Scanned : dev[i].coord /\ dev[i].cid = c}

(* What the tree routes by is in the table.                                *)
Listed(tree, dev) ==
  \A c \in Cid \ {PAN} :
    tree[c] # INVALID_CID =>
      \E i \in Used(dev) : /\ dev[i].coord /\ dev[i].cid = c
                           /\ dev[i].parent = tree[c]

LEMMA TreeListed ==
  ASSUME NEW dev \in Table, \A i \in Slot : dev[i].coord => dev[i].edid # NoDevice
  PROVE  /\ Tree(dev) \in [Cid -> Cid \cup {INVALID_CID}]
         /\ Listed(Tree(dev), dev)
<1> DEFINE at(c) == IF With(dev, c) # {} THEN dev[Max(With(dev, c))].parent
                    ELSE IF c = PAN THEN PAN ELSE INVALID_CID
<1>1. Tree(dev) = [c \in Cid |-> at(c)]
  BY Zenon DEF Tree, With
<1>2. ASSUME NEW c, With(dev, c) # {}
      PROVE  /\ Max(With(dev, c)) \in Used(dev)
             /\ dev[Max(With(dev, c))].coord
             /\ dev[Max(With(dev, c))].cid = c
             /\ dev[Max(With(dev, c))].parent \in Cid
  <2> DEFINE S == With(dev, c)
             m == Max(S)
  <2>1. S \in SUBSET (0..MaxCoord - 1) /\ MaxCoord - 1 \in Nat
    BY Sizes DEF With, Scanned, Cid
  <2> HIDE DEF S
  <2>2. m \in S
    BY <1>2, <2>1, MaxIn DEF S
  <2> HIDE DEF m
  <2>3. m \in Scanned /\ m \in Slot /\ dev[m].coord /\ dev[m].cid = c
    BY <2>2, Sizes DEF S, With
  <2>4. dev[m].parent \in Cid /\ dev[m].edid # NoDevice
    BY <2>3 DEF Table, Entry
  <2> QED BY <2>3, <2>4 DEF Used, m, S
<1>3. \A c \in Cid : at(c) \in Cid \cup {INVALID_CID}
  BY <1>2, Sizes
<1>4. \A c \in Cid \ {PAN} : at(c) # INVALID_CID => With(dev, c) # {}
  OBVIOUS
<1>5. \A c \in Cid : With(dev, c) # {} => at(c) = dev[Max(With(dev, c))].parent
  OBVIOUS
<1> HIDE DEF at
<1>6. Tree(dev) \in [Cid -> Cid \cup {INVALID_CID}]
  BY <1>1, <1>3
<1>7. \A c \in Cid : Tree(dev)[c] = at(c)
  BY <1>1
<1>8. Listed(Tree(dev), dev)
  BY <1>2, <1>4, <1>5, <1>7 DEF Listed
<1> QED BY <1>6, <1>8

-----------------------------------------------------------------------------
(* The operations on the table.                                            *)

(* The free CID is one that no listed device has, or none.                 *)
LEMMA FreeCid ==
  ASSUME NEW dev \in Table
  PROVE  /\ find_free_cid(dev) \in Cid \cup {INVALID_CID}
         /\ find_free_cid(dev) \in Cid =>
              \A j \in Used(dev) \ {0} : dev[j].cid # find_free_cid(dev)
<1> DEFINE taken == {dev[j].cid : j \in Used(dev) \ {0}}
           free == (1..MaxCoord - 1) \ taken
<1>1. free \in SUBSET Nat /\ free \subseteq Cid
  BY Sizes DEF Cid
<1>2. find_free_cid(dev) = IF free = {} THEN INVALID_CID ELSE Min(free)
  BY DEF find_free_cid
<1>3. \A j \in Used(dev) \ {0} : dev[j].cid \notin free
  OBVIOUS
<1> HIDE DEF free
<1>4. CASE free = {}
  BY <1>2, <1>4, Sizes
<1>5. CASE free # {}
  <2>1. Min(free) \in free
    BY <1>1, <1>5, MinIn
  <2> QED BY <1>1, <1>2, <1>3, <1>5, <2>1
<1> QED BY <1>4, <1>5

(* What was listed stays listed in the same slot.                          *)
Keeps(old, new) == \A i \in Used(old) : i \in Used(new) /\ new[i] = old[i]

LEMMA AddSound ==
  ASSUME NEW dev, SoundTable(dev), NEW e \in Device,
         NEW cid \in Cid \cup {INVALID_CID}, NEW parent \in Cid,
         NEW coord \in BOOLEAN, coord => cid = find_free_cid(dev)
  PROVE  /\ SoundTable(add_device(dev, e, cid, parent, coord))
         /\ Keeps(dev, add_device(dev, e, cid, parent, coord))
<1> DEFINE new == add_device(dev, e, cid, parent, coord)
           free == {i \in Slot : dev[i].edid = NoDevice}
           entry == [edid |-> e, cid |-> cid, parent |-> parent, coord |-> coord]
<1>0. Slot \subseteq Nat /\ Scanned \subseteq Slot
  BY Sizes
<1>1. dev \in Table
  BY DEF SoundTable
<1>2. CASE is_my_device(dev, e) \/ free = {}
  <2>1. new = dev
    BY <1>2 DEF add_device
  <2> QED BY <2>1 DEF Keeps
<1>3. CASE ~is_my_device(dev, e) /\ free # {}
  <2> DEFINE k == Min(free)
  <2>1. new = [dev EXCEPT ![k] = entry]
    BY <1>3 DEF add_device
  <2>2. free \in SUBSET Nat
    BY <1>0
  <2>3. k \in free
    <3> HIDE DEF free
    <3> QED BY <1>3, <2>2, MinIn
  <2>4. k \in Slot /\ dev[k].edid = NoDevice
    BY <2>3
  <2>5. entry \in Entry /\ entry.edid = e /\ entry.cid = cid /\ entry.coord = coord
    BY DEF Entry
  <2>6. e # NoDevice
    BY PanJoinAssumption
  <2> HIDE DEF new, free, k, entry
  <2>7. new[k] = entry /\ \A i \in Slot \ {k} : new[i] = dev[i]
    BY <1>1, <2>1, <2>4 DEF Table
  <2>8. new \in Table
    BY <1>1, <2>1, <2>4, <2>5 DEF Table
  <2>9. k \notin Used(dev) /\ Used(dev) \subseteq Slot
    BY <1>0, <2>4 DEF Used
  <2>10. Used(new) \subseteq Used(dev) \cup {k}
    BY <1>0, <2>7 DEF Used
  <2>11. \A i \in Used(dev) : i \in Used(new) /\ new[i] = dev[i]
    BY <2>7, <2>9 DEF Used
  <2>12. \A i \in Used(dev) : dev[i].edid # e
    BY <1>3 DEF is_my_device
  <2>13. \A i \in Slot : new[i].coord => new[i].edid # NoDevice
    BY <2>5, <2>6, <2>7 DEF SoundTable
  <2>14. \A i, j \in Used(new) : new[i].edid = new[j].edid => i = j
    BY <2>5, <2>7, <2>10, <2>11, <2>12 DEF SoundTable
  <2>15. \A i \in Numbered(dev, Used(dev) \ {0}) :
           coord /\ cid \in Cid => dev[i].cid # cid
    BY <1>1, FreeCid DEF Numbered
  <2>16. \A i \in Numbered(new, Used(new) \ {0}) :
           \/ /\ i \in Numbered(dev, Used(dev) \ {0})
              /\ new[i] = dev[i]
           \/ i = k /\ new[i].cid = cid /\ coord /\ cid \in Cid
    BY <2>5, <2>7, <2>10, <2>11 DEF Numbered
  <2>17. \A i, j \in Numbered(new, Used(new) \ {0}) :
           new[i].cid = new[j].cid => i = j
    BY <2>15, <2>16 DEF SoundTable
  <2> QED BY <2>8, <2>11, <2>13, <2>14, <2>17 DEF SoundTable, Keeps, new
<1> QED BY <1>2, <1>3

LEMMA RemoveSound ==
  ASSUME NEW dev, SoundTable(dev), NEW e, is_my_device(dev, e)
  PROVE  SoundTable(remove_device(dev, e))
<1> DEFINE of == {i \in Used(dev) : dev[i].edid = e}
           k == Min(of)
           new == remove_device(dev, e)
<1>1. dev \in Table
  BY DEF SoundTable
<1>2. of \in SUBSET Nat /\ of # {} /\ of \subseteq Slot
  BY Sizes DEF is_my_device, Used
<1>3. new = [dev EXCEPT ![k] = Free]
  BY DEF remove_device
<1>4. k \in Slot
  <2> HIDE DEF of
  <2> QED BY <1>2, MinIn
<1> HIDE DEF of, k, new
<1>5. new[k] = Free /\ \A i \in Slot \ {k} : new[i] = dev[i]
  BY <1>1, <1>3, <1>4 DEF Table
<1>6. new \in Table
  BY <1>1, <1>3, <1>4, FreeType DEF Table
<1>7. \A i \in Slot : new[i].coord => new[i].edid # NoDevice
  BY <1>5, FreeType DEF SoundTable
<1>8. \A i \in Used(new) : i \in Used(dev) /\ new[i] = dev[i]
  BY <1>5, FreeType, Sizes DEF Used
<1>9. \A i, j \in Used(new) : new[i].edid = new[j].edid => i = j
  BY <1>8 DEF SoundTable
<1>10. \A i \in Numbered(new, Used(new) \ {0}) :
         i \in Numbered(dev, Used(dev) \ {0}) /\ new[i] = dev[i]
  BY <1>8 DEF Numbered
<1>11. \A i, j \in Numbered(new, Used(new) \ {0}) :
         new[i].cid = new[j].cid => i = j
  BY <1>10 DEF SoundTable
<1> QED BY <1>6, <1>7, <1>9, <1>11 DEF SoundTable, new

(* Saving leaves a sound file, the table if it was complete.               *)
LEMMA SaveSound ==
  ASSUME SoundFile(file), fails \in 0..MaxFails,
         NEW dev, SoundTable(dev), save_device_table(dev)
  PROVE  /\ SoundFile(file') /\ save_ok' \in BOOLEAN /\ fails' \in 0..MaxFails
         /\ save_ok' => file' = Saved(dev)
<1>1. SoundFile(Saved(dev))
  BY SavedSound
<1>2. CASE file' = Saved(dev) /\ save_ok' = TRUE /\ UNCHANGED fails
  BY <1>1, <1>2
<1>3. CASE /\ fails < MaxFails
           /\ fails' = fails + 1
           /\ file' \in {file} \cup Prefixes(Saved(dev))
           /\ save_ok' = FALSE
  <2>1. SoundFile(file')
    BY <1>1, <1>3, PrefixSound
  <2>2. fails' \in 0..MaxFails
    BY <1>3, PanJoinAssumption
  <2> QED BY <1>3, <2>1, <2>2
<1> QED BY <1>2, <1>3 DEF save_device_table

-----------------------------------------------------------------------------
(* The invariant.                                                          *)

(* A request that is being stored is of a device and goes to a record that *)
(* is not valid.                                                           *)
StoreInv ==
  Storing => /\ storing.request.edid \in Device
             /\ ~join_info[storing.slot].valid

(* What an accept adds is a device.                                        *)
AcceptInv == ~Idle => join_info[accept.slot].edid \in Device

TableInv ==
  /\ TypeOK
  /\ SoundTable(devices)
  /\ SoundFile(file)
  /\ Listed(routing_tree, devices)
  /\ StoreInv
  /\ AcceptInv

LEMMA NoRequestType == NoRequest \in Request /\ ~NoRequest.valid
BY Sizes DEF NoRequest, Request

LEMMA NotStoringType ==
  /\ NotStoring \in [slot : JoinSlot, request : Request]
  /\ ~NotStoring.request.valid
BY NoRequestType, Sizes DEF NotStoring, JoinSlot

LEMMA NoAcceptType ==
  /\ NoAccept \in [phase : {"idle", "found", "added"},
                   edid : Device \cup {NoDevice},
                   slot : JoinSlot, parent : JoinSlot]
  /\ NoAccept.phase = "idle"
BY Sizes DEF NoAccept, JoinSlot

LEMMA EmptySound ==
  /\ SoundTable([i \in Slot |-> Free])
  /\ SoundFile(<<>>)
<1> DEFINE dev == [i \in Slot |-> Free]
<1>1. dev \in Table /\ \A i \in Slot : dev[i] = Free
  BY FreeType DEF Table
<1> HIDE DEF dev
<1>2. Used(dev) = {}
  BY <1>1, FreeType, Sizes DEF Used
<1>3. SoundTable(dev)
  BY <1>1, <1>2, FreeType DEF SoundTable, Numbered
<1> DEFINE f == <<>>
<1>4. f \in Seq(Entry) /\ Len(f) = 0
  OBVIOUS
<1> HIDE DEF f
<1>5. SoundFile(f)
  BY <1>4, Sizes DEF SoundFile, Numbered
<1> QED BY <1>3, <1>5 DEF dev, f

LEMMA RequestStartsInv ==
  ASSUME TableInv, NEW e \in Device, RequestStarts(e)
  PROVE  TableInv'
<1> DEFINE m == Min(FreeRequests)
<1>1. m \in JoinSlot /\ ~join_info[m].valid
  <2>1. FreeRequests \in SUBSET Nat /\ FreeRequests # {}
    BY Sizes DEF FreeRequests, RequestStarts
  <2>2. m \in FreeRequests
    BY <2>1, MinIn
  <2> HIDE DEF m
  <2> QED BY <2>2 DEF FreeRequests
<1>2. PICK scid \in Cid :
        storing' = [slot |-> m,
                    request |-> [valid |-> TRUE, edid |-> e, scid |-> scid,
                                 coord |-> e \in Coords]]
  <2>1. Sources[e] \subseteq Cid
    BY PanJoinAssumption DEF Cid
  <2> QED BY <2>1 DEF RequestStarts
<1>3. join_info' = [join_info EXCEPT ![m].edid = e]
  BY DEF RequestStarts
<1> HIDE DEF m
<1>4. /\ storing' \in [slot : JoinSlot, request : Request]
      /\ storing'.slot = m /\ storing'.request.edid = e
  BY <1>1, <1>2 DEF Request
<1>5. join_info \in [JoinSlot -> Request]
  BY DEF TableInv, TypeOK
<1>6. join_info' \in [JoinSlot -> Request]
  BY <1>1, <1>3, <1>5 DEF Request
<1>7. /\ join_info'[m].edid = e /\ join_info'[m].valid = join_info[m].valid
      /\ \A s \in JoinSlot \ {m} : join_info'[s] = join_info[s]
  BY <1>1, <1>3, <1>5 DEF Request
<1>8. UNCHANGED <<devices, file, routing_tree, pair_mode, accept, save_ok, fails>>
  BY DEF RequestStarts
<1>9. TypeOK'
  BY <1>4, <1>6, <1>8 DEF TableInv, TypeOK
<1>10. StoreInv'
  BY <1>1, <1>4, <1>7 DEF StoreInv
<1>11. AcceptInv'
  <2>1. accept.slot \in JoinSlot
    BY DEF TableInv, TypeOK
  <2> QED BY <1>7, <1>8, <2>1 DEF TableInv, AcceptInv, Idle
<1> QED BY <1>8, <1>9, <1>10, <1>11 DEF TableInv

LEMMA RequestStoredInv ==
  ASSUME TableInv, RequestStored
  PROVE  TableInv'
<1>1. /\ join_info \in [JoinSlot -> Request]
      /\ storing.slot \in JoinSlot /\ storing.request \in Request
      /\ accept.slot \in JoinSlot
  BY DEF TableInv, TypeOK
<1>2. storing.request.edid \in Device
  BY DEF TableInv, StoreInv, RequestStored
<1>3. /\ join_info' = [join_info EXCEPT ![storing.slot] = storing.request]
      /\ storing' = NotStoring
      /\ UNCHANGED <<devices, file, routing_tree, pair_mode, accept, save_ok, fails>>
  BY DEF RequestStored
<1>4. join_info' \in [JoinSlot -> Request]
  BY <1>1, <1>3
<1>5. TypeOK'
  BY <1>3, <1>4, NotStoringType DEF TableInv, TypeOK
<1>6. StoreInv'
  BY <1>3, NotStoringType DEF StoreInv, Storing
<1>7. AcceptInv'
  BY <1>1, <1>2, <1>3 DEF TableInv, AcceptInv, Idle
<1> QED BY <1>3, <1>5, <1>6, <1>7 DEF TableInv

LEMMA AcceptStartsInv ==
  ASSUME TableInv, NEW e \in Device, AcceptStarts(e)
  PROVE  TableInv'
<1> DEFINE S == {s \in JoinSlot : join_info[s].edid = e}
           m == Min(S)
<1>1. PICK parent \in RequestsOf(e) :
        accept' = [phase |-> "found", edid |-> e, slot |-> m, parent |-> parent]
  BY DEF AcceptStarts
<1>2. parent \in S
  BY DEF RequestsOf
<1>3. S \in SUBSET Nat
  BY Sizes
<1>4. m \in S
  <2> HIDE DEF S
  <2> QED BY <1>2, <1>3, MinIn
<1>5. m \in JoinSlot /\ join_info[m].edid = e /\ parent \in JoinSlot
  BY <1>2, <1>4
<1> HIDE DEF S, m
<1>6. UNCHANGED <<devices, file, routing_tree, join_info, pair_mode, storing,
                  save_ok, fails>>
  BY DEF AcceptStarts
<1>7. /\ accept' \in [phase : {"idle", "found", "added"},
                      edid : Device \cup {NoDevice},
                      slot : JoinSlot, parent : JoinSlot]
      /\ accept'.slot = m
  BY <1>1, <1>5
<1>8. TypeOK'
  BY <1>6, <1>7 DEF TableInv, TypeOK
<1>9. StoreInv'
  BY <1>6 DEF TableInv, StoreInv, Storing
<1>10. AcceptInv'
  BY <1>5, <1>6, <1>7 DEF AcceptInv
<1> QED BY <1>6, <1>8, <1>9, <1>10 DEF TableInv

LEMMA KeepsListed ==
  ASSUME NEW tree, NEW old, NEW new, Listed(tree, old), Keeps(old, new)
  PROVE  Listed(tree, new)
BY DEF Listed, Keeps

LEMMA AcceptAddsInv ==
  ASSUME TableInv, AcceptAdds
  PROVE  TableInv'
<1> DEFINE request == join_info[accept.slot]
           cid == IF request.coord THEN find_free_cid(devices) ELSE 0
           scid == join_info[accept.parent].scid
<1>1. /\ accept.slot \in JoinSlot /\ accept.parent \in JoinSlot
      /\ join_info \in [JoinSlot -> Request]
  BY DEF TableInv, TypeOK
<1>2. request.edid \in Device
  BY DEF TableInv, AcceptInv, AcceptAdds, Idle
<1>3. request.coord \in BOOLEAN /\ scid \in Cid
  BY <1>1 DEF Request
<1>4. SoundTable(devices) /\ devices \in Table
  BY DEF TableInv, SoundTable
<1>5. cid \in Cid \cup {INVALID_CID}
  <2>1. find_free_cid(devices) \in Cid \cup {INVALID_CID}
    BY <1>4, FreeCid
  <2> QED BY <2>1, Sizes
<1>6. request.coord => cid = find_free_cid(devices)
  OBVIOUS
<1>7. devices' = add_device(devices, request.edid, cid, scid, request.coord)
  BY DEF AcceptAdds
<1> HIDE DEF request, cid, scid
<1>8. SoundTable(devices') /\ Keeps(devices, devices')
  BY <1>2, <1>3, <1>4, <1>5, <1>6, <1>7, AddSound
<1>9. /\ accept' = [accept EXCEPT !.phase = "added"]
      /\ UNCHANGED <<file, routing_tree, join_info, pair_mode, storing,
                     save_ok, fails>>
      /\ ~Idle
  BY DEF AcceptAdds, Idle
<1>10. /\ accept' \in [phase : {"idle", "found", "added"},
                       edid : Device \cup {NoDevice},
                       slot : JoinSlot, parent : JoinSlot]
       /\ accept'.slot = accept.slot
  BY <1>9 DEF TableInv, TypeOK
<1>11. TypeOK'
  <2>1. devices' \in [Slot -> Entry]
    BY <1>8 DEF SoundTable, Table
  <2> QED BY <1>9, <1>10, <2>1 DEF TableInv, TypeOK
<1>12. StoreInv'
  BY <1>9 DEF TableInv, StoreInv, Storing
<1>13. AcceptInv'
  BY <1>9, <1>10 DEF TableInv, AcceptInv
<1>14. Listed(routing_tree', devices')
  BY <1>8, <1>9, KeepsListed DEF TableInv
<1> QED BY <1>8, <1>9, <1>11, <1>12, <1>13, <1>14 DEF TableInv

LEMMA AcceptEndsInv ==
  ASSUME TableInv, AcceptEnds
  PROVE  TableInv'
<1>1. SoundTable(devices) /\ SoundFile(file) /\ fails \in 0..MaxFails
  BY DEF TableInv, TypeOK
<1>2. save_device_table(devices)
  BY DEF AcceptEnds
<1>3. SoundFile(file') /\ save_ok' \in BOOLEAN /\ fails' \in 0..MaxFails
  BY <1>1, <1>2, SaveSound
<1>4. /\ routing_tree' = IF save_ok' THEN routing_tree ELSE Tree(devices)
      /\ accept' = NoAccept
      /\ UNCHANGED <<devices, pair_mode, storing>>
  BY DEF AcceptEnds
<1>5. /\ Tree(devices) \in [Cid -> Cid \cup {INVALID_CID}]
      /\ Listed(Tree(devices), devices)
  BY <1>1, TreeListed DEF SoundTable
<1>6. /\ routing_tree' \in [Cid -> Cid \cup {INVALID_CID}]
      /\ Listed(routing_tree', devices')
  BY <1>4, <1>5 DEF TableInv, TypeOK
<1>7. join_info \in [JoinSlot -> Request]
  BY DEF TableInv, TypeOK
<1> DEFINE dropped(s) ==
      IF join_info[s].edid = join_info[accept.slot].edid
      THEN [join_info[s] EXCEPT !.valid = FALSE, !.scid = PAN]
      ELSE join_info[s]
<1>8. join_info' = [s \in JoinSlot |-> dropped(s)]
  BY DEF AcceptEnds
<1>9. \A s \in JoinSlot : /\ dropped(s) \in Request
                          /\ ~join_info[s].valid => ~dropped(s).valid
  <2>1. PAN \in Cid
    BY Sizes
  <2> SUFFICES ASSUME NEW s \in JoinSlot
               PROVE  /\ dropped(s) \in Request
                      /\ ~join_info[s].valid => ~dropped(s).valid
    OBVIOUS
  <2> DEFINE r == join_info[s]
             q == [r EXCEPT !.valid = FALSE, !.scid = PAN]
  <2>2. r \in Request
    BY <1>7
  <2>3. dropped(s) = q \/ dropped(s) = r
    OBVIOUS
  <2> HIDE DEF r
  <2>4. q \in Request /\ ~q.valid
    BY <2>1, <2>2 DEF Request
  <2> HIDE DEF dropped, q
  <2> QED BY <2>2, <2>3, <2>4 DEF r
<1> HIDE DEF dropped
<1>10. join_info' \in [JoinSlot -> Request]
  BY <1>8, <1>9
<1>11. SoundFile(file') /\ file' \in Seq(Entry)
  BY <1>3 DEF SoundFile
<1>12. TypeOK'
  BY <1>3, <1>4, <1>6, <1>10, <1>11, NoAcceptType DEF TableInv, TypeOK
<1>13. StoreInv'
  <2>1. storing.slot \in JoinSlot
    BY DEF TableInv, TypeOK
  <2>2. Storing => ~join_info'[storing.slot].valid
    BY <1>8, <1>9, <2>1 DEF TableInv, StoreInv
  <2> QED BY <1>4, <2>2 DEF TableInv, StoreInv, Storing
<1>14. AcceptInv'
  BY <1>4, NoAcceptType DEF AcceptInv, Idle
<1>15. SoundTable(devices')
  BY <1>1, <1>4
<1> QED BY <1>6, <1>11, <1>12, <1>13, <1>14, <1>15 DEF TableInv

LEMMA JoiningInv ==
  ASSUME TableInv, fitp_joining_enable \/ fitp_joining_disable
  PROVE  TableInv'
<1>1. /\ pair_mode' \in BOOLEAN
      /\ UNCHANGED <<devices, file, routing_tree, join_info, storing, accept,
                     save_ok, fails>>
  BY DEF fitp_joining_enable, fitp_joining_disable
<1> QED BY <1>1 DEF TableInv, TypeOK, StoreInv, AcceptInv, Storing, Idle

(* A call that changes and saves the table.                                *)
LEMMA SavedInv ==
  ASSUME TableInv, Idle, SoundTable(devices'), save_device_table(devices'),
         routing_tree' \in [Cid -> Cid \cup {INVALID_CID}],
         Listed(routing_tree', devices'),
         UNCHANGED <<join_info, pair_mode, storing, accept>>
  PROVE  TableInv' /\ (save_ok' => file' = Saved(devices'))
<1>1. SoundFile(file) /\ fails \in 0..MaxFails
  BY DEF TableInv, TypeOK
<1>2. /\ SoundFile(file') /\ save_ok' \in BOOLEAN /\ fails' \in 0..MaxFails
      /\ save_ok' => file' = Saved(devices')
  BY <1>1, SaveSound
<1>3. file' \in Seq(Entry) /\ devices' \in [Slot -> Entry]
  BY <1>2 DEF SoundFile, SoundTable, Table
<1>4. TypeOK'
  BY <1>2, <1>3 DEF TableInv, TypeOK
<1>5. StoreInv' /\ AcceptInv'
  BY DEF TableInv, StoreInv, AcceptInv, Storing, Idle
<1> QED BY <1>2, <1>4, <1>5 DEF TableInv

LEMMA UnpairInv ==
  ASSUME TableInv, NEW e \in Device, NET_unpair(e)
  PROVE  TableInv' /\ (save_ok' => file' = Saved(devices'))
<1>1. /\ Idle /\ is_my_device(devices, e)
      /\ devices' = remove_device(devices, e)
      /\ save_device_table(devices')
      /\ routing_tree' = Tree(devices')
      /\ UNCHANGED <<join_info, pair_mode, storing, accept>>
  BY DEF NET_unpair
<1>2. SoundTable(devices')
  BY <1>1, RemoveSound DEF TableInv
<1>3. /\ Tree(devices') \in [Cid -> Cid \cup {INVALID_CID}]
      /\ Listed(Tree(devices'), devices')
  BY <1>2, TreeListed DEF SoundTable
<1> QED BY <1>1, <1>2, <1>3, SavedInv

LEMMA DeviceListInv ==
  ASSUME TableInv, fitp_device_list
  PROVE  TableInv' /\ (save_ok' => file' = Saved(devices'))
<1>1. /\ Idle
      /\ devices' = add_device(devices, Fixed, 1, PAN, FALSE)
      /\ save_device_table(devices')
      /\ UNCHANGED <<routing_tree, join_info, pair_mode, storing, accept>>
  BY DEF fitp_device_list
<1>2. Fixed \in Device /\ 1 \in Cid \cup {INVALID_CID} /\ PAN \in Cid
  BY PanJoinAssumption, Sizes
<1>3. SoundTable(devices') /\ Keeps(devices, devices')
  BY <1>1, <1>2, AddSound DEF TableInv
<1>4. /\ routing_tree' \in [Cid -> Cid \cup {INVALID_CID}]
      /\ Listed(routing_tree', devices')
  BY <1>1, <1>3, KeepsListed DEF TableInv, TypeOK
<1> QED BY <1>1, <1>3, <1>4, SavedInv

LEMMA RestartInv ==
  ASSUME TableInv, Restart
  PROVE  TableInv' /\ (save_ok' => file' = Saved(devices'))
<1>1. SoundFile(file)
  BY DEF TableInv
<1>2. /\ devices' = Loaded(file)
      /\ routing_tree' = Tree(Loaded(file))
      /\ join_info' = [s \in JoinSlot |-> NoRequest]
      /\ pair_mode' = FALSE
      /\ storing' = NotStoring
      /\ accept' = NoAccept
      /\ save_ok' = TRUE
      /\ UNCHANGED <<file, fails>>
  BY DEF Restart
<1>3. SoundTable(devices') /\ file' = Saved(devices')
  BY <1>1, <1>2, LoadedSound, LoadedSaved
<1>4. /\ routing_tree' \in [Cid -> Cid \cup {INVALID_CID}]
      /\ Listed(routing_tree', devices')
  <2>1. /\ Tree(devices') \in [Cid -> Cid \cup {INVALID_CID}]
        /\ Listed(Tree(devices'), devices')
    BY <1>3, TreeListed DEF SoundTable
  <2> QED BY <1>2, <2>1
<1>5. devices' \in [Slot -> Entry]
  BY <1>3 DEF SoundTable, Table
<1>6. TypeOK'
  BY <1>2, <1>4, <1>5, NoRequestType, NotStoringType, NoAcceptType
     DEF TableInv, TypeOK
<1>7. StoreInv' /\ AcceptInv'
  BY <1>2, NotStoringType, NoAcceptType DEF StoreInv, AcceptInv, Storing, Idle
<1> QED BY <1>1, <1>2, <1>3, <1>4, <1>6, <1>7 DEF TableInv

LEMMA InitInv ==
  ASSUME Init
  PROVE  TableInv /\ file = Saved(devices) /\ Idle
<1>1. SoundTable(devices) /\ SoundFile(file)
  BY EmptySound DEF Init
<1>2. /\ routing_tree \in [Cid -> Cid \cup {INVALID_CID}]
      /\ Listed(routing_tree, devices)
  <2>1. /\ Tree(devices) \in [Cid -> Cid \cup {INVALID_CID}]
        /\ Listed(Tree(devices), devices)
    BY <1>1, TreeListed DEF SoundTable
  <2> QED BY <2>1 DEF Init
<1>3. TypeOK
  <2>1. devices \in [Slot -> Entry] /\ file \in Seq(Entry)
    BY <1>1 DEF SoundTable, Table, SoundFile
  <2>2. join_info \in [JoinSlot -> Request]
    BY NoRequestType DEF Init
  <2>3. fails \in 0..MaxFails /\ pair_mode \in BOOLEAN /\ save_ok \in BOOLEAN
    <3>1. MaxFails \in Nat
      BY PanJoinAssumption
    <3>2. fails \in 0..MaxFails
      BY <3>1 DEF Init
    <3>3. pair_mode \in BOOLEAN /\ save_ok \in BOOLEAN
      BY Zenon DEF Init
    <3> QED BY <3>2, <3>3
  <2> QED BY <1>2, <2>1, <2>2, <2>3, NotStoringType, NoAcceptType DEF Init, TypeOK
<1>4. StoreInv /\ AcceptInv /\ Idle
  BY NotStoringType, NoAcceptType DEF Init, StoreInv, AcceptInv, Storing, Idle
<1>5. file = Saved(devices)
  <2>1. Loaded(<<>>) = [i \in Slot |-> Free]
    <3>1. \A i \in Slot : ~(i < Len(<<>>))
      BY Sizes
    <3> QED BY <3>1 DEF Loaded
  <2>2. Saved(Loaded(<<>>)) = <<>>
    BY EmptySound, LoadedSaved
  <2> QED BY <2>1, <2>2 DEF Init
<1> QED BY <1>1, <1>2, <1>3, <1>4, <1>5 DEF TableInv

LEMMA NextInv ==
  ASSUME TableInv, [Next]_vars
  PROVE  TableInv'
<1>1. CASE UNCHANGED vars
  BY <1>1 DEF vars, TableInv, TypeOK, StoreInv, AcceptInv, Storing, Idle
<1>2. CASE Next
  <2>1. ASSUME NEW e \in Device,
               RequestStarts(e) \/ AcceptStarts(e) \/ NET_unpair(e)
        PROVE  TableInv'
    BY <2>1, RequestStartsInv, AcceptStartsInv, UnpairInv
  <2>2. ASSUME \/ RequestStored \/ AcceptAdds \/ AcceptEnds
               \/ fitp_joining_enable \/ fitp_joining_disable
               \/ fitp_device_list \/ Restart
        PROVE  TableInv'
    BY <2>2, RequestStoredInv, AcceptAddsInv, AcceptEndsInv, JoiningInv,
       DeviceListInv, RestartInv
  <2> QED BY <1>2, <2>1, <2>2 DEF Next
<1> QED BY <1>1, <1>2

(* The invariant from which the theorems follow.                           *)
LEMMA TableInvariant == Spec => []TableInv
<1>1. Init => TableInv
  BY InitInv
<1>2. TableInv /\ [Next]_vars => TableInv'
  BY NextInv
<1> QED BY <1>1, <1>2, PTL DEF Spec

-----------------------------------------------------------------------------
(* The theorems.                                                           *)

(* Every variable keeps its type: in particular no CID is given out that   *)
(* is neither an index of the routing tree nor INVALID_CID, and no look-up *)
(* of join_info leaves the array.                                          *)
THEOREM TypeCorrect == Spec => []TypeOK
<1>1. TableInv => TypeOK
  BY DEF TableInv
<1> QED BY <1>1, TableInvariant, PTL

(* No device is listed twice and no two coordinators share a CID, the first *)
(* slot of the table not counted, whatever order devices join, are listed, *)
(* are unpaired and move to other slots with a restart, and however much of *)
(* the file was written.                                                   *)
THEOREM DevicesCorrect == Spec => []DevicesDistinct
<1>1. TableInv => DevicesDistinct
  <2> SUFFICES ASSUME TableInv PROVE DevicesDistinct
    OBVIOUS
  <2>1. SoundTable(devices)
    BY DEF TableInv
  <2>2. ASSUME NEW c \in Cid PROVE Cardinality(CoordsWith(c) \ {0}) <= 1
    <3> DEFINE S == CoordsWith(c) \ {0}
    <3>1. \A i \in S : i \in Numbered(devices, Used(devices) \ {0})
                       /\ devices[i].cid = c
      BY DEF CoordsWith, Numbered
    <3>2. \A i, j \in S : i = j
      <4> HIDE DEF S
      <4> QED BY <2>1, <3>1 DEF SoundTable
    <3>3. S = {} \/ \E i \in S : S = {i}
      <4> HIDE DEF S
      <4> QED BY <3>2
    <3> HIDE DEF S
    <3>4. S = {} => Cardinality(S) = 0
      BY FS_EmptySet
    <3>5. ASSUME NEW i, S = {i} PROVE Cardinality(S) = 1
      BY <3>5, FS_Singleton
    <3>6. Cardinality(S) <= 1
      BY <3>3, <3>4, <3>5
    <3> QED BY <3>6 DEF S
  <2> QED BY <2>1, <2>2 DEF DevicesDistinct, SoundTable
<1> QED BY <1>1, TableInvariant, PTL

(* The routing tree never routes by a coordinator that the table does not  *)
(* list with this CID and this parent, although a successful accept leaves *)
(* the tree as it was.                                                     *)
THEOREM RoutesCorrect == Spec => []RoutesAreListed
<1>1. TableInv => RoutesAreListed
  <2> SUFFICES ASSUME TableInv, NEW c \in Cid \ {PAN}, routing_tree[c] # INVALID_CID
               PROVE  \E i \in CoordsWith(c) : devices[i].parent = routing_tree[c]
    BY DEF RoutesAreListed
  <2>1. PICK i \in Used(devices) : /\ devices[i].coord /\ devices[i].cid = c
                                   /\ devices[i].parent = routing_tree[c]
    BY DEF TableInv, Listed
  <2> QED BY <2>1 DEF CoordsWith
<1> QED BY <1>1, TableInvariant, PTL

(* Between calls the file holds the table unless the last save failed, so  *)
(* that a restart neither forgets a device nor brings one back.            *)
THEOREM FileCorrect == Spec => []FileIsTable
<1>1. Init => FileIsTable
  BY InitInv DEF FileIsTable
<1>2. TableInv /\ FileIsTable /\ [Next]_vars => FileIsTable'
  <2> SUFFICES ASSUME TableInv, FileIsTable, [Next]_vars PROVE FileIsTable'
    OBVIOUS
  <2>1. CASE UNCHANGED <<devices, file, save_ok>> /\ (Idle' => Idle)
    BY <2>1 DEF FileIsTable
  <2>2. CASE save_ok' => file' = Saved(devices')
    BY <2>2 DEF FileIsTable
  <2>3. CASE ~Idle'
    BY <2>3 DEF FileIsTable
  <2>4. CASE UNCHANGED vars
    BY <2>1, <2>4 DEF vars, Idle
  <2>5. CASE Next
    <3>1. ASSUME NEW e \in Device, RequestStarts(e) PROVE FileIsTable'
      BY <2>1, <3>1 DEF RequestStarts, Idle
    <3>2. ASSUME NEW e \in Device, AcceptStarts(e) PROVE FileIsTable'
      BY <2>1, <3>2 DEF AcceptStarts
    <3>3. ASSUME NEW e \in Device, NET_unpair(e) PROVE FileIsTable'
      BY <2>2, <3>3, UnpairInv
    <3>4. CASE RequestStored
      BY <2>1, <3>4 DEF RequestStored, Idle
    <3>5. CASE AcceptAdds
      <4>1. accept \in [phase : {"idle", "found", "added"},
                        edid : Device \cup {NoDevice},
                        slot : JoinSlot, parent : JoinSlot]
        BY DEF TableInv, TypeOK
      <4>2. accept'.phase = "added"
        BY <3>5, <4>1 DEF AcceptAdds
      <4> QED BY <2>3, <4>2 DEF Idle
    <3>6. CASE AcceptEnds
      <4>1. save_device_table(devices) /\ devices' = devices
        BY <3>6 DEF AcceptEnds
      <4>2. save_ok' => file' = Saved(devices)
        BY <4>1, SaveSound DEF TableInv, TypeOK
      <4> QED BY <2>2, <4>1, <4>2
    <3>7. CASE fitp_joining_enable \/ fitp_joining_disable
      BY <2>1, <3>7 DEF fitp_joining_enable, fitp_joining_disable
    <3>8. CASE fitp_device_list
      BY <2>2, <3>8, DeviceListInv
    <3>9. CASE Restart
      BY <2>2, <3>9, RestartInv
    <3> QED BY <2>5, <3>1, <3>2, <3>3, <3>4, <3>5, <3>6, <3>7, <3>8, <3>9 DEF Next
  <2> QED BY <2>4, <2>5
<1> QED BY <1>1, <1>2, TableInvariant, PTL DEF Spec

(* The request that an accept took the parent from is never overwritten    *)
(* before the accept ends, although requests are stored meanwhile.         *)
THEOREM ParentKeptCorrect == Spec => []ParentKept
<1>1. Init => ParentKept
  BY InitInv DEF ParentKept
<1>2. TableInv /\ ParentKept /\ [Next]_vars => ParentKept'
  <2> SUFFICES ASSUME TableInv, ParentKept, [Next]_vars PROVE ParentKept'
    OBVIOUS
  <2>0. /\ join_info \in [JoinSlot -> Request]
        /\ accept \in [phase : {"idle", "found", "added"},
                       edid : Device \cup {NoDevice},
                       slot : JoinSlot, parent : JoinSlot]
    BY DEF TableInv, TypeOK
  <2>1. CASE UNCHANGED <<join_info, accept>>
    BY <2>1 DEF ParentKept, Idle
  <2>2. CASE accept' = NoAccept
    BY <2>2, NoAcceptType DEF ParentKept, Idle
  <2>3. CASE UNCHANGED vars
    BY <2>1, <2>3 DEF vars
  <2>4. CASE Next
    <3>1. ASSUME NEW e \in Device, RequestStarts(e) PROVE ParentKept'
      <4> DEFINE m == Min(FreeRequests)
      <4>1. m \in JoinSlot /\ ~join_info[m].valid
        <5>1. FreeRequests \in SUBSET Nat /\ FreeRequests # {}
          BY <3>1, Sizes DEF FreeRequests, RequestStarts
        <5>2. m \in FreeRequests
          BY <5>1, MinIn
        <5> HIDE DEF m
        <5> QED BY <5>2 DEF FreeRequests
      <4>2. join_info' = [join_info EXCEPT ![m].edid = e] /\ accept' = accept
        BY <3>1 DEF RequestStarts
      <4> HIDE DEF m
      <4>3. \A s \in JoinSlot \ {m} : join_info'[s] = join_info[s]
        BY <2>0, <4>1, <4>2
      <4>4. ~Idle => accept.parent \in JoinSlot \ {m}
        BY <2>0, <4>1 DEF ParentKept
      <4> QED BY <4>2, <4>3, <4>4 DEF ParentKept, Idle
    <3>2. ASSUME NEW e \in Device, AcceptStarts(e) PROVE ParentKept'
      <4>1. PICK parent \in RequestsOf(e) :
              accept' = [phase |-> "found", edid |-> e,
                         slot |-> Min({s \in JoinSlot : join_info[s].edid = e}),
                         parent |-> parent]
        BY <3>2 DEF AcceptStarts
      <4>2. accept'.parent = parent /\ accept'.edid = e
        BY <4>1
      <4>3. join_info[parent].valid /\ join_info[parent].edid = e
        BY DEF RequestsOf
      <4>4. join_info' = join_info
        BY <3>2 DEF AcceptStarts
      <4> QED BY <4>2, <4>3, <4>4 DEF ParentKept
    <3>3. ASSUME NEW e \in Device, NET_unpair(e) PROVE ParentKept'
      BY <2>1, <3>3 DEF NET_unpair
    <3>4. CASE RequestStored
      <4>1. /\ Storing /\ accept' = accept
            /\ join_info' = [join_info EXCEPT ![storing.slot] = storing.request]
        BY <3>4 DEF RequestStored
      <4>2. storing.slot \in JoinSlot /\ ~join_info[storing.slot].valid
        BY <4>1 DEF TableInv, TypeOK, StoreInv
      <4>3. \A s \in JoinSlot \ {storing.slot} : join_info'[s] = join_info[s]
        BY <2>0, <4>1, <4>2
      <4>4. ~Idle => accept.parent \in JoinSlot \ {storing.slot}
        BY <2>0, <4>2 DEF ParentKept
      <4> QED BY <4>1, <4>3, <4>4 DEF ParentKept, Idle
    <3>5. CASE AcceptAdds
      <4>1. /\ ~Idle
            /\ accept' = [accept EXCEPT !.phase = "added"]
            /\ join_info' = join_info
        BY <3>5 DEF AcceptAdds, Idle
      <4>2. accept'.parent = accept.parent /\ accept'.edid = accept.edid
        BY <2>0, <4>1
      <4> QED BY <4>1, <4>2 DEF ParentKept
    <3>6. CASE AcceptEnds \/ Restart
      BY <2>2, <3>6 DEF AcceptEnds, Restart
    <3>7. CASE fitp_joining_enable \/ fitp_joining_disable \/ fitp_device_list
      BY <2>1, <3>7 DEF fitp_joining_enable, fitp_joining_disable, fitp_device_list
    <3> QED BY <2>4, <3>1, <3>2, <3>3, <3>4, <3>5, <3>6, <3>7 DEF Next
  <2> QED BY <2>3, <2>4
<1> QED BY <1>1, <1>2, TableInvariant, PTL DEF Spec
=============================================================================
