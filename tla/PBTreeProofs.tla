---------------------------- MODULE PBTreeProofs ----------------------------
(***************************************************************************)
(* Theorems about PBTree for every set of stems, values and path bits.     *)
(***************************************************************************)
EXTENDS PBTree, WellFoundedInduction, TLAPS

-----------------------------------------------------------------------------
(* The least-number principle *)

LessThan == {r \in Nat \X Nat : r[1] < r[2]}

LEMMA LessThanIsWellFounded == IsWellFoundedOn(LessThan, Nat)
<1>1. LessThan = OpToRel(<, Nat)
  BY DEF LessThan, OpToRel
<1>2. QED
  BY <1>1, NatLessThanWellFounded

\* Least(S) is the smallest element of every non-empty set of naturals.
LEMMA LeastIsLeast ==
  ASSUME NEW S, S \subseteq Nat, S # {}
  PROVE  Least(S) \in S /\ \A m \in S : Least(S) <= m
<1>1. PICK n \in S : \A m \in S : <<m, n>> \notin LessThan
  BY LessThanIsWellFounded, WFMin
<1>2. ASSUME NEW m \in S PROVE n <= m
  <2>1. m \in Nat /\ n \in Nat /\ <<m, n>> \in Nat \X Nat
    OBVIOUS
  <2>2. ~ (m < n)
    BY <1>1, <2>1 DEF LessThan
  <2>3. QED
    BY <2>1, <2>2
<1>3. QED
  BY <1>2 DEF Least

-----------------------------------------------------------------------------
(* Positions: two paths meet exactly where their bits agree *)

Agree(s, t, d) == \A i \in 0..(d - 1) : PathBit[s][i] = PathBit[t][i]

LEMMA Bits ==
  ASSUME NEW s \in Stem, NEW d \in 0..(Depth - 1)
  PROVE  PathBit[s][d] \in {0, 1}
BY ConstantAssumption

LEMMA IntervalEq ==
  ASSUME NEW d \in Nat, NEW e \in Nat, 0..(d - 1) = 0..(e - 1)
  PROVE  d = e
<1>1. \A i \in Nat : (i < d) <=> (i \in 0..(d - 1))
  OBVIOUS
<1>2. \A i \in Nat : (i < e) <=> (i \in 0..(e - 1))
  OBVIOUS
<1>3. QED
  BY <1>1, <1>2

LEMMA PathEq ==
  ASSUME NEW s \in Stem, NEW t \in Stem, NEW d \in 0..Depth, NEW e \in 0..Depth
  PROVE  (Path(s, d) = Path(t, e)) <=> (d = e /\ Agree(s, t, d))
<1>0. d \in Nat /\ e \in Nat
  BY ConstantAssumption
<1>1. DOMAIN Path(s, d) = 0..(d - 1) /\ DOMAIN Path(t, e) = 0..(e - 1)
  BY DEF Path
<1>2. ASSUME Path(s, d) = Path(t, e) PROVE d = e /\ Agree(s, t, d)
  <2>1. 0..(d - 1) = 0..(e - 1)
    BY <1>1, <1>2
  <2>2. d = e
    BY <2>1, <1>0, IntervalEq
  <2>3. ASSUME NEW i \in 0..(d - 1) PROVE PathBit[s][i] = PathBit[t][i]
    <3>1. Path(s, d)[i] = PathBit[s][i]
      BY DEF Path
    <3>2. Path(t, e)[i] = PathBit[t][i]
      BY <2>2 DEF Path
    <3>3. QED
      BY <3>1, <3>2, <1>2
  <2>4. QED
    BY <2>2, <2>3 DEF Agree
<1>3. ASSUME d = e, Agree(s, t, d) PROVE Path(s, d) = Path(t, e)
  BY <1>3 DEF Path, Agree
<1>4. QED
  BY <1>2, <1>3

LEMMA SiblingEq ==
  ASSUME NEW s \in Stem, NEW t \in Stem, NEW d \in 1..Depth, NEW e \in 0..Depth
  PROVE  (Sibling(s, d) = Path(t, e)) <=>
           (d = e /\ Agree(s, t, d - 1) /\ PathBit[s][d - 1] # PathBit[t][d - 1])
<1>0. d \in Nat /\ e \in Nat /\ d - 1 \in 0..(d - 1) /\ d - 1 \in 0..(Depth - 1)
  BY ConstantAssumption
<1>1. DOMAIN Sibling(s, d) = 0..(d - 1) /\ DOMAIN Path(t, e) = 0..(e - 1)
  BY DEF Path, Sibling
<1>b. PathBit[s][d - 1] \in {0, 1} /\ PathBit[t][d - 1] \in {0, 1}
  BY <1>0, Bits
<1>2. ASSUME Sibling(s, d) = Path(t, e)
      PROVE  d = e /\ Agree(s, t, d - 1) /\ PathBit[s][d - 1] # PathBit[t][d - 1]
  <2>1. 0..(d - 1) = 0..(e - 1)
    BY <1>1, <1>2
  <2>2. d = e
    BY <2>1, <1>0, IntervalEq
  <2>3. ASSUME NEW i \in 0..(d - 1)
        PROVE  PathBit[t][i] = IF i = d - 1 THEN 1 - PathBit[s][i] ELSE PathBit[s][i]
    <3>1. Sibling(s, d)[i] = IF i = d - 1 THEN 1 - PathBit[s][i] ELSE PathBit[s][i]
      BY DEF Sibling
    <3>2. Path(t, e)[i] = PathBit[t][i]
      BY <2>2 DEF Path
    <3>3. QED
      BY <3>1, <3>2, <1>2
  <2>4. PathBit[t][d - 1] = 1 - PathBit[s][d - 1]
    BY <2>3, <1>0
  <2>5. ASSUME NEW i \in 0..((d - 1) - 1) PROVE PathBit[s][i] = PathBit[t][i]
    <3>1. i \in 0..(d - 1) /\ i # d - 1
      BY <1>0
    <3>2. QED
      BY <2>3, <3>1
  <2>6. QED
    BY <2>2, <2>4, <2>5, <1>b DEF Agree
<1>3. ASSUME d = e, Agree(s, t, d - 1), PathBit[s][d - 1] # PathBit[t][d - 1]
      PROVE  Sibling(s, d) = Path(t, e)
  <2>1. PathBit[t][d - 1] = 1 - PathBit[s][d - 1]
    BY <1>3, <1>b
  <2>2. ASSUME NEW i \in 0..(d - 1)
        PROVE  (IF i = d - 1 THEN 1 - PathBit[s][i] ELSE PathBit[s][i]) = PathBit[t][i]
    <3>1. CASE i = d - 1
      BY <3>1, <2>1
    <3>2. CASE i # d - 1
      <4>1. i \in 0..((d - 1) - 1)
        BY <3>2, <1>0
      <4>2. QED
        BY <4>1, <3>2, <1>3 DEF Agree
    <3>3. QED
      BY <3>1, <3>2
  <2>3. QED
    BY <2>2, <1>3 DEF Sibling, Path
<1>4. QED
  BY <1>2, <1>3

LEMMA PathIsPosition ==
  ASSUME NEW s \in Stem, NEW d \in 0..Depth
  PROVE  Path(s, d) \in Position
<1>1. d \in Nat /\ 0..(d - 1) \subseteq 0..(Depth - 1)
  BY ConstantAssumption
<1>2. Path(s, d) \in [0..(d - 1) -> {0, 1}]
  BY <1>1, Bits DEF Path
<1>3. QED
  BY <1>2 DEF Position

LEMMA SiblingIsPosition ==
  ASSUME NEW s \in Stem, NEW d \in 1..Depth
  PROVE  Sibling(s, d) \in Position
<1>1. d \in Nat /\ 0..(d - 1) \subseteq 0..(Depth - 1) /\ d \in 0..Depth
  BY ConstantAssumption
<1>2. ASSUME NEW i \in 0..(d - 1)
      PROVE  (IF i = d - 1 THEN 1 - PathBit[s][i] ELSE PathBit[s][i]) \in {0, 1}
  <2>1. PathBit[s][i] \in {0, 1}
    BY <1>1, Bits
  <2>2. QED
    BY <2>1
<1>3. Sibling(s, d) \in [0..(d - 1) -> {0, 1}]
  BY <1>2 DEF Sibling
<1>4. QED
  BY <1>1, <1>3 DEF Position

LEMMA BelowPath ==
  ASSUME NEW s \in Stem, NEW t \in Stem, NEW d \in 0..Depth
  PROVE  Below(t, Path(s, d)) <=> Agree(s, t, d)
<1>1. \A e \in 0..Depth : (Path(s, d) = Path(t, e)) <=> (d = e /\ Agree(s, t, d))
  BY PathEq
<1>2. QED
  BY <1>1 DEF Below

LEMMA AgreeIsEquivalence ==
  /\ \A s \in Stem, d \in 0..Depth : Agree(s, s, d)
  /\ \A s, t \in Stem, d \in 0..Depth : Agree(s, t, d) => Agree(t, s, d)
  /\ \A s, t, u \in Stem, d \in 0..Depth :
       Agree(s, t, d) /\ Agree(t, u, d) => Agree(s, u, d)
BY DEF Agree

LEMMA AgreeAbove ==
  ASSUME NEW s \in Stem, NEW t \in Stem, NEW d \in 0..Depth, NEW e \in 0..d,
         Agree(s, t, d)
  PROVE  Agree(s, t, e)
<1>1. 0..(e - 1) \subseteq 0..(d - 1)
  BY ConstantAssumption
<1>2. QED
  BY <1>1 DEF Agree

LEMMA AgreeStep ==
  ASSUME NEW s \in Stem, NEW t \in Stem, NEW d \in 0..(Depth - 1)
  PROVE  Agree(s, t, d + 1) <=> Agree(s, t, d) /\ PathBit[s][d] = PathBit[t][d]
<1>1. \A i \in 0..((d + 1) - 1) : i = d \/ i \in 0..(d - 1)
  BY ConstantAssumption
<1>2. d \in 0..((d + 1) - 1) /\ 0..(d - 1) \subseteq 0..((d + 1) - 1)
  BY ConstantAssumption
<1>3. QED
  BY <1>1, <1>2 DEF Agree

\* Two stems are never on the same side at every level.
LEMMA AgreeEnds ==
  ASSUME NEW s \in Stem, NEW t \in Stem, Agree(s, t, Depth)
  PROVE  s = t
BY PathsDiverge DEF Agree

\* Two stems that do not agree down to depth d part at one depth above it.
LEMMA Parting ==
  ASSUME NEW s \in Stem, NEW t \in Stem, NEW d \in 0..Depth, ~ Agree(s, t, d)
  PROVE  \E j \in 1..d : Agree(s, t, j - 1) /\ PathBit[s][j - 1] # PathBit[t][j - 1]
<1> DEFINE S == {i \in 0..(d - 1) : PathBit[s][i] # PathBit[t][i]}
<1>1. S # {} /\ S \subseteq Nat
  BY DEF Agree
<1>2. Least(S) \in S /\ \A m \in S : Least(S) <= m
  <2> HIDE DEF S
  <2> QED
    BY <1>1, LeastIsLeast
<1> DEFINE n == Least(S)
<1> HIDE DEF n
<1>3. n \in 0..(d - 1) /\ \A i \in 0..(n - 1) : i \in 0..(d - 1) /\ ~ (n <= i)
  BY <1>2, ConstantAssumption DEF n
<1>4. Agree(s, t, n) /\ PathBit[s][n] # PathBit[t][n]
  BY <1>2, <1>3 DEF Agree, n
<1>5. n + 1 \in 1..d /\ (n + 1) - 1 = n
  BY <1>3, ConstantAssumption
<1>6. QED
  BY <1>4, <1>5

-----------------------------------------------------------------------------
(* The canonical tree of a set of stems *)

LEMMA NodeKinds ==
  /\ Empty # Internal /\ ~ IsStem(Empty) /\ ~ IsStem(Internal)
  /\ \A s, vs : /\ IsStem(StemNode(s, vs))
                /\ StemNode(s, vs) # Empty
                /\ StemNode(s, vs) # Internal
                /\ StemNode(s, vs).prefix = s
                /\ StemNode(s, vs).values = vs
<1>1. Empty.kind = "empty" /\ Internal.kind = "internal"
  BY DEF Empty, Internal
<1>2. \A s, vs : /\ StemNode(s, vs).kind = "stem"
                 /\ StemNode(s, vs).prefix = s
                 /\ StemNode(s, vs).values = vs
  BY DEF StemNode
<1>3. QED
  BY <1>1, <1>2 DEF IsStem

\* A set of live stems, and the leaves of every stem.
Stored(L, lv) ==
  /\ L \subseteq Stem
  /\ lv \in [Stem -> Leaves]
  /\ \A s \in Stem \ L : lv[s] = NoLeaves

LEMMA CrowdedPath ==
  ASSUME NEW L, L \subseteq Stem, NEW s \in Stem, NEW d \in 0..Depth
  PROVE  Crowded(L, Path(s, d)) <=>
           \E t, u \in L : t # u /\ Agree(s, t, d) /\ Agree(s, u, d)
BY BelowPath DEF Crowded

LEMMA HangsPath ==
  ASSUME NEW L, L \subseteq Stem, NEW s \in L, NEW t \in Stem, NEW d \in 0..Depth
  PROVE  Hangs(L, s, Path(t, d)) <=>
           /\ Agree(t, s, d)
           /\ ~ Crowded(L, Path(t, d))
           /\ d = 0 \/ Crowded(L, Path(s, d - 1))
<1>1. \A e \in 0..Depth : (Path(t, d) = Path(s, e)) <=> (d = e /\ Agree(t, s, d))
  BY PathEq
<1>2. QED
  BY <1>1 DEF Hangs

LEMMA HangsAlone ==
  ASSUME NEW L, L \subseteq Stem, NEW s \in L, NEW t \in L, NEW p,
         Hangs(L, s, p), Hangs(L, t, p)
  PROVE  s = t
BY DEF Hangs, Crowded, Below

LEMMA CanonicalNode ==
  ASSUME NEW L, L \subseteq Stem, NEW lv, NEW p \in Position
  PROVE  LET n == CanonicalTree(L, lv)[p] IN
         /\ Crowded(L, p) => n = Internal
         /\ \A s \in L : Hangs(L, s, p) => n = StemNode(s, lv[s])
         /\ ~ Crowded(L, p) /\ (\A s \in L : ~ Hangs(L, s, p)) => n = Empty
<1>1. \A s \in L : Hangs(L, s, p) => ~ Crowded(L, p)
  BY DEF Hangs
<1>2. ASSUME NEW s \in L, Hangs(L, s, p)
      PROVE  CanonicalTree(L, lv)[p] = StemNode(s, lv[s])
  <2>1. \A t \in L : Hangs(L, t, p) => t = s
    BY <1>2, HangsAlone
  <2>2. (CHOOSE t \in L : Hangs(L, t, p)) = s
    BY <1>2, <2>1
  <2>3. QED
    BY <1>1, <1>2, <2>2 DEF CanonicalTree
<1>3. QED
  BY <1>2 DEF CanonicalTree

LEMMA CanonicalTreeType ==
  ASSUME NEW L, NEW lv, Stored(L, lv)
  PROVE  CanonicalTree(L, lv) \in [Position -> Node]
<1>1. ASSUME NEW p \in Position PROVE CanonicalTree(L, lv)[p] \in Node
  <2>1. CASE \E s \in L : Hangs(L, s, p)
    BY <2>1, CanonicalNode DEF Stored, Node, StemNodes
  <2>2. CASE ~ \E s \in L : Hangs(L, s, p)
    BY <2>2, CanonicalNode DEF Stored, Node
  <2>3. QED
    BY <2>1, <2>2
<1>2. QED
  BY <1>1 DEF CanonicalTree

\* A tree is canonical if each of its nodes is.
LEMMA CanonicalByNode ==
  ASSUME NEW L, L \subseteq Stem, NEW lv, NEW t, t = [p \in Position |-> t[p]],
         \A p \in Position :
           \/ Crowded(L, p) /\ t[p] = Internal
           \/ \E s \in L : Hangs(L, s, p) /\ t[p] = StemNode(s, lv[s])
           \/ ~ Crowded(L, p) /\ (\A s \in L : ~ Hangs(L, s, p)) /\ t[p] = Empty
  PROVE  t = CanonicalTree(L, lv)
<1>1. ASSUME NEW p \in Position PROVE t[p] = CanonicalTree(L, lv)[p]
  <2> DEFINE n == CanonicalTree(L, lv)[p]
  <2>1. /\ Crowded(L, p) => n = Internal
        /\ \A s \in L : Hangs(L, s, p) => n = StemNode(s, lv[s])
        /\ ~ Crowded(L, p) /\ (\A s \in L : ~ Hangs(L, s, p)) => n = Empty
    BY CanonicalNode
  <2> HIDE DEF n
  <2>2. t[p] = n
    BY <2>1
  <2>3. QED
    BY <2>2 DEF n
<1>2. CanonicalTree(L, lv) = [p \in Position |-> CanonicalTree(L, lv)[p]]
  BY DEF CanonicalTree
<1>3. QED
  BY <1>1, <1>2

-----------------------------------------------------------------------------
(* Where the descent stops in a canonical tree *)

LEMMA Descent ==
  ASSUME NEW L, NEW lv, Stored(L, lv), NEW t, t = CanonicalTree(L, lv),
         NEW s \in Stem
  PROVE  /\ StopDepth(t, s) \in 0..Depth
         /\ ~ Crowded(L, Path(s, StopDepth(t, s)))
         /\ \A j \in 0..(StopDepth(t, s) - 1) : Crowded(L, Path(s, j))
<1> DEFINE D == {d \in 0..Depth : t[Path(s, d)] # Internal}
<1>1. \A d \in 0..Depth : d \in D <=> ~ Crowded(L, Path(s, d))
  <2> SUFFICES ASSUME NEW d \in 0..Depth
               PROVE  t[Path(s, d)] # Internal <=> ~ Crowded(L, Path(s, d))
    OBVIOUS
  <2>1. Path(s, d) \in Position
    BY PathIsPosition
  <2>2. CASE Crowded(L, Path(s, d))
    BY <2>1, <2>2, CanonicalNode DEF Stored
  <2>3. CASE \E u \in L : Hangs(L, u, Path(s, d))
    <3>1. PICK u \in L : Hangs(L, u, Path(s, d))
      BY <2>3
    <3>2. t[Path(s, d)] = StemNode(u, lv[u])
      BY <2>1, <3>1, CanonicalNode DEF Stored
    <3>3. QED
      BY <3>1, <3>2, NodeKinds DEF Hangs
  <2>4. CASE ~ Crowded(L, Path(s, d)) /\ \A u \in L : ~ Hangs(L, u, Path(s, d))
    BY <2>1, <2>4, CanonicalNode, NodeKinds DEF Stored
  <2>5. QED
    BY <2>2, <2>3, <2>4
<1>2. Depth \in 0..Depth /\ D \subseteq Nat
  BY ConstantAssumption
<1>3. ~ Crowded(L, Path(s, Depth))
  BY <1>2, CrowdedPath, AgreeEnds DEF Stored
<1>4. StopDepth(t, s) \in D /\ \A d \in D : StopDepth(t, s) <= d
  <2>1. D # {}
    BY <1>1, <1>2, <1>3
  <2>2. QED
    BY <1>2, <2>1, LeastIsLeast DEF StopDepth
<1>5. ASSUME NEW j \in 0..(StopDepth(t, s) - 1) PROVE Crowded(L, Path(s, j))
  <2>1. j \in 0..Depth /\ ~ (StopDepth(t, s) <= j)
    BY <1>4, ConstantAssumption
  <2>2. QED
    BY <2>1, <1>4, <1>1
<1>6. QED
  BY <1>1, <1>4, <1>5

\* A lone stem below a crowded position, or below the root, hangs there.
LEMMA LoneStem ==
  ASSUME NEW L, L \subseteq Stem, NEW s \in Stem, NEW d \in 0..Depth,
         NEW u \in L, Agree(s, u, d), ~ Crowded(L, Path(s, d)),
         d = 0 \/ Crowded(L, Path(s, d - 1))
  PROVE  Hangs(L, u, Path(s, d))
<1>1. CASE d = 0
  BY <1>1, HangsPath
<1>2. CASE d # 0
  <2>1. d - 1 \in 0..d /\ d - 1 \in 0..Depth
    BY <1>2, ConstantAssumption
  <2>2. Agree(s, u, d - 1)
    BY <2>1, AgreeAbove
  <2>3. Path(s, d - 1) = Path(u, d - 1)
    BY <2>1, <2>2, PathEq
  <2>4. QED
    BY <1>2, <2>3, HangsPath
<1>3. QED
  BY <1>1, <1>2

LEMMA ReachedNode ==
  ASSUME NEW L, NEW lv, Stored(L, lv), NEW t, t = CanonicalTree(L, lv),
         NEW s \in Stem
  PROVE  LET k == StopDepth(t, s) IN
         \/ Reached(t, s) = Empty /\ \A u \in L : ~ Agree(s, u, k)
         \/ \E r \in L : /\ Reached(t, s) = StemNode(r, lv[r])
                         /\ Agree(s, r, k)
                         /\ \A u \in L : Agree(s, u, k) => u = r
<1> DEFINE k == StopDepth(t, s)
<1>1. /\ k \in 0..Depth
      /\ ~ Crowded(L, Path(s, k))
      /\ \A j \in 0..(k - 1) : Crowded(L, Path(s, j))
  BY Descent
<1>2. k = 0 \/ Crowded(L, Path(s, k - 1))
  BY <1>1, ConstantAssumption
<1>3. \A u \in L : Agree(s, u, k) => Hangs(L, u, Path(s, k))
  BY <1>1, <1>2, LoneStem DEF Stored
<1>4. \A u \in L : Hangs(L, u, Path(s, k)) => Agree(s, u, k)
  BY <1>1, HangsPath DEF Stored
<1>5. Path(s, k) \in Position
  BY <1>1, PathIsPosition
<1>6. CASE \E u \in L : Agree(s, u, k)
  <2>1. PICK r \in L : Agree(s, r, k)
    BY <1>6
  <2>2. Reached(t, s) = StemNode(r, lv[r])
    BY <2>1, <1>3, <1>5, CanonicalNode DEF Stored, Reached
  <2>3. \A u \in L : Agree(s, u, k) => u = r
    BY <2>1, <1>1, CrowdedPath DEF Stored
  <2>4. QED
    BY <2>1, <2>2, <2>3
<1>7. CASE ~ \E u \in L : Agree(s, u, k)
  <2>1. Reached(t, s) = Empty
    BY <1>7, <1>1, <1>4, <1>5, CanonicalNode DEF Stored, Reached
  <2>2. QED
    BY <2>1, <1>7
<1>8. QED
  BY <1>6, <1>7

\* get returns what was stored, in every canonical tree.
LEMMA GetCanonical ==
  ASSUME NEW L, NEW lv, Stored(L, lv), NEW t, t = CanonicalTree(L, lv),
         NEW s \in Stem, NEW i \in Subindex
  PROVE  Get(t, s, i) = lv[s][i]
<1> DEFINE k == StopDepth(t, s)
<1>1. k \in 0..Depth /\ Agree(s, s, k)
  BY Descent, AgreeIsEquivalence
<1>2. CASE s \in L
  <2>1. Reached(t, s) = StemNode(s, lv[s])
    BY <1>1, <1>2, ReachedNode
  <2>2. QED
    BY <2>1, NodeKinds DEF Get, Holds
<1>3. CASE s \notin L
  <2>1. ~ Holds(Reached(t, s), s)
    BY <1>3, ReachedNode, NodeKinds DEF Holds
  <2>2. lv[s][i] = EmptyValue
    BY <1>3 DEF Stored, NoLeaves
  <2>3. QED
    BY <2>1, <2>2 DEF Get
<1>4. QED
  BY <1>2, <1>3

LEMMA CrowdedAbove ==
  ASSUME NEW L, L \subseteq Stem, NEW s \in Stem, NEW d \in 0..Depth,
         NEW e \in 0..d, Crowded(L, Path(s, d))
  PROVE  Crowded(L, Path(s, e))
<1>1. PICK t, u \in L : t # u /\ Agree(s, t, d) /\ Agree(s, u, d)
  BY CrowdedPath
<1>2. Agree(s, t, e) /\ Agree(s, u, e)
  BY <1>1, AgreeAbove
<1>3. e \in 0..Depth
  BY ConstantAssumption
<1>4. QED
  BY <1>1, <1>2, <1>3, CrowdedPath

\* The position where a stem hangs is the first that is not crowded.
LEMMA HangsFirst ==
  ASSUME NEW L, L \subseteq Stem, NEW s \in Stem, NEW k \in 0..Depth,
         ~ Crowded(L, Path(s, k)), k = 0 \/ Crowded(L, Path(s, k - 1))
  PROVE  \A p : Hangs(L, s, p) <=> p = Path(s, k)
<1>1. Hangs(L, s, Path(s, k))
  BY DEF Hangs
<1>2. ASSUME NEW p, Hangs(L, s, p) PROVE p = Path(s, k)
  <2>1. PICK d \in 0..Depth : /\ p = Path(s, d)
                              /\ ~ Crowded(L, Path(s, d))
                              /\ d = 0 \/ Crowded(L, Path(s, d - 1))
    BY <1>2 DEF Hangs
  <2>2. ~ (d < k)
    <3>1. SUFFICES ASSUME d < k PROVE FALSE
      OBVIOUS
    <3>2. k # 0 /\ k - 1 \in 0..Depth /\ d \in 0..(k - 1)
      BY <3>1, ConstantAssumption
    <3>3. QED
      BY <3>2, <2>1, CrowdedAbove
  <2>3. ~ (k < d)
    <3>1. SUFFICES ASSUME k < d PROVE FALSE
      OBVIOUS
    <3>2. d # 0 /\ d - 1 \in 0..Depth /\ k \in 0..(d - 1)
      BY <3>1, ConstantAssumption
    <3>3. QED
      BY <3>2, <2>1, CrowdedAbove
  <2>4. d = k
    BY <2>2, <2>3, ConstantAssumption
  <2>5. QED
    BY <2>1, <2>4
<1>3. QED
  BY <1>1, <1>2

\* Where the descent stops, a stem hangs or would hang.
LEMMA StopHangs ==
  ASSUME NEW L, NEW lv, Stored(L, lv), NEW t, t = CanonicalTree(L, lv),
         NEW s \in Stem
  PROVE  \A p : Hangs(L, s, p) <=> p = Path(s, StopDepth(t, s))
<1> DEFINE k == StopDepth(t, s)
<1>1. /\ k \in 0..Depth
      /\ ~ Crowded(L, Path(s, k))
      /\ \A j \in 0..(k - 1) : Crowded(L, Path(s, j))
  BY Descent
<1>2. k = 0 \/ Crowded(L, Path(s, k - 1))
  BY <1>1, ConstantAssumption
<1> HIDE DEF k
<1>3. \A p : Hangs(L, s, p) <=> p = Path(s, k)
  BY <1>1, <1>2, HangsFirst DEF Stored
<1>4. QED
  BY <1>3 DEF k

\* Writing leaf i of stem s.
Written(lv, s, i, v) == [lv EXCEPT ![s] = [lv[s] EXCEPT ![i] = v]]

LEMMA WrittenType ==
  ASSUME NEW lv \in [Stem -> Leaves], NEW s \in Stem, NEW i \in Subindex,
         NEW v \in Value
  PROVE  /\ Written(lv, s, i, v) \in [Stem -> Leaves]
         /\ Written(lv, s, i, v)[s] = [lv[s] EXCEPT ![i] = v]
         /\ \A u \in Stem : u # s => Written(lv, s, i, v)[u] = lv[u]
BY DEF Written, Leaves

LEMMA StoredWrite ==
  ASSUME NEW L, NEW lv, Stored(L, lv), NEW s \in Stem, NEW i \in Subindex,
         NEW v \in Value
  PROVE  Stored(L \cup {s}, Written(lv, s, i, v))
<1> DEFINE lw == Written(lv, s, i, v)
<1>0. lv \in [Stem -> Leaves]
  BY DEF Stored
<1>1. lw \in [Stem -> Leaves] /\ \A u \in Stem : u # s => lw[u] = lv[u]
  BY <1>0 DEF Written, Leaves
<1> HIDE DEF lw
<1>2. \A u \in Stem \ (L \cup {s}) : lw[u] = NoLeaves
  BY <1>1 DEF Stored
<1>3. Stored(L \cup {s}, lw)
  BY <1>1, <1>2 DEF Stored
<1>4. QED
  BY <1>3 DEF lw

-----------------------------------------------------------------------------
(* insert keeps the tree canonical *)

LEMMA PlaceStep ==
  ASSUME NEW L, NEW lv, Stored(L, lv), tree = CanonicalTree(L, lv),
         NEW s \in Stem, NEW i \in Subindex, NEW v \in Value, Place(s, i, v)
  PROVE  tree' = CanonicalTree(L \cup {s}, Written(lv, s, i, v))
<1> DEFINE k  == StopDepth(tree, s)
           M  == L \cup {s}
           lw == Written(lv, s, i, v)
<1>1. /\ k \in 0..Depth
      /\ \A j \in 0..(k - 1) : Crowded(L, Path(s, j))
  BY Descent
<1>2. \A u \in L : ~ Agree(s, u, k)
  BY ReachedNode, NodeKinds DEF Place
<1>3. tree' = [tree EXCEPT ![Path(s, k)] = NewStem(s, i, v)]
  BY DEF Place
<1>h. \A p : Hangs(L, s, p) <=> p = Path(s, k)
  BY StopHangs
<1> HIDE DEF k
<1>4. L \subseteq Stem /\ M \subseteq Stem
  BY DEF Stored
<1>5. s \notin L
  BY <1>1, <1>2, AgreeIsEquivalence
<1>6. ASSUME NEW q PROVE Crowded(M, q) <=> Crowded(L, q)
  <2>1. ASSUME NEW u \in L, Below(s, q), Below(u, q) PROVE Crowded(L, q)
    <3>1. PICK j \in 0..Depth : q = Path(s, j)
      BY <2>1 DEF Below
    <3>2. Agree(s, u, j)
      BY <3>1, <2>1, <1>4, BelowPath
    <3>3. ~ (k <= j)
      BY <3>2, <1>1, <1>2, <1>4, AgreeAbove, ConstantAssumption
    <3>4. j \in 0..(k - 1)
      BY <3>3, <1>1, ConstantAssumption
    <3>5. QED
      BY <3>1, <3>4, <1>1
  <2>2. QED
    BY <2>1 DEF Crowded
<1>7. \A u, p : Hangs(M, u, p) <=> Hangs(L, u, p)
  BY <1>6 DEF Hangs
<1>8. lw[s] = NewStem(s, i, v).values /\ \A u \in L : lw[u] = lv[u]
  <2>1. lv[s] = NoLeaves
    BY <1>5 DEF Stored
  <2>2. QED
    BY <2>1, <1>4, <1>5, WrittenType, NodeKinds DEF NewStem, Stored
<1>9. NewStem(s, i, v) = StemNode(s, lw[s])
  BY <1>8, NodeKinds DEF NewStem
<1>10. tree = [p \in Position |-> tree[p]] /\ Path(s, k) \in Position
  BY <1>1, PathIsPosition DEF CanonicalTree
<1> HIDE DEF lw
<1>11. ASSUME NEW p \in Position
       PROVE \/ Crowded(M, p) /\ tree'[p] = Internal
             \/ \E u \in M : Hangs(M, u, p) /\ tree'[p] = StemNode(u, lw[u])
             \/ ~ Crowded(M, p) /\ (\A u \in M : ~ Hangs(M, u, p)) /\ tree'[p] = Empty
  <2>1. CASE p = Path(s, k)
    BY <2>1, <1>3, <1>9, <1>h, <1>7, <1>10
  <2>2. CASE p # Path(s, k)
    <3>1. tree'[p] = tree[p] /\ ~ Hangs(M, s, p)
      BY <2>2, <1>3, <1>10, <1>h, <1>7
    <3>2. CASE Crowded(L, p)
      BY <3>1, <3>2, <1>6, <1>4, CanonicalNode
    <3>3. CASE \E u \in L : Hangs(L, u, p)
      <4>1. PICK u \in L : Hangs(L, u, p)
        BY <3>3
      <4>2. tree[p] = StemNode(u, lv[u])
        BY <4>1, <1>4, CanonicalNode
      <4>3. QED
        BY <4>1, <4>2, <3>1, <1>7, <1>8
    <3>4. CASE ~ Crowded(L, p) /\ \A u \in L : ~ Hangs(L, u, p)
      <4>1. tree[p] = Empty
        BY <3>4, <1>4, CanonicalNode
      <4>2. QED
        BY <4>1, <3>4, <3>1, <1>6, <1>7
    <3>5. QED
      BY <3>2, <3>3, <3>4
  <2>3. QED
    BY <2>1, <2>2
<1>12. tree' = [p \in Position |-> tree'[p]]
  BY <1>3, <1>10
<1>13. tree' = CanonicalTree(M, lw)
  BY <1>4, <1>11, <1>12, CanonicalByNode
<1>14. QED
  BY <1>13 DEF lw

\* Replacing the node of a stem that has one.
LEMMA ReplaceLeaves ==
  ASSUME NEW L, NEW lv, Stored(L, lv), NEW t, t = CanonicalTree(L, lv),
         NEW s \in L, NEW lw, \A u \in L \ {s} : lw[u] = lv[u], NEW t2,
         t2 = [t EXCEPT ![Path(s, StopDepth(t, s))] = StemNode(s, lw[s])]
  PROVE  t2 = CanonicalTree(L, lw)
<1> DEFINE k == StopDepth(t, s)
<1>1. k \in 0..Depth /\ s \in Stem /\ L \subseteq Stem
  BY Descent DEF Stored
<1>2. \A p : Hangs(L, s, p) <=> p = Path(s, k)
  BY <1>1, StopHangs
<1> HIDE DEF k
<1>3. t = [p \in Position |-> t[p]] /\ Path(s, k) \in Position
  BY <1>1, PathIsPosition DEF CanonicalTree
<1>4. t2 = [t EXCEPT ![Path(s, k)] = StemNode(s, lw[s])]
  BY DEF k
<1>5. ASSUME NEW p \in Position
      PROVE \/ Crowded(L, p) /\ t2[p] = Internal
            \/ \E u \in L : Hangs(L, u, p) /\ t2[p] = StemNode(u, lw[u])
            \/ ~ Crowded(L, p) /\ (\A u \in L : ~ Hangs(L, u, p)) /\ t2[p] = Empty
  <2>1. CASE p = Path(s, k)
    BY <2>1, <1>2, <1>3, <1>4
  <2>2. CASE p # Path(s, k)
    <3>1. t2[p] = t[p] /\ ~ Hangs(L, s, p)
      BY <2>2, <1>2, <1>3, <1>4
    <3>2. CASE Crowded(L, p)
      BY <3>1, <3>2, <1>1, CanonicalNode
    <3>3. CASE \E u \in L : Hangs(L, u, p)
      <4>1. PICK u \in L : Hangs(L, u, p)
        BY <3>3
      <4>2. t[p] = StemNode(u, lv[u])
        BY <4>1, <1>1, CanonicalNode
      <4>3. QED
        BY <4>1, <4>2, <3>1
    <3>4. CASE ~ Crowded(L, p) /\ \A u \in L : ~ Hangs(L, u, p)
      <4>1. t[p] = Empty
        BY <3>4, <1>1, CanonicalNode
      <4>2. QED
        BY <4>1, <3>4, <3>1
    <3>5. QED
      BY <3>2, <3>3, <3>4
  <2>3. QED
    BY <2>1, <2>2
<1>6. t2 = [p \in Position |-> t2[p]]
  BY <1>3, <1>4
<1>7. QED
  BY <1>1, <1>5, <1>6, CanonicalByNode

LEMMA OverwriteStep ==
  ASSUME NEW L, NEW lv, Stored(L, lv), tree = CanonicalTree(L, lv),
         NEW s \in Stem, NEW i \in Subindex, NEW v \in Value, Overwrite(s, i, v)
  PROVE  tree' = CanonicalTree(L \cup {s}, Written(lv, s, i, v))
<1> DEFINE lw == Written(lv, s, i, v)
<1>1. s \in L /\ Reached(tree, s) = StemNode(s, lv[s])
  BY ReachedNode, NodeKinds DEF Overwrite, Holds
<1>2. lw[s] = [lv[s] EXCEPT ![i] = v] /\ \A u \in L \ {s} : lw[u] = lv[u]
  BY WrittenType DEF Stored
<1> HIDE DEF lw
<1>v. Reached(tree, s).values = lv[s]
  BY <1>1, NodeKinds
<1>3. tree' = [tree EXCEPT ![Path(s, StopDepth(tree, s))] = StemNode(s, lw[s])]
  BY <1>v, <1>2 DEF Overwrite
<1>4. tree' = CanonicalTree(L, lw)
  BY <1>1, <1>2, <1>3, ReplaceLeaves
<1>5. L \cup {s} = L
  BY <1>1
<1>6. QED
  BY <1>4, <1>5 DEF lw

LEMMA SplitStep ==
  ASSUME NEW L, NEW lv, Stored(L, lv), tree = CanonicalTree(L, lv),
         NEW s \in Stem, NEW i \in Subindex, NEW v \in Value, Split(s, i, v)
  PROVE  tree' = CanonicalTree(L \cup {s}, Written(lv, s, i, v))
<1> DEFINE k  == StopDepth(tree, s)
           r  == Reached(tree, s).prefix
           e  == ForkDepth(s, r, k)
           M  == L \cup {s}
           lw == Written(lv, s, i, v)
<1>1. /\ k \in 0..Depth
      /\ \A j \in 0..(k - 1) : Crowded(L, Path(s, j))
  BY Descent
<1>2. /\ r \in L /\ r # s
      /\ Reached(tree, s) = StemNode(r, lv[r])
      /\ Agree(s, r, k)
      /\ \A u \in L : Agree(s, u, k) => u = r
  BY ReachedNode, NodeKinds DEF Split
<1>3. \A p \in Position :
        tree'[p] = CASE p = Path(s, e + 1)             -> NewStem(s, i, v)
                     [] p = Path(r, e + 1)             -> StemNode(r, lv[r])
                     [] \E j \in k..e : p = Path(s, j) -> Internal
                     [] OTHER                          -> tree[p]
  BY <1>2 DEF Split, Fork
<1>d. tree' = [p \in Position |-> tree'[p]]
  BY DEF Split, Fork
<1>4. L \subseteq Stem /\ M \subseteq Stem /\ r \in Stem
  BY <1>2 DEF Stored
<1> HIDE DEF k, r
<1>5. /\ e \in k..(Depth - 1)
      /\ PathBit[s][e] # PathBit[r][e]
      /\ \A j \in k..(e - 1) : PathBit[s][j] = PathBit[r][j]
  <2> DEFINE J == {j \in k..(Depth - 1) : PathBit[s][j] # PathBit[r][j]}
  <2>1. J # {} /\ J \subseteq Nat
    <3>1. PICK j \in 0..(Depth - 1) : PathBit[s][j] # PathBit[r][j]
      BY <1>2, <1>4, PathsDiverge
    <3>2. ~ (j \in 0..(k - 1))
      BY <3>1, <1>2 DEF Agree
    <3>3. j \in k..(Depth - 1)
      BY <3>2, <1>1, ConstantAssumption
    <3>4. k \in Nat
      BY <1>1, ConstantAssumption
    <3>5. QED
      BY <3>1, <3>3, <3>4
  <2>2. Least(J) \in J /\ \A m \in J : Least(J) <= m
    <3> HIDE DEF J
    <3> QED
      BY <2>1, LeastIsLeast
  <2>3. e = Least(J)
    BY DEF ForkDepth
  <2> HIDE DEF e
  <2>4. e \in J /\ \A m \in J : e <= m
    BY <2>2, <2>3
  <2>5. ASSUME NEW j \in k..(e - 1) PROVE PathBit[s][j] = PathBit[r][j]
    <3>1. j \in k..(Depth - 1) /\ ~ (e <= j)
      BY <2>4, <1>1, ConstantAssumption
    <3>2. QED
      BY <3>1, <2>4
  <2>6. QED
    BY <2>4, <2>5
<1> HIDE DEF e
<1>6. /\ e \in 0..Depth /\ e + 1 \in 0..Depth /\ (e + 1) - 1 = e /\ e + 1 # 0
      /\ k \in 0..e /\ e \in 0..(Depth - 1) /\ k \in 0..(e + 1)
  BY <1>5, <1>1, ConstantAssumption
<1>7. Agree(s, r, e) /\ ~ Agree(s, r, e + 1)
  <2>1. \A j \in 0..(e - 1) : j \in 0..(k - 1) \/ j \in k..(e - 1)
    BY <1>5, <1>1, ConstantAssumption
  <2>2. Agree(s, r, e)
    BY <2>1, <1>2, <1>5 DEF Agree
  <2>3. QED
    BY <2>2, <1>5, <1>6, <1>4, AgreeStep
\* The positions that become InternalNodes.
<1> DEFINE Chain(q) == \E j \in k..e : q = Path(s, j)
<1>8. ASSUME NEW q PROVE Crowded(M, q) <=> Crowded(L, q) \/ Chain(q)
  <2>1. ASSUME Chain(q) PROVE Crowded(M, q)
    <3>1. PICK j \in k..e : q = Path(s, j)
      BY <2>1
    <3>2. j \in 0..Depth /\ j \in 0..e
      BY <1>6, <1>1, ConstantAssumption
    <3>3. Agree(s, s, j) /\ Agree(s, r, j)
      BY <3>2, <1>6, <1>4, <1>7, AgreeAbove, AgreeIsEquivalence
    <3>4. QED
      BY <3>1, <3>2, <3>3, <1>2, <1>4, CrowdedPath
  <2>2. ASSUME NEW u \in L, Below(s, q), Below(u, q), u # s
        PROVE  Crowded(L, q) \/ Chain(q)
    <3>1. PICK j \in 0..Depth : q = Path(s, j)
      BY <2>2 DEF Below
    <3>2. Agree(s, u, j)
      BY <3>1, <2>2, <1>4, BelowPath
    <3>3. CASE j < k
      <4>1. j \in 0..(k - 1)
        BY <3>3, <1>1, ConstantAssumption
      <4>2. QED
        BY <3>1, <4>1, <1>1
    <3>4. CASE ~ (j < k)
      <4>1. k \in 0..j
        BY <3>4, <1>1, ConstantAssumption
      <4>2. u = r
        BY <4>1, <3>2, <1>2, <1>4, AgreeAbove
      <4>3. ~ (e + 1 \in 0..j)
        BY <4>2, <3>2, <1>4, <1>7, AgreeAbove
      <4>4. j \in k..e
        BY <4>3, <3>4, <1>6, <1>1, ConstantAssumption
      <4>5. QED
        BY <3>1, <4>4
    <3>5. QED
      BY <3>3, <3>4
  <2>3. QED
    BY <2>1, <2>2 DEF Crowded
<1>9. \A u \in L \ {r}, j \in k..e : ~ Agree(s, u, j)
  <2>1. ASSUME NEW u \in L \ {r}, NEW j \in k..e, Agree(s, u, j) PROVE FALSE
    <3>1. j \in 0..Depth /\ k \in 0..j
      BY <1>6, <1>1, ConstantAssumption
    <3>2. QED
      BY <3>1, <2>1, <1>2, <1>4, AgreeAbove
  <2>2. QED
    BY <2>1
<1>10. ASSUME NEW u \in L \ {r}, NEW j \in 0..Depth PROVE ~ Chain(Path(u, j))
  <2>1. SUFFICES ASSUME NEW h \in k..e, Path(u, j) = Path(s, h) PROVE FALSE
    OBVIOUS
  <2>2. h \in 0..Depth
    BY <1>6, <1>1, ConstantAssumption
  <2>3. Agree(s, u, h)
    BY <2>1, <2>2, <1>4, PathEq, AgreeIsEquivalence
  <2>4. QED
    BY <2>3, <1>9
<1>11. ASSUME NEW u \in L \ {r}, NEW p PROVE Hangs(M, u, p) <=> Hangs(L, u, p)
  <2>1. \A j \in 0..Depth : Crowded(M, Path(u, j)) <=> Crowded(L, Path(u, j))
    BY <1>8, <1>10
  <2>2. \A j \in 0..Depth : j # 0 => j - 1 \in 0..Depth
    BY ConstantAssumption
  <2>3. QED
    BY <2>1, <2>2 DEF Hangs
\* At depth e + 1 the two stems are alone.
<1>12. /\ Path(s, e) = Path(r, e) /\ Chain(Path(s, e))
       /\ ~ Crowded(L, Path(s, e + 1)) /\ ~ Crowded(L, Path(r, e + 1))
       /\ ~ Chain(Path(s, e + 1)) /\ ~ Chain(Path(r, e + 1))
       /\ Path(s, e + 1) # Path(r, e + 1)
  <2>0. Path(s, e + 1) # Path(r, e + 1)
    BY <1>4, <1>6, <1>7, PathEq
  <2>1. Path(s, e) = Path(r, e)
    BY <1>4, <1>6, <1>7, PathEq
  <2>2. Chain(Path(s, e))
    BY <1>5, <1>6, ConstantAssumption
  <2>3. \A j \in k..e : j \in 0..Depth /\ j # e + 1
    BY <1>6, <1>1, ConstantAssumption
  <2>4. ~ Chain(Path(s, e + 1)) /\ ~ Chain(Path(r, e + 1))
    BY <2>3, <1>4, <1>6, PathEq
  <2>5. \A u \in L : Agree(s, u, e + 1) => u = r
    BY <1>2, <1>4, <1>6, AgreeAbove
  <2>6. \A u \in L : Agree(r, u, e + 1) => u = r
    <3>1. SUFFICES ASSUME NEW u \in L, Agree(r, u, e + 1) PROVE u = r
      OBVIOUS
    <3>2. Agree(r, u, k)
      BY <3>1, <1>4, <1>6, AgreeAbove
    <3>3. Agree(s, u, k)
      BY <3>2, <1>2, <1>4, <1>1, AgreeIsEquivalence
    <3>4. QED
      BY <3>3, <1>2
  <2>7. QED
    BY <2>0, <2>1, <2>2, <2>4, <2>5, <2>6, <1>4, <1>6, CrowdedPath
<1>13. /\ \A p : Hangs(M, s, p) <=> p = Path(s, e + 1)
       /\ \A p : Hangs(M, r, p) <=> p = Path(r, e + 1)
  <2>1. /\ ~ Crowded(M, Path(s, e + 1)) /\ Crowded(M, Path(s, (e + 1) - 1))
        /\ ~ Crowded(M, Path(r, e + 1)) /\ Crowded(M, Path(r, (e + 1) - 1))
    BY <1>8, <1>12, <1>6
  <2>2. QED
    BY <2>1, <1>4, <1>6, HangsFirst
<1>14. \A p : Hangs(L, r, p) => Chain(p)
  <2>1. StopDepth(tree, s) = k /\ k \in k..e /\ k \in 0..Depth
    BY <1>6, <1>1, ConstantAssumption DEF k
  <2>2. Reached(tree, s) = tree[Path(s, k)] /\ Path(s, k) \in Position
    BY <2>1, PathIsPosition DEF Reached
  <2>3. ~ Crowded(L, Path(s, k)) /\ (k = 0 \/ Crowded(L, Path(s, k - 1)))
    <3>1. ~ Crowded(L, Path(s, k))
      BY <2>1, Descent
    <3>2. QED
      BY <3>1, <1>1, ConstantAssumption
  <2>4. Path(r, k) = Path(s, k) /\ (k # 0 => Path(r, k - 1) = Path(s, k - 1))
    <3>1. k # 0 => k - 1 \in 0..k /\ k - 1 \in 0..Depth
      BY <1>1, ConstantAssumption
    <3>2. k # 0 => Agree(s, r, k - 1)
      BY <3>1, <1>2, <1>4, <2>1, AgreeAbove
    <3>3. QED
      BY <3>1, <3>2, <1>2, <1>4, <2>1, PathEq
  <2>5. \A p : Hangs(L, r, p) <=> p = Path(r, k)
    BY <2>3, <2>4, <2>1, <1>4, HangsFirst
  <2>6. QED
    BY <2>1, <2>4, <2>5
<1>15. lw[s] = NewStem(s, i, v).values /\ \A u \in L : lw[u] = lv[u]
  <2>1. s \notin L
    BY <1>1, <1>2, AgreeIsEquivalence
  <2>2. lv[s] = NoLeaves
    BY <2>1 DEF Stored
  <2>3. QED
    BY <2>1, <2>2, <1>4, WrittenType, NodeKinds DEF NewStem, Stored
<1>16. NewStem(s, i, v) = StemNode(s, lw[s])
  BY <1>15, NodeKinds DEF NewStem
<1> HIDE DEF lw, Chain
<1>17. ASSUME NEW p \in Position
       PROVE \/ Crowded(M, p) /\ tree'[p] = Internal
             \/ \E u \in M : Hangs(M, u, p) /\ tree'[p] = StemNode(u, lw[u])
             \/ ~ Crowded(M, p) /\ (\A u \in M : ~ Hangs(M, u, p)) /\ tree'[p] = Empty
  <2>1. CASE p = Path(s, e + 1)
    <3>1. tree'[p] = StemNode(s, lw[s])
      BY <2>1, <1>3, <1>12, <1>16 DEF Chain
    <3>2. QED
      BY <2>1, <3>1, <1>13
  <2>2. CASE p = Path(r, e + 1) /\ p # Path(s, e + 1)
    <3>1. tree'[p] = StemNode(r, lw[r])
      BY <2>2, <1>3, <1>12, <1>2, <1>15 DEF Chain
    <3>2. QED
      BY <2>2, <3>1, <1>13, <1>2
  <2>3. CASE Chain(p) /\ p # Path(s, e + 1) /\ p # Path(r, e + 1)
    BY <2>3, <1>3, <1>8 DEF Chain
  <2>4. CASE ~ Chain(p) /\ p # Path(s, e + 1) /\ p # Path(r, e + 1)
    <3>1. tree'[p] = tree[p]
      BY <2>4, <1>3 DEF Chain
    <3>2. ~ Hangs(M, s, p) /\ ~ Hangs(M, r, p) /\ ~ Hangs(L, r, p)
      BY <2>4, <1>13, <1>14
    <3>3. CASE Crowded(L, p)
      BY <3>1, <3>3, <1>8, <1>4, CanonicalNode
    <3>4. CASE \E u \in L : Hangs(L, u, p)
      <4>1. PICK u \in L : Hangs(L, u, p)
        BY <3>4
      <4>2. tree[p] = StemNode(u, lv[u])
        BY <4>1, <1>4, CanonicalNode
      <4>3. QED
        BY <4>1, <4>2, <3>1, <3>2, <1>11, <1>15
    <3>5. CASE ~ Crowded(L, p) /\ \A u \in L : ~ Hangs(L, u, p)
      <4>1. tree[p] = Empty
        BY <3>5, <1>4, CanonicalNode
      <4>2. QED
        BY <4>1, <3>5, <3>1, <3>2, <2>4, <1>8, <1>11
    <3>6. QED
      BY <3>3, <3>4, <3>5
  <2>5. QED
    BY <2>1, <2>2, <2>3, <2>4
<1>18. tree' = CanonicalTree(M, lw)
  BY <1>4, <1>17, <1>d, CanonicalByNode
<1>19. QED
  BY <1>18 DEF lw

LEMMA InsertStep ==
  ASSUME NEW L, NEW lv, Stored(L, lv), tree = CanonicalTree(L, lv),
         NEW s \in Stem, NEW i \in Subindex, NEW v \in Value, Insert(s, i, v)
  PROVE  tree' = CanonicalTree(L \cup {s}, Written(lv, s, i, v))
BY PlaceStep, OverwriteStep, SplitStep DEF Insert

-----------------------------------------------------------------------------
(* delete keeps the tree canonical *)

\* Stem u leaves the path of s at its step j.
Turns(s, u, j) == Agree(s, u, j - 1) /\ PathBit[s][j - 1] # PathBit[u][j - 1]

LEMMA StepDepths ==
  ASSUME NEW k \in 0..Depth, NEW j \in 1..k
  PROVE  /\ j \in 0..Depth /\ j \in 1..Depth /\ j # 0 /\ j \in 0..k
         /\ j - 1 \in 0..(k - 1) /\ j - 1 \in 0..Depth /\ j - 1 \in 0..(Depth - 1)
         /\ j - 1 \in 0..j /\ (j - 1) + 1 = j
BY ConstantAssumption

LEMMA TurnsBelow ==
  ASSUME NEW s \in Stem, NEW u \in Stem, NEW j \in 1..Depth
  PROVE  /\ Below(u, Sibling(s, j)) <=> Turns(s, u, j)
         /\ \A e \in 0..Depth : Sibling(s, j) = Path(u, e) <=> e = j /\ Turns(s, u, j)
<1>1. \A e \in 0..Depth : Sibling(s, j) = Path(u, e) <=> e = j /\ Turns(s, u, j)
  BY SiblingEq DEF Turns
<1>2. j \in 0..Depth
  BY ConstantAssumption
<1>3. QED
  BY <1>1, <1>2 DEF Below

LEMMA TurnsOnce ==
  ASSUME NEW s \in Stem, NEW u \in Stem, NEW j \in 1..Depth, NEW d \in 0..Depth,
         Turns(s, u, j)
  PROVE  /\ Agree(s, u, d) <=> d < j
         /\ d \in 1..Depth /\ Turns(s, u, d) => d = j
<1>1. /\ j \in 0..Depth /\ j - 1 \in 0..(Depth - 1) /\ (j - 1) + 1 = j
      /\ j - 1 \in 0..Depth
  BY StepDepths, ConstantAssumption
<1>2. Agree(s, u, j - 1) /\ ~ Agree(s, u, j)
  BY <1>1, AgreeStep DEF Turns
<1>3. ASSUME d < j PROVE Agree(s, u, d)
  <2>1. d \in 0..(j - 1)
    BY <1>3, ConstantAssumption
  <2>2. QED
    BY <2>1, <1>1, <1>2, AgreeAbove
<1>4. ASSUME Agree(s, u, d) PROVE d < j
  <2>1. j \notin 0..d
    BY <1>4, <1>2, AgreeAbove
  <2>2. QED
    BY <2>1, ConstantAssumption
<1>5. ASSUME d \in 1..Depth, Turns(s, u, d) PROVE d = j
  <2>1. d - 1 \in 0..(Depth - 1) /\ (d - 1) + 1 = d /\ d - 1 \in 0..Depth
    BY <1>5, ConstantAssumption
  <2>2. Agree(s, u, d - 1) /\ ~ Agree(s, u, d)
    BY <2>1, <1>5, AgreeStep DEF Turns
  <2>3. ~ (d < j)
    BY <1>3, <2>2
  <2>4. j - 1 \notin 0..Depth \/ ~ (d \in 0..(j - 1))
    BY <2>2, <1>2, <1>1, AgreeAbove
  <2>5. ~ (j \in 0..(d - 1))
    BY <2>2, <2>1, <1>2, AgreeAbove
  <2>6. QED
    BY <2>3, <2>5, ConstantAssumption
<1>6. QED
  BY <1>3, <1>4, <1>5

\* The sibling of a position on the path of s, under a crowded parent.
LEMMA SiblingNode ==
  ASSUME NEW L, NEW lv, Stored(L, lv), NEW t, t = CanonicalTree(L, lv),
         NEW s \in Stem, NEW j \in 1..Depth, Crowded(L, Path(s, j - 1))
  PROVE  /\ t[Sibling(s, j)] # Empty <=> \E u \in L : Turns(s, u, j)
         /\ \A u, w \in L : u # w /\ Turns(s, u, j) /\ Turns(s, w, j)
                              => t[Sibling(s, j)] = Internal
         /\ \A u \in L : Turns(s, u, j) /\ (\A w \in L : Turns(s, w, j) => w = u)
                              => t[Sibling(s, j)] = StemNode(u, lv[u])
<1> DEFINE p == Sibling(s, j)
<1>1. L \subseteq Stem /\ p \in Position
  BY SiblingIsPosition DEF Stored
<1>2. \A u \in L : Below(u, p) <=> Turns(s, u, j)
  BY <1>1, TurnsBelow
<1>3. ASSUME NEW u \in L, Turns(s, u, j), ~ Crowded(L, p)
      PROVE  t[p] = StemNode(u, lv[u])
  <2>1. j \in 0..Depth /\ j - 1 \in 0..Depth /\ j # 0
    BY ConstantAssumption
  <2>2. p = Path(u, j)
    BY <1>1, <1>3, <2>1, TurnsBelow
  <2>3. Path(u, j - 1) = Path(s, j - 1)
    BY <1>1, <1>3, <2>1, PathEq DEF Turns
  <2>4. Agree(u, u, j)
    BY <1>1, <2>1, AgreeIsEquivalence
  <2>5. Hangs(L, u, Path(u, j))
    BY <1>1, <1>3, <2>1, <2>2, <2>3, <2>4, LoneStem
  <2>6. QED
    BY <1>1, <2>2, <2>5, CanonicalNode
<1>4. ASSUME Crowded(L, p) PROVE t[p] = Internal
  BY <1>1, <1>4, CanonicalNode
<1>5. ASSUME \A u \in L : ~ Turns(s, u, j) PROVE t[p] = Empty
  <2>1. ~ Crowded(L, p) /\ \A u \in L : ~ Hangs(L, u, p)
    BY <1>2, <1>5 DEF Crowded, Hangs, Below
  <2>2. QED
    BY <1>1, <2>1, CanonicalNode
<1>6. \A u, w \in L : u # w /\ Turns(s, u, j) /\ Turns(s, w, j) => Crowded(L, p)
  BY <1>2 DEF Crowded
<1>7. ASSUME NEW u \in L, Turns(s, u, j), \A w \in L : Turns(s, w, j) => w = u
      PROVE  ~ Crowded(L, p)
  BY <1>2, <1>7 DEF Crowded
<1>8. t[p] # Empty <=> \E u \in L : Turns(s, u, j)
  BY <1>3, <1>4, <1>5, NodeKinds
<1>9. QED
  BY <1>3, <1>4, <1>6, <1>7, <1>8

\* A stem that agrees with s down to d but not down to k is met beside the path.
LEMMA BesidePath ==
  ASSUME NEW L, NEW lv, Stored(L, lv), NEW t, t = CanonicalTree(L, lv),
         NEW s \in Stem, NEW d \in 0..(StopDepth(t, s) - 1)
  PROVE  /\ \A j \in Beside(t, s, d, StopDepth(t, s)) :
              \E u \in L : Turns(s, u, j) /\ Agree(s, u, d)
         /\ \A u \in L : Agree(s, u, d) /\ ~ Agree(s, u, StopDepth(t, s)) =>
              \E j \in Beside(t, s, d, StopDepth(t, s)) : Turns(s, u, j)
         /\ Beside(t, s, d, StopDepth(t, s)) \subseteq 1..StopDepth(t, s)
<1> DEFINE k == StopDepth(t, s)
<1>1. k \in 0..Depth /\ \A j \in 0..(k - 1) : Crowded(L, Path(s, j))
  BY Descent
<1> HIDE DEF k
<1>2. \A j \in (d + 1)..k : j \in 1..k
  BY <1>1, ConstantAssumption DEF k
<1>3. \A j \in 1..k : t[Sibling(s, j)] # Empty <=> \E u \in L : Turns(s, u, j)
  <2>1. SUFFICES ASSUME NEW j \in 1..k
                 PROVE  t[Sibling(s, j)] # Empty <=> \E u \in L : Turns(s, u, j)
    OBVIOUS
  <2>2. j \in 1..Depth /\ j - 1 \in 0..(k - 1)
    BY <1>1, StepDepths
  <2>3. QED
    BY <2>2, <1>1, SiblingNode
<1>4. ASSUME NEW j \in Beside(t, s, d, k)
      PROVE  \E u \in L : Turns(s, u, j) /\ Agree(s, u, d)
  <2>1. j \in (d + 1)..k /\ j \in 1..k /\ t[Sibling(s, j)] # Empty
    BY <1>2 DEF Beside
  <2>2. PICK u \in L : Turns(s, u, j)
    BY <2>1, <1>3
  <2>3. d \in 0..Depth /\ d < j /\ j \in 1..Depth /\ u \in Stem
    BY <2>1, <1>1, ConstantAssumption DEF Stored, k
  <2>4. QED
    BY <2>2, <2>3, TurnsOnce
<1>5. ASSUME NEW u \in L, Agree(s, u, d), ~ Agree(s, u, k)
      PROVE  \E j \in Beside(t, s, d, k) : Turns(s, u, j)
  <2>1. u \in Stem
    BY DEF Stored
  <2>2. PICK j \in 1..k : Turns(s, u, j)
    BY <1>1, <1>5, <2>1, Parting DEF Turns
  <2>3. d \in 0..Depth /\ j \in 1..Depth
    BY <1>1, ConstantAssumption DEF k
  <2>4. d < j
    BY <1>5, <2>1, <2>2, <2>3, TurnsOnce
  <2>5. j \in (d + 1)..k
    BY <2>4, <1>1, ConstantAssumption DEF k
  <2>6. QED
    BY <2>2, <2>5, <1>3 DEF Beside
<1>6. Beside(t, s, d, k) \subseteq 1..k
  BY <1>2 DEF Beside
<1>7. QED
  BY <1>4, <1>5, <1>6 DEF k

\* If the stem that was reached stays, so does every InternalNode above it.
LEMMA FrameStays ==
  ASSUME NEW L, NEW lv, Stored(L, lv), NEW t, t = CanonicalTree(L, lv),
         NEW s \in Stem, NEW n, Reached(t, s) = Empty \/ n # Empty,
         NEW d \in 0..(StopDepth(t, s) - 1)
  PROVE  Frame(t, s, n, StopDepth(t, s), d) = Internal
<1> DEFINE k == StopDepth(t, s)
           B == Beside(t, s, d, k)
<1>1. k \in 0..Depth /\ \A j \in 0..(k - 1) : Crowded(L, Path(s, j))
  BY Descent
<1>2. d \in 0..Depth /\ d \in 0..(k - 1) /\ L \subseteq Stem
  BY <1>1, ConstantAssumption DEF Stored
<1>3. PICK u, w \in L : u # w /\ Agree(s, u, d) /\ Agree(s, w, d)
  BY <1>1, <1>2, CrowdedPath
<1>4. ~ Agree(s, u, k) \/ ~ Agree(s, w, k)
  BY <1>3, ReachedNode
<1>5. B # {}
  BY <1>3, <1>4, BesidePath
<1>6. ASSUME n = Empty, NEW j \in B, B = {j} PROVE ~ IsStem(t[Sibling(s, j)])
  <2>1. ~ Agree(s, u, k) /\ ~ Agree(s, w, k)
    BY <1>6, ReachedNode, NodeKinds
  <2>2. Turns(s, u, j) /\ Turns(s, w, j)
    BY <1>3, <1>6, <2>1, BesidePath
  <2>3. j \in 1..k
    BY BesidePath
  <2>4. j \in 1..Depth /\ Crowded(L, Path(s, j - 1))
    BY <2>3, <1>1, StepDepths
  <2>5. t[Sibling(s, j)] = Internal
    BY <1>3, <2>2, <2>4, SiblingNode
  <2>6. QED
    BY <2>5, NodeKinds
<1>7. QED
  BY <1>5, <1>6 DEF Frame

LEMMA UnwoundStays ==
  ASSUME NEW L, NEW lv, Stored(L, lv), NEW t, t = CanonicalTree(L, lv),
         NEW s \in Stem, NEW n, Reached(t, s) = Empty \/ n # Empty
  PROVE  Unwound(t, s, n, StopDepth(t, s)) = [t EXCEPT ![Path(s, StopDepth(t, s))] = n]
<1> DEFINE k == StopDepth(t, s)
           t2 == Unwound(t, s, n, k)
<1>1. k \in 0..Depth /\ \A j \in 0..(k - 1) : Crowded(L, Path(s, j))
  BY Descent
<1>2. \A d \in 0..(k - 1) : Frame(t, s, n, k, d) = Internal
  BY FrameStays
<1>3. t = [p \in Position |-> t[p]]
  BY DEF CanonicalTree
<1> HIDE DEF k
<1>4. Frame(t, s, n, k, k) = n
  <2>1. (k + 1)..k = {}
    BY <1>1, ConstantAssumption
  <2>2. QED
    BY <2>1 DEF Frame, Beside
<1>5. ASSUME NEW p \in Position
      PROVE  t2[p] = IF p = Path(s, k) THEN n ELSE t[p]
  <2>1. ~ \E d \in 1..k : /\ p \in {Path(s, d), Sibling(s, d)}
                          /\ Frame(t, s, n, k, d - 1) # Internal
    BY <1>1, <1>2, StepDepths
  <2>2. CASE \E d \in 0..k : p = Path(s, d)
    <3>1. PICK d \in 0..k : p = Path(s, d)
      BY <2>2
    <3>2. \A x \in 0..k : x \in 0..Depth
      BY <1>1, ConstantAssumption
    <3>3. \A x \in 0..k : p = Path(s, x) <=> x = d
      BY <3>1, <3>2, PathEq, AgreeIsEquivalence
    <3>4. (CHOOSE x \in 0..k : p = Path(s, x)) = d
      BY <3>3
    <3>5. t2[p] = Frame(t, s, n, k, d)
      BY <2>1, <2>2, <3>4 DEF Unwound
    <3>6. k \in 0..k
      BY <1>1, ConstantAssumption
    <3>7. CASE d = k
      BY <3>5, <3>7, <3>1, <1>4
    <3>8. CASE d # k
      <4>1. d \in 0..(k - 1)
        BY <3>8, <1>1, ConstantAssumption
      <4>2. t[p] = Internal
        <5>1. L \subseteq Stem /\ Crowded(L, p)
          BY <4>1, <3>1, <1>1 DEF Stored
        <5>2. QED
          BY <5>1, CanonicalNode
      <4>3. p # Path(s, k)
        BY <3>3, <3>6, <3>8
      <4>4. QED
        BY <4>1, <4>2, <4>3, <3>5, <1>2
    <3>9. QED
      BY <3>7, <3>8
  <2>3. CASE ~ \E d \in 0..k : p = Path(s, d)
    <3>1. k \in 0..k
      BY <1>1, ConstantAssumption
    <3>2. QED
      BY <2>1, <2>3, <3>1 DEF Unwound
  <2>4. QED
    BY <2>2, <2>3
<1>6. t2 = [p \in Position |-> t2[p]]
  BY DEF Unwound
<1>7. t2 = [t EXCEPT ![Path(s, k)] = n]
  <2> HIDE DEF t2
  <2> QED
    BY <1>3, <1>5, <1>6
<1>8. QED
  BY <1>7 DEF k

\* When the stem that was reached is removed, a frame returns an InternalNode
\* if two other stems remain below it, and the one remaining stem otherwise.
LEMMA FrameRemoved ==
  ASSUME NEW L, NEW lv, Stored(L, lv), NEW t, t = CanonicalTree(L, lv),
         NEW s \in L, NEW d \in 0..(StopDepth(t, s) - 1)
  PROVE  LET f == Frame(t, s, Empty, StopDepth(t, s), d) IN
         /\ Crowded(L \ {s}, Path(s, d)) => f = Internal
         /\ ~ Crowded(L \ {s}, Path(s, d)) =>
              \E u \in L \ {s} : Agree(s, u, d) /\ f = StemNode(u, lv[u])
<1> DEFINE k == StopDepth(t, s)
           B == Beside(t, s, d, k)
           M == L \ {s}
<1>1. /\ L \subseteq Stem /\ M \subseteq Stem /\ s \in Stem
      /\ k \in 0..Depth /\ \A j \in 0..(k - 1) : Crowded(L, Path(s, j))
  BY Descent DEF Stored
<1>2. d \in 0..Depth /\ d \in 0..(k - 1) /\ Agree(s, s, k)
  BY <1>1, ConstantAssumption, AgreeIsEquivalence
<1>3. \A u \in M : ~ Agree(s, u, k)
  BY <1>1, <1>2, ReachedNode
<1>4. \A u \in M : Agree(s, u, d) => \E j \in B : Turns(s, u, j)
  BY <1>1, <1>3, BesidePath
<1>5. ASSUME NEW j \in B PROVE \E u \in M : Turns(s, u, j) /\ Agree(s, u, d)
  <2>1. PICK u \in L : Turns(s, u, j) /\ Agree(s, u, d)
    BY <1>1, BesidePath
  <2>2. QED
    BY <2>1 DEF Turns
<1>6. ASSUME NEW j \in B
      PROVE  j \in 1..k /\ j \in 1..Depth /\ Crowded(L, Path(s, j - 1))
  <2>1. j \in 1..k
    BY <1>1, BesidePath
  <2>2. QED
    BY <2>1, <1>1, StepDepths
<1>7. PICK u \in M : Agree(s, u, d)
  BY <1>1, <1>2, CrowdedPath
<1>8. B # {}
  BY <1>4, <1>7
<1>9. ASSUME Crowded(M, Path(s, d))
      PROVE  Frame(t, s, Empty, k, d) = Internal
  <2>1. PICK x, y \in M : x # y /\ Agree(s, x, d) /\ Agree(s, y, d)
    BY <1>1, <1>2, <1>9, CrowdedPath
  <2>2. ASSUME NEW j \in B, B = {j} PROVE ~ IsStem(t[Sibling(s, j)])
    <3>1. Turns(s, x, j) /\ Turns(s, y, j)
      BY <2>1, <2>2, <1>4
    <3>2. t[Sibling(s, j)] = Internal
      BY <3>1, <2>1, <1>1, <1>6, SiblingNode
    <3>3. QED
      BY <3>2, NodeKinds
  <2>3. QED
    BY <2>2, <1>8 DEF Frame
<1>10. ASSUME ~ Crowded(M, Path(s, d))
       PROVE  Frame(t, s, Empty, k, d) = StemNode(u, lv[u])
  <2>1. \A w \in M : Agree(s, w, d) => w = u
    BY <1>1, <1>2, <1>7, <1>10, CrowdedPath
  <2>2. PICK j \in B : Turns(s, u, j)
    BY <1>4, <1>7
  <2>3. B = {j}
    <3>1. ASSUME NEW x \in B PROVE x = j
      <4>1. Turns(s, u, x)
        BY <1>5, <2>1
      <4>2. x \in 1..Depth /\ j \in 1..Depth /\ x \in 0..Depth /\ u \in Stem
        BY <1>6, <1>1, ConstantAssumption
      <4>3. QED
        BY <4>1, <4>2, <2>2, <1>1, TurnsOnce
    <3>2. QED
      BY <3>1
  <2>4. \A w \in L : Turns(s, w, j) => w = u
    <3>1. SUFFICES ASSUME NEW w \in L, Turns(s, w, j) PROVE w = u
      OBVIOUS
    <3>2. w \in M
      BY <3>1 DEF Turns
    <3>3. d < j
      <4>1. j \in (d + 1)..k
        BY DEF Beside
      <4>2. QED
        BY <4>1, <1>2, <1>1, ConstantAssumption
    <3>4. Agree(s, w, d)
      BY <3>1, <3>3, <1>1, <1>2, <1>6, TurnsOnce
    <3>5. QED
      BY <3>2, <3>4, <2>1
  <2>5. t[Sibling(s, j)] = StemNode(u, lv[u])
    BY <2>2, <2>4, <1>1, <1>6, SiblingNode
  <2>6. Least(B) = j
    BY <2>3, <1>6, ConstantAssumption DEF Least
  <2>7. QED
    BY <2>3, <2>5, <2>6, <1>8, NodeKinds DEF Frame
<1>11. QED
  BY <1>7, <1>9, <1>10

\* Removing a stem: the others move up to where the smaller set hangs them.
LEMMA RemoveStep ==
  ASSUME NEW L, NEW lv, Stored(L, lv), NEW t, t = CanonicalTree(L, lv),
         NEW s \in L, NEW lw, \A u \in L \ {s} : lw[u] = lv[u]
  PROVE  Unwound(t, s, Empty, StopDepth(t, s)) = CanonicalTree(L \ {s}, lw)
<1> DEFINE k  == StopDepth(t, s)
           t2 == Unwound(t, s, Empty, k)
           M  == L \ {s}
           F(d) == Frame(t, s, Empty, k, d)
           Gone(p) == \E d \in 1..k : p \in {Path(s, d), Sibling(s, d)} /\ F(d - 1) # Internal
<1>1. /\ L \subseteq Stem /\ M \subseteq Stem /\ s \in Stem
      /\ k \in 0..Depth /\ \A j \in 0..(k - 1) : Crowded(L, Path(s, j))
      /\ ~ Crowded(L, Path(s, k))
  BY Descent DEF Stored
<1>2. \A u \in M : ~ Agree(s, u, k)
  BY <1>1, ReachedNode, AgreeIsEquivalence
<1>3. \A d \in 0..(k - 1) :
        /\ Crowded(M, Path(s, d)) => F(d) = Internal
        /\ ~ Crowded(M, Path(s, d)) =>
             \E u \in M : Agree(s, u, d) /\ F(d) = StemNode(u, lv[u])
  BY FrameRemoved
<1>h. \A p : Hangs(L, s, p) => p = Path(s, k)
  BY <1>1, StopHangs
<1> HIDE DEF k
<1>4. F(k) = Empty
  <2>1. (k + 1)..k = {}
    BY <1>1, ConstantAssumption
  <2>2. QED
    BY <2>1 DEF Frame, Beside
<1>5. \A p \in Position :
        t2[p] = IF Gone(p) THEN Empty
                ELSE IF \E d \in 0..k : p = Path(s, d)
                THEN F(CHOOSE d \in 0..k : p = Path(s, d))
                ELSE t[p]
  BY DEF Unwound
<1>6. t2 = [p \in Position |-> t2[p]]
  BY DEF Unwound
<1> HIDE DEF t2, F
<1>7. \A d \in 0..(k - 1) : F(d) # Internal <=> ~ Crowded(M, Path(s, d))
  BY <1>3, NodeKinds
<1>8. \A q : Crowded(M, q) => Crowded(L, q)
  BY DEF Crowded
<1>9. ASSUME NEW p \in Position, Gone(p)
      PROVE  ~ Crowded(M, p) /\ (\A u \in M : ~ Hangs(M, u, p)) /\ t2[p] = Empty
  <2>1. PICK d \in 1..k : p \in {Path(s, d), Sibling(s, d)} /\ F(d - 1) # Internal
    BY <1>9
  <2>2. /\ d \in 0..Depth /\ d \in 1..Depth /\ d # 0 /\ d - 1 \in 0..(k - 1)
        /\ d - 1 \in 0..Depth /\ d - 1 \in 0..d
    BY <1>1, StepDepths
  <2>3. ~ Crowded(M, Path(s, d - 1))
    BY <2>1, <2>2, <1>7
  <2>4. \A u \in M, e \in 0..Depth :
           p = Path(u, e) => e = d /\ Path(u, e - 1) = Path(s, d - 1)
    <3>1. SUFFICES ASSUME NEW u \in M, NEW e \in 0..Depth, p = Path(u, e)
                   PROVE  e = d /\ Path(u, e - 1) = Path(s, d - 1)
      OBVIOUS
    <3>2. u \in Stem
      BY <1>1
    <3>3. e = d /\ Agree(s, u, d - 1)
      <4>1. CASE p = Path(s, d)
        <5>0. Path(s, d) = Path(u, e) /\ s \in Stem
          BY <4>1, <3>1, <1>1
        <5>1. d = e /\ Agree(s, u, d)
          BY <5>0, <3>2, <2>2, PathEq
        <5>2. QED
          BY <5>1, <3>2, <2>2, <1>1, AgreeAbove
      <4>2. CASE p = Sibling(s, d)
        <5>0. Sibling(s, d) = Path(u, e) /\ s \in Stem
          BY <4>2, <3>1, <1>1
        <5>1. e = d /\ Turns(s, u, d)
          BY <5>0, <3>2, <2>2, TurnsBelow
        <5>2. QED
          BY <5>1 DEF Turns
      <4>3. QED
        BY <2>1, <4>1, <4>2
    <3>4. QED
      BY <3>2, <3>3, <2>2, <1>1, PathEq
  <2>5. \A u \in M : ~ Hangs(M, u, p)
    BY <2>2, <2>3, <2>4 DEF Hangs
  <2>6. ~ Crowded(M, p)
    <3>1. \A u \in M : Below(u, p) => Below(u, Path(s, d - 1))
      BY <2>2, <2>4 DEF Below
    <3>2. QED
      BY <3>1, <2>3 DEF Crowded
  <2>7. QED
    BY <2>5, <2>6, <1>5, <1>9
<1>10. ASSUME NEW p \in Position, ~ Gone(p), NEW d \in 0..k, p = Path(s, d)
       PROVE \/ Crowded(M, p) /\ t2[p] = Internal
             \/ \E u \in M : Hangs(M, u, p) /\ t2[p] = StemNode(u, lw[u])
             \/ ~ Crowded(M, p) /\ (\A u \in M : ~ Hangs(M, u, p)) /\ t2[p] = Empty
  <2>1. \A x \in 0..k : x \in 0..Depth
    BY <1>1, ConstantAssumption
  <2>2. \A x \in 0..k : p = Path(s, x) <=> x = d
    BY <1>10, <2>1, <1>1, PathEq, AgreeIsEquivalence
  <2>3. t2[p] = F(d)
    <3>1. (CHOOSE x \in 0..k : p = Path(s, x)) = d
      BY <2>2
    <3>2. QED
      BY <3>1, <1>5, <1>10
  <2>4. d = 0 \/ Crowded(M, Path(s, d - 1))
    <3>1. SUFFICES ASSUME d # 0 PROVE Crowded(M, Path(s, d - 1))
      OBVIOUS
    <3>2. d \in 1..k
      BY <3>1, <1>1, ConstantAssumption
    <3>3. F(d - 1) = Internal /\ d - 1 \in 0..(k - 1)
      BY <3>2, <1>1, <1>10, StepDepths
    <3>4. QED
      BY <3>3, <1>7
  <2>5. CASE d = k
    <3>1. \A u \in M : ~ Agree(s, u, d)
      BY <2>5, <1>2
    <3>2. ~ Crowded(M, p)
      BY <3>1, <2>1, <1>1, <1>10, CrowdedPath
    <3>3. \A u \in M : ~ Hangs(M, u, p)
      BY <3>1, <2>1, <1>1, <1>10, HangsPath
    <3>4. QED
      BY <3>2, <3>3, <2>3, <2>5, <1>4
  <2>6. CASE d # k
    <3>1. d \in 0..(k - 1)
      BY <2>6, <1>1, ConstantAssumption
    <3>2. CASE Crowded(M, p)
      BY <3>1, <3>2, <2>3, <1>3, <1>10
    <3>3. CASE ~ Crowded(M, p)
      <4>1. PICK u \in M : Agree(s, u, d) /\ F(d) = StemNode(u, lv[u])
        BY <3>1, <3>3, <1>3, <1>10
      <4>2. Hangs(M, u, p)
        BY <4>1, <3>3, <2>1, <2>4, <1>1, <1>10, LoneStem
      <4>3. QED
        BY <4>1, <4>2, <2>3
    <3>4. QED
      BY <3>2, <3>3
  <2>7. QED
    BY <2>5, <2>6
<1>11. ASSUME NEW p \in Position, ~ Gone(p), \A d \in 0..k : p # Path(s, d)
       PROVE  /\ Crowded(M, p) <=> Crowded(L, p)
              /\ \A u \in M : Hangs(M, u, p) <=> Hangs(L, u, p)
  <2>1. CASE Below(s, p)
    <3>1. PICK d \in 0..Depth : p = Path(s, d)
      BY <2>1 DEF Below
    <3>2. k \in 0..d
      BY <3>1, <1>11, <1>1, ConstantAssumption
    <3>3. \A u \in M : ~ Agree(s, u, d)
      BY <3>2, <1>1, <1>2, AgreeAbove
    <3>4. \A u \in M : ~ Below(u, p)
      BY <3>1, <3>3, <1>1, BelowPath
    <3>5. QED
      BY <3>4 DEF Crowded, Hangs, Below
  <2>2. CASE ~ Below(s, p)
    <3>1. Crowded(M, p) <=> Crowded(L, p)
      BY <2>2 DEF Crowded
    <3>2. ASSUME NEW u \in M, NEW e \in 0..Depth, p = Path(u, e), e # 0,
                 Crowded(L, Path(u, e - 1))
          PROVE  Crowded(M, Path(u, e - 1))
      <4>1. SUFFICES ASSUME ~ Crowded(M, Path(u, e - 1)) PROVE FALSE
        OBVIOUS
      <4>2. e - 1 \in 0..Depth /\ e \in 1..Depth /\ e - 1 \in 0..(Depth - 1) /\ (e - 1) + 1 = e
        BY <3>2, ConstantAssumption
      <4>3. Below(s, Path(u, e - 1))
        BY <4>1, <3>2 DEF Crowded
      <4>4. Agree(u, s, e - 1) /\ Agree(s, u, e - 1)
        BY <4>2, <4>3, <1>1, BelowPath, AgreeIsEquivalence
      <4>5. Path(u, e - 1) = Path(s, e - 1)
        BY <4>2, <4>4, <1>1, PathEq
      <4>6. e \in 1..k
        <5>1. e - 1 < k
          <6>1. k \notin 0..(e - 1)
            BY <4>2, <4>5, <3>2, <1>1, CrowdedAbove
          <6>2. QED
            BY <6>1, <1>1, ConstantAssumption
        <5>2. QED
          BY <5>1, <3>2, <1>1, ConstantAssumption
      <4>7. ~ Agree(s, u, e)
        BY <3>2, <2>2, <1>1, BelowPath, AgreeIsEquivalence
      <4>8. Turns(s, u, e)
        BY <4>2, <4>4, <4>7, <1>1, AgreeStep DEF Turns
      <4>9. p = Sibling(s, e)
        BY <4>2, <4>8, <3>2, <1>1, TurnsBelow
      <4>10. e - 1 \in 0..(k - 1)
        BY <4>6, <1>1, StepDepths
      <4>11. F(e - 1) # Internal
        BY <4>1, <4>5, <4>10, <1>7
      <4>12. QED
        BY <4>6, <4>9, <4>11, <1>11
    <3>3. QED
      BY <3>1, <3>2, <1>8 DEF Hangs
  <2>3. QED
    BY <2>1, <2>2
<1> HIDE DEF Gone
<1>12. ASSUME NEW p \in Position
       PROVE \/ Crowded(M, p) /\ t2[p] = Internal
             \/ \E u \in M : Hangs(M, u, p) /\ t2[p] = StemNode(u, lw[u])
             \/ ~ Crowded(M, p) /\ (\A u \in M : ~ Hangs(M, u, p)) /\ t2[p] = Empty
  <2>1. CASE Gone(p)
    BY <2>1, <1>9
  <2>2. CASE ~ Gone(p) /\ \E d \in 0..k : p = Path(s, d)
    BY <2>2, <1>10
  <2>3. CASE ~ Gone(p) /\ \A d \in 0..k : p # Path(s, d)
    <3>1. t2[p] = t[p]
      BY <2>3, <1>5
    <3>2. ~ Hangs(L, s, p)
      BY <2>3, <1>h, <1>1, ConstantAssumption
    <3>3. CASE Crowded(L, p)
      BY <3>1, <3>3, <2>3, <1>11, <1>1, CanonicalNode
    <3>4. CASE \E u \in L : Hangs(L, u, p)
      <4>1. PICK u \in L : Hangs(L, u, p)
        BY <3>4
      <4>2. t[p] = StemNode(u, lv[u]) /\ u \in M
        BY <4>1, <3>2, <1>1, CanonicalNode
      <4>3. QED
        BY <4>1, <4>2, <3>1, <2>3, <1>11
    <3>5. CASE ~ Crowded(L, p) /\ \A u \in L : ~ Hangs(L, u, p)
      <4>1. t[p] = Empty
        BY <3>5, <1>1, CanonicalNode
      <4>2. QED
        BY <4>1, <3>1, <3>5, <2>3, <1>11
    <3>6. QED
      BY <3>3, <3>4, <3>5
  <2>4. QED
    BY <2>1, <2>2, <2>3
<1>13. t2 = CanonicalTree(M, lw)
  <2>1. M \subseteq Stem
    BY <1>1
  <2> HIDE DEF M
  <2>2. QED
    BY <2>1, <1>6, <1>12, CanonicalByNode
<1>14. QED
  BY <1>13 DEF t2, k

LEMMA NoLeavesWritten ==
  ASSUME NEW i \in Subindex
  PROVE  [NoLeaves EXCEPT ![i] = EmptyValue] = NoLeaves
BY DEF NoLeaves

\* The stems that remain after a delete.
Remaining(L, lw, s) == IF lw[s] = NoLeaves THEN L \ {s} ELSE L

LEMMA DeleteStep ==
  ASSUME NEW L, NEW lv, Stored(L, lv), tree = CanonicalTree(L, lv),
         NEW s \in Stem, NEW i \in Subindex, Delete(s, i)
  PROVE  LET lw == Written(lv, s, i, EmptyValue) IN
         /\ Stored(Remaining(L, lw, s), lw)
         /\ tree' = CanonicalTree(Remaining(L, lw, s), lw)
<1> DEFINE k  == StopDepth(tree, s)
           n  == Reached(tree, s)
           lw == Written(lv, s, i, EmptyValue)
<1>1. /\ lv \in [Stem -> Leaves] /\ L \subseteq Stem
      /\ EmptyValue \in Value /\ lw \in [Stem -> Leaves]
      /\ lw[s] = [lv[s] EXCEPT ![i] = EmptyValue]
      /\ \A u \in Stem : u # s => lw[u] = lv[u]
  BY ConstantAssumption DEF Stored, Written, Leaves
<1>2. tree' = Unwound(tree, s, Cleared(n, s, i), k)
  BY DEF Delete
<1>3. s \in L => n = StemNode(s, lv[s])
  <2>1. k \in 0..Depth
    BY Descent
  <2>2. s \in L => \E u \in L : Agree(s, u, k) /\ u = s
    BY <2>1, AgreeIsEquivalence
  <2>3. QED
    BY <2>2, ReachedNode
<1>4. Holds(n, s) => s \in L
  BY ReachedNode, NodeKinds DEF Holds
<1>5. CASE s \notin L
  <2>1. lw = lv /\ lw[s] = NoLeaves
    <3>1. lv[s] = NoLeaves
      BY <1>5 DEF Stored
    <3>2. lw[s] = NoLeaves
      BY <3>1, <1>1, NoLeavesWritten
    <3>3. \A u \in Stem : lw[u] = lv[u]
      BY <3>1, <3>2, <1>1
    <3> HIDE DEF lw
    <3>4. QED
      BY <3>2, <3>3, <1>1
  <2>2. Cleared(n, s, i) = n
    BY <1>4, <1>5 DEF Cleared
  <2>3. n = Empty \/ n # Empty
    OBVIOUS
  <2>4. tree' = [tree EXCEPT ![Path(s, k)] = n]
    BY <1>2, <2>2, <2>3, UnwoundStays
  <2>5. tree' = tree
    <3>1. tree = [p \in Position |-> tree[p]]
      BY DEF CanonicalTree
    <3>2. QED
      BY <3>1, <2>4 DEF Reached
  <2>6. Remaining(L, lw, s) = L
    BY <1>5, <2>1 DEF Remaining
  <2> HIDE DEF lw
  <2>7. QED
    BY <2>1, <2>5, <2>6 DEF lw
<1>6. CASE s \in L /\ lw[s] = NoLeaves
  <2>1. Cleared(n, s, i) = Empty
    BY <1>1, <1>3, <1>6, NodeKinds DEF Cleared, Holds
  <2>2. tree' = CanonicalTree(L \ {s}, lw)
    <3>1. \A u \in L \ {s} : lw[u] = lv[u]
      BY <1>1
    <3>2. s \in L
      BY <1>6
    <3> HIDE DEF lw
    <3>3. QED
      BY <1>2, <2>1, <3>1, <3>2, RemoveStep
  <2>3. Stored(L \ {s}, lw)
    <3>1. \A u \in Stem \ (L \ {s}) : lw[u] = NoLeaves
      BY <1>1, <1>6 DEF Stored
    <3> HIDE DEF lw
    <3>2. QED
      BY <1>1, <3>1 DEF Stored
  <2>4. Remaining(L, lw, s) = L \ {s}
    BY <1>6 DEF Remaining
  <2> HIDE DEF lw
  <2>5. QED
    BY <2>2, <2>3, <2>4 DEF lw
<1>7. CASE s \in L /\ lw[s] # NoLeaves
  <2>1. Cleared(n, s, i) = StemNode(s, lw[s])
    <3>1. Holds(n, s) /\ n.values = lv[s]
      BY <1>3, <1>7, NodeKinds DEF Holds
    <3>2. [n.values EXCEPT ![i] = EmptyValue] = lw[s]
      BY <3>1, <1>1
    <3> HIDE DEF n, lw
    <3>3. QED
      BY <3>1, <3>2, <1>7 DEF Cleared
  <2>2. tree' = [tree EXCEPT ![Path(s, k)] = StemNode(s, lw[s])]
    <3>1. StemNode(s, lw[s]) # Empty
      BY NodeKinds
    <3> HIDE DEF lw
    <3>2. QED
      BY <1>2, <2>1, <3>1, UnwoundStays
  <2>3. tree' = CanonicalTree(L, lw)
    <3>1. \A u \in L \ {s} : lw[u] = lv[u]
      BY <1>1
    <3>2. s \in L
      BY <1>7
    <3> HIDE DEF lw
    <3>3. QED
      BY <2>2, <3>1, <3>2, ReplaceLeaves
  <2>4. Stored(L, lw)
    <3>1. \A u \in Stem \ L : lw[u] = NoLeaves
      BY <1>1, <1>7 DEF Stored
    <3> HIDE DEF lw
    <3>2. QED
      BY <1>1, <3>1 DEF Stored
  <2>5. Remaining(L, lw, s) = L
    BY <1>7 DEF Remaining
  <2> HIDE DEF lw
  <2>6. QED
    BY <2>3, <2>4, <2>5 DEF lw
<1>8. QED
  BY <1>5, <1>6, <1>7

-----------------------------------------------------------------------------
(* The inductive invariant and the theorems *)

\* A stem that is not in the tree has no leaves, and the tree is canonical.
IInv == Stored(LiveStems(tree), Content(tree)) /\ Canonical

\* The stems and the leaves of a canonical tree can be read off the tree.
LEMMA CanonicalContent ==
  ASSUME NEW L, NEW lv, Stored(L, lv), NEW t, t = CanonicalTree(L, lv)
  PROVE  LiveStems(t) = L /\ Content(t) = lv
<1>1. L \subseteq Stem /\ lv \in [Stem -> [Subindex -> Value]]
  BY DEF Stored, Leaves
<1>2. Content(t) = lv
  <2>1. \A s \in Stem : Content(t)[s] = lv[s]
    <3>1. SUFFICES ASSUME NEW s \in Stem PROVE Content(t)[s] = lv[s]
      OBVIOUS
    <3>2. \A i \in Subindex : Get(t, s, i) = lv[s][i]
      BY GetCanonical
    <3>3. Content(t)[s] = [i \in Subindex |-> Get(t, s, i)]
      BY DEF Content
    <3>4. lv[s] = [i \in Subindex |-> lv[s][i]]
      BY <1>1
    <3>5. QED
      BY <3>2, <3>3, <3>4
  <2>2. Content(t) = [s \in Stem |-> Content(t)[s]]
    BY DEF Content
  <2>3. QED
    BY <2>1, <2>2, <1>1
<1>3. ASSUME NEW s \in L PROVE s \in LiveStems(t)
  <2>1. s \in Stem /\ StopDepth(t, s) \in 0..Depth
    BY <1>1, Descent
  <2>2. Path(s, StopDepth(t, s)) \in Position
    BY <2>1, PathIsPosition
  <2>3. Hangs(L, s, Path(s, StopDepth(t, s)))
    BY <2>1, StopHangs
  <2>4. t[Path(s, StopDepth(t, s))] = StemNode(s, lv[s])
    BY <1>1, <2>2, <2>3, CanonicalNode
  <2>5. QED
    BY <2>1, <2>2, <2>4, NodeKinds DEF LiveStems, Holds
<1>4. ASSUME NEW s \in LiveStems(t) PROVE s \in L
  <2>1. PICK p \in Position : Holds(t[p], s)
    BY DEF LiveStems
  <2>2. t[p] # Internal /\ t[p] # Empty
    BY <2>1, NodeKinds DEF Holds
  <2>3. PICK u \in L : Hangs(L, u, p)
    BY <2>2, <1>1, CanonicalNode
  <2>4. t[p] = StemNode(u, lv[u])
    BY <2>3, <1>1, CanonicalNode
  <2>5. QED
    BY <2>1, <2>4, NodeKinds DEF Holds
<1>5. QED
  BY <1>2, <1>3, <1>4

LEMMA CanonicalIInv ==
  ASSUME NEW L, NEW lv, Stored(L, lv), tree = CanonicalTree(L, lv)
  PROVE  IInv
<1>1. LiveStems(tree) = L /\ Content(tree) = lv
  BY CanonicalContent
<1>2. QED
  BY <1>1 DEF IInv, Canonical

LEMMA CanonicalIInvNext ==
  ASSUME NEW L, NEW lv, Stored(L, lv), tree' = CanonicalTree(L, lv)
  PROVE  IInv' /\ LiveStems(tree') = L /\ Content(tree') = lv
<1>1. LiveStems(tree') = L /\ Content(tree') = lv
  BY CanonicalContent
<1>2. QED
  BY <1>1 DEF IInv, Canonical

LEMMA InitCanonical ==
  ASSUME Init
  PROVE  Stored({}, [s \in Stem |-> NoLeaves])
         /\ tree = CanonicalTree({}, [s \in Stem |-> NoLeaves])
<1>1. NoLeaves \in Leaves
  BY ConstantAssumption DEF NoLeaves, Leaves
<1>2. QED
  BY <1>1 DEF Init, Stored, CanonicalTree, Crowded

\* What a step does to the stems and the leaves of a canonical tree.
LEMMA StepContent ==
  ASSUME IInv, NEW s \in Stem, NEW i \in Subindex
  PROVE  /\ \A v \in InsertValue : Insert(s, i, v) =>
              /\ IInv'
              /\ LiveStems(tree') = LiveStems(tree) \cup {s}
              /\ Content(tree') = Written(Content(tree), s, i, v)
         /\ Delete(s, i) =>
              /\ IInv'
              /\ Content(tree') = Written(Content(tree), s, i, EmptyValue)
              /\ LiveStems(tree') = Remaining(LiveStems(tree), Content(tree'), s)
<1> DEFINE L == LiveStems(tree)
           lv == Content(tree)
<1>1. Stored(L, lv) /\ tree = CanonicalTree(L, lv)
  BY DEF IInv, Canonical
<1> HIDE DEF L, lv
<1>2. ASSUME NEW v \in InsertValue, Insert(s, i, v)
      PROVE  /\ IInv'
             /\ LiveStems(tree') = L \cup {s}
             /\ Content(tree') = Written(lv, s, i, v)
  <2>1. v \in Value
    BY ConstantAssumption
  <2>2. Stored(L \cup {s}, Written(lv, s, i, v))
    BY <1>1, <2>1, StoredWrite
  <2>3. tree' = CanonicalTree(L \cup {s}, Written(lv, s, i, v))
    BY <1>1, <1>2, <2>1, InsertStep
  <2>4. QED
    BY <2>2, <2>3, CanonicalIInvNext
<1>3. ASSUME Delete(s, i)
      PROVE  /\ IInv'
             /\ Content(tree') = Written(lv, s, i, EmptyValue)
             /\ LiveStems(tree') = Remaining(L, Content(tree'), s)
  <2> DEFINE lw == Written(lv, s, i, EmptyValue)
  <2>1. Stored(Remaining(L, lw, s), lw) /\ tree' = CanonicalTree(Remaining(L, lw, s), lw)
    BY <1>1, <1>3, DeleteStep
  <2> HIDE DEF lw
  <2>2. /\ IInv' /\ LiveStems(tree') = Remaining(L, lw, s) /\ Content(tree') = lw
    BY <2>1, CanonicalIInvNext
  <2>3. QED
    BY <2>2 DEF lw
<1>4. QED
  BY <1>2, <1>3 DEF L, lv

LEMMA InitIInv == Init => IInv
BY InitCanonical, CanonicalIInv

LEMMA NextIInv == IInv /\ [Next]_tree => IInv'
<1>1. ASSUME IInv, Next PROVE IInv'
  BY <1>1, StepContent DEF Next
<1>2. ASSUME IInv, UNCHANGED tree PROVE IInv'
  BY <1>2 DEF IInv, Canonical
<1>3. QED
  BY <1>1, <1>2

\* The inductive invariant holds in every reachable state of insert and delete
\* (tree.py:76-235).
THEOREM InductiveInvariant == Spec => []IInv
BY InitIInv, NextIInv, PTL DEF Spec

\* Every position always holds one of the three node types (nodes.py).
THEOREM TypeCorrect == Spec => []TypeOK
<1>1. IInv => TypeOK
  BY CanonicalTreeType DEF IInv, Canonical, TypeOK
<1>2. QED
  BY <1>1, InductiveInvariant, PTL

\* For all stems, paths and histories, the tree is the canonical minimal tree
\* of the stems it holds (README.md:221, tree.py:191).
THEOREM CanonicalForm == Spec => []Canonical
<1>1. IInv => Canonical
  BY DEF IInv
<1>2. QED
  BY <1>1, InductiveInvariant, PTL

-----------------------------------------------------------------------------
(* The recursion of delete *)

\* Induction over the naturals, stated with a set instead of a predicate.
LEMMA InductionUp ==
  ASSUME NEW S, 0 \in S, \A n \in Nat : n \in S => n + 1 \in S
  PROVE  Nat \subseteq S
<1> DEFINE T == Nat \ S
<1>1. SUFFICES ASSUME T # {} PROVE FALSE
  OBVIOUS
<1>2. PICK n \in T : \A m \in T : n <= m
  <2> T \subseteq Nat
    OBVIOUS
  <2> HIDE DEF T
  <2>1. Least(T) \in T /\ \A m \in T : Least(T) <= m
    BY <1>1, LeastIsLeast
  <2>2. QED
    BY <2>1
<1>3. n - 1 \in Nat /\ n - 1 \notin T /\ (n - 1) + 1 = n
  BY <1>2
<1>4. QED
  BY <1>2, <1>3

\* One frame more: Frame satisfies the rule of _delete.
LEMMA FrameStep ==
  ASSUME NEW t \in [Position -> Node], NEW s \in Stem, NEW k \in 0..Depth,
         NEW n, n = Empty \/ IsStem(n), NEW d \in 0..(k - 1)
  PROVE  Frame(t, s, n, k, d) = Collapse(Frame(t, s, n, k, d + 1), t[Sibling(s, d + 1)])
<1> DEFINE A == Beside(t, s, d + 1, k)
           B == Beside(t, s, d, k)
           o == t[Sibling(s, d + 1)]
           y == Frame(t, s, n, k, d + 1)
           Lone(C) == \E j \in C : C = {j} /\ IsStem(t[Sibling(s, j)])
<1>1. d \in Nat /\ k \in Nat /\ d < k /\ k <= Depth /\ d + 1 \in 1..Depth
  BY ConstantAssumption
<1>2. o = Empty \/ o = Internal \/ IsStem(o)
  <2>1. Sibling(s, d + 1) \in Position
    BY <1>1, SiblingIsPosition
  <2>2. o \in Node
    BY <2>1
  <2>3. QED
    BY <2>2, NodeKinds DEF Node, StemNodes
<1>3. B = (IF o = Empty THEN A ELSE A \cup {d + 1}) /\ d + 1 \notin A
  <2>1. (d + 1)..k = {d + 1} \cup ((d + 1) + 1)..k /\ ~ (d + 1 \in ((d + 1) + 1)..k)
    BY <1>1
  <2>2. QED
    BY <2>1 DEF Beside
<1>4. A \subseteq Nat /\ B \subseteq Nat
  BY <1>1 DEF Beside
<1>5. y = IF A = {} THEN n
          ELSE IF n = Empty /\ Lone(A) THEN t[Sibling(s, Least(A))] ELSE Internal
  BY DEF Frame
<1>6. Frame(t, s, n, k, d) = IF B = {} THEN n
                             ELSE IF n = Empty /\ Lone(B) THEN t[Sibling(s, Least(B))]
                             ELSE Internal
  BY DEF Frame
<1>7. \A C : C \subseteq Nat => \A j \in C : C = {j} => Least(C) = j
  BY LeastIsLeast
<1>8. \A c : /\ c = Empty /\ o = Empty => Collapse(c, o) = Empty
             /\ c = Empty /\ IsStem(o) => Collapse(c, o) = o
             /\ IsStem(c) /\ o = Empty => Collapse(c, o) = c
             /\ c = Internal \/ (c # Empty /\ o # Empty) \/ o = Internal => Collapse(c, o) = Internal
  <2>1. TAKE c
  <2> HIDE DEF o
  <2>2. ASSUME c = Empty, o = Empty PROVE Collapse(c, o) = Empty
    BY <2>2, NodeKinds DEF Collapse
  <2>3. ASSUME c = Empty, IsStem(o) PROVE Collapse(c, o) = o
    BY <2>3, NodeKinds DEF Collapse
  <2>4. ASSUME IsStem(c), o = Empty PROVE Collapse(c, o) = c
    BY <2>4, NodeKinds DEF Collapse
  <2>5. ASSUME c = Internal \/ (c # Empty /\ o # Empty) \/ o = Internal
        PROVE  Collapse(c, o) = Internal
    BY <2>5, NodeKinds DEF Collapse
  <2>6. QED
    BY <2>2, <2>3, <2>4, <2>5
<1>9. CASE A = {}
  <2>1. y = n
    BY <1>5, <1>9
  <2>2. CASE o = Empty
    BY <1>3, <1>6, <1>8, <1>9, <2>1, <2>2
  <2>3. CASE o # Empty
    <3>1. B = {d + 1}
      BY <1>3, <1>9, <2>3
    <3>2. Least(B) = d + 1 /\ (Lone(B) <=> IsStem(o))
      BY <1>4, <1>7, <3>1
    <3> HIDE DEF A, B, y, Lone
    <3>3. Frame(t, s, n, k, d) = IF n = Empty /\ IsStem(o) THEN o ELSE Internal
      BY <1>6, <3>1, <3>2
    <3> HIDE DEF o
    <3>4. QED
      BY <1>2, <1>8, <2>1, <2>3, <3>3, NodeKinds DEF y, o
  <2>4. QED
    BY <2>2, <2>3
<1>10. CASE A # {} /\ n = Empty /\ Lone(A)
  <2>1. PICK j \in A : A = {j} /\ IsStem(t[Sibling(s, j)])
    BY <1>10
  <2>2. y = t[Sibling(s, j)] /\ IsStem(y) /\ y # Empty
    BY <1>4, <1>5, <1>7, <1>10, <2>1, NodeKinds
  <2>3. CASE o = Empty
    <3>1. B = A
      BY <1>3, <2>3
    <3>2. Frame(t, s, n, k, d) = y
      BY <1>5, <1>6, <3>1
    <3>3. QED
      BY <1>8, <2>2, <2>3, <3>2
  <2>4. CASE o # Empty
    <3>1. B = {j, d + 1} /\ j # d + 1
      BY <1>3, <2>1, <2>4
    <3>2. ~ Lone(B) /\ B # {}
      BY <3>1
    <3>3. Frame(t, s, n, k, d) = Internal
      BY <1>6, <3>2
    <3>4. QED
      BY <1>8, <2>2, <2>4, <3>3
  <2>5. QED
    BY <2>3, <2>4
<1>11. CASE A # {} /\ ~ (n = Empty /\ Lone(A))
  <2>1. y = Internal
    BY <1>5, <1>11
  <2>2. B # {} /\ ~ (n = Empty /\ Lone(B))
    <3>1. CASE o = Empty
      BY <1>3, <1>11, <3>1
    <3>2. CASE o # Empty
      <4>1. PICK j \in A : TRUE
        BY <1>11
      <4>2. j \in B /\ d + 1 \in B /\ j # d + 1
        BY <1>3, <3>2, <4>1
      <4>3. QED
        BY <4>2
    <3>3. QED
      BY <3>1, <3>2
  <2>3. QED
    BY <1>6, <1>8, <2>1, <2>2
<1>12. QED
  BY <1>9, <1>10, <1>11

\* Frame by frame, the recursion returns what Frame says.
LEMMA FramesUnwind ==
  ASSUME NEW t \in [Position -> Node], NEW s \in Stem, NEW k \in 0..Depth,
         NEW n, n = Empty \/ IsStem(n)
  PROVE  [j \in 0..k |-> Frame(t, s, n, k, j)] = FrameByFrame(t, s, n, k)
<1> DEFINE Over(ret, j) == IF j = 0 THEN n ELSE Collapse(ret[j - 1], t[Sibling(s, k - j + 1)])
           F == [j \in 0..k |-> Frame(t, s, n, k, k - j)]
           ret == CHOOSE f : f = [j \in 0..k |-> Over(f, j)]
<1>1. k \in Nat /\ k <= Depth
  BY ConstantAssumption
<1>2. Frame(t, s, n, k, k) = n
  <2>1. (k + 1)..k = {}
    BY <1>1
  <2>2. QED
    BY <2>1 DEF Frame, Beside
<1>3. ASSUME NEW j \in 0..k, j # 0
      PROVE  Frame(t, s, n, k, k - j) =
               Collapse(Frame(t, s, n, k, k - (j - 1)), t[Sibling(s, k - j + 1)])
  <2>1. k - j \in 0..(k - 1) /\ (k - j) + 1 = k - (j - 1) /\ (k - j) + 1 = k - j + 1
    BY <1>1, <1>3
  <2>2. QED
    BY <2>1, FrameStep
<1>4. F = [j \in 0..k |-> Over(F, j)]
  <2>1. ASSUME NEW j \in 0..k PROVE F[j] = Over(F, j)
    <3>1. CASE j = 0
      BY <1>1, <1>2, <3>1
    <3>2. CASE j # 0
      <4>1. j - 1 \in 0..k
        BY <1>1, <3>2
      <4>2. F[j] = Frame(t, s, n, k, k - j) /\ F[j - 1] = Frame(t, s, n, k, k - (j - 1))
        BY <4>1
      <4> HIDE DEF F
      <4>3. QED
        BY <1>3, <3>2, <4>2
    <3>3. QED
      BY <3>1, <3>2
  <2>2. F = [j \in 0..k |-> F[j]]
    OBVIOUS
  <2> HIDE DEF F, Over
  <2>3. QED
    BY <2>1, <2>2
<1> HIDE DEF F
<1>5. ret = [j \in 0..k |-> Over(ret, j)]
  BY <1>4
<1> HIDE DEF ret
<1>6. \A m \in Nat : m <= k => ret[m] = F[m]
  <2> DEFINE S == {m \in Nat : m <= k => ret[m] = F[m]}
  <2>1. 0 \in S
    <3>1. 0 \in 0..k
      BY <1>1
    <3>2. ret[0] = n /\ F[0] = n
      BY <1>4, <1>5, <3>1
    <3>3. QED
      BY <3>2
  <2>2. ASSUME NEW m \in Nat, m \in S PROVE m + 1 \in S
    <3>1. SUFFICES ASSUME m + 1 <= k PROVE ret[m + 1] = F[m + 1]
      OBVIOUS
    <3>2. m + 1 \in 0..k /\ m + 1 # 0 /\ (m + 1) - 1 = m /\ m <= k
      BY <1>1, <3>1
    <3>3. ret[m] = F[m]
      BY <2>2, <3>2
    <3>4. ret[m + 1] = Over(ret, m + 1) /\ F[m + 1] = Over(F, m + 1)
      BY <1>4, <1>5, <3>2
    <3>5. QED
      BY <3>2, <3>3, <3>4
  <2> HIDE DEF S
  <2>3. Nat \subseteq S
    BY <2>1, <2>2, InductionUp
  <2>4. QED
    BY <2>3 DEF S
<1>7. FrameByFrame(t, s, n, k) = [j \in 0..k |-> ret[k - j]]
  BY DEF FrameByFrame, ret
<1>8. \A j \in 0..k : ret[k - j] = Frame(t, s, n, k, j)
  <2>1. TAKE j \in 0..k
  <2>2. k - j \in Nat /\ k - j <= k /\ k - j \in 0..k /\ k - (k - j) = j
    BY <1>1
  <2>3. ret[k - j] = F[k - j]
    BY <1>6, <2>2
  <2>4. F[k - j] = Frame(t, s, n, k, j)
    BY <2>2 DEF F
  <2>5. QED
    BY <2>3, <2>4
<1>9. QED
  BY <1>7, <1>8

\* What the proofs call unwinding is the recursion of _delete, whatever tree it meets.
THEOREM UnwindingIsRecursion == Spec => []UnwindIsFrameByFrame
<1>1. ASSUME IInv, NEW s \in Stem, NEW i \in Subindex
      PROVE  LET k == StopDepth(tree, s)
                 n == Cleared(Reached(tree, s), s, i)
             IN  [j \in 0..k |-> Frame(tree, s, n, k, j)] = FrameByFrame(tree, s, n, k)
  <2> DEFINE L == LiveStems(tree)
             lv == Content(tree)
             k == StopDepth(tree, s)
             r == Reached(tree, s)
             n == Cleared(r, s, i)
             vs == [r.values EXCEPT ![i] = EmptyValue]
  <2>1. Stored(L, lv) /\ tree = CanonicalTree(L, lv)
    BY <1>1 DEF IInv, Canonical
  <2>2. tree \in [Position -> Node]
    BY <2>1, CanonicalTreeType
  <2>3. k \in 0..Depth
    BY <2>1, Descent
  <2>4. r = Empty \/ IsStem(r)
    BY <2>1, ReachedNode, NodeKinds
  <2> HIDE DEF L, lv, k, r
  <2>5. n = Empty \/ IsStem(n)
    <3>1. CASE ~ Holds(r, s)
      BY <2>4, <3>1 DEF Cleared
    <3>2. CASE Holds(r, s) /\ vs = NoLeaves
      BY <3>2 DEF Cleared
    <3>3. CASE Holds(r, s) /\ vs # NoLeaves
      <4>1. n = StemNode(s, vs)
        BY <3>3 DEF Cleared
      <4>2. QED
        BY <4>1, NodeKinds
    <3>4. QED
      BY <3>1, <3>2, <3>3
  <2> HIDE DEF n
  <2>6. [j \in 0..k |-> Frame(tree, s, n, k, j)] = FrameByFrame(tree, s, n, k)
    BY <2>2, <2>3, <2>5, FramesUnwind
  <2>7. QED
    BY <2>6 DEF k, n, r
<1>2. IInv => UnwindIsFrameByFrame
  BY <1>1 DEF UnwindIsFrameByFrame
<1>3. QED
  BY <1>2, InductiveInvariant, PTL

-----------------------------------------------------------------------------
(* Without inserts of EmptyValue the tree is a function of the map *)

NoBareStem == \A s \in LiveStems(tree) : Content(tree)[s] # NoLeaves

LEMMA WrittenLeaf ==
  ASSUME NEW lv \in [Stem -> Leaves], NEW s \in Stem, NEW i \in Subindex,
         NEW v \in Value, v # EmptyValue
  PROVE  Written(lv, s, i, v)[s] # NoLeaves
<1>1. Written(lv, s, i, v)[s][i] = v
  BY DEF Written, Leaves
<1>2. NoLeaves[i] = EmptyValue
  BY DEF NoLeaves
<1>3. QED
  BY <1>1, <1>2

LEMMA NextNoBareStem ==
  ASSUME EmptyValue \notin InsertValue, IInv, NoBareStem, [Next]_tree
  PROVE  NoBareStem'
<1> DEFINE L  == LiveStems(tree)
           lv == Content(tree)
<1>1. L \subseteq Stem /\ lv \in [Stem -> Leaves]
  BY DEF IInv, Stored
<1>2. \A s \in L : lv[s] # NoLeaves
  BY DEF NoBareStem
<1> HIDE DEF L, lv
<1>3. ASSUME NEW s \in Stem, NEW i \in Subindex, NEW v \in InsertValue, Insert(s, i, v)
      PROVE  NoBareStem'
  <2>1. LiveStems(tree') = L \cup {s} /\ Content(tree') = Written(lv, s, i, v)
    BY <1>3, StepContent DEF L, lv
  <2>2. v \in Value /\ v # EmptyValue
    BY ConstantAssumption
  <2>3. Content(tree')[s] # NoLeaves
    BY <1>1, <2>1, <2>2, WrittenLeaf
  <2>4. \A u \in Stem : u # s => Content(tree')[u] = lv[u]
    BY <1>1, <2>1 DEF Written
  <2>5. QED
    BY <1>1, <1>2, <2>1, <2>3, <2>4 DEF NoBareStem
<1>4. ASSUME NEW s \in Stem, NEW i \in Subindex, Delete(s, i)
      PROVE  NoBareStem'
  <2>1. /\ Content(tree') = Written(lv, s, i, EmptyValue)
        /\ LiveStems(tree') = Remaining(L, Content(tree'), s)
    BY <1>4, StepContent DEF L, lv
  <2>2. \A u \in Stem : u # s => Content(tree')[u] = lv[u]
    BY <1>1, <2>1 DEF Written
  <2>3. QED
    BY <1>1, <1>2, <2>1, <2>2 DEF NoBareStem, Remaining
<1>5. CASE UNCHANGED tree
  BY <1>5 DEF NoBareStem
<1>6. QED
  BY <1>3, <1>4, <1>5 DEF Next

LEMMA InitNoBareStem == Init => NoBareStem
<1>1. ASSUME Init PROVE LiveStems(tree) = {}
  BY <1>1, InitCanonical, CanonicalContent
<1>2. QED
  BY <1>1 DEF NoBareStem

\* When no caller inserts EMPTY_VALUE, the tree and with it the root hash is a
\* function of the (key, value) set, whatever the operations that led to it
\* and their order (README.md:86).
THEOREM RootDeterminism ==
  ASSUME EmptyValue \notin InsertValue
  PROVE  Spec => []RootIsFunctionOfMap
<1>1. IInv /\ NoBareStem => RootIsFunctionOfMap
  <2> SUFFICES ASSUME IInv, NoBareStem PROVE RootIsFunctionOfMap
    OBVIOUS
  <2>1. LiveStems(tree) = {s \in Stem : Content(tree)[s] # NoLeaves}
    BY DEF IInv, Stored, NoBareStem
  <2>2. QED
    BY <2>1 DEF IInv, Canonical, RootIsFunctionOfMap
<1>2. IInv /\ NoBareStem /\ [Next]_tree => NoBareStem'
  BY NextNoBareStem
<1>3. QED
  BY <1>1, <1>2, InitNoBareStem, InductiveInvariant, PTL DEF Spec

-----------------------------------------------------------------------------
(* The tree implements the map *)

MapOf == [k \in Stem \X Subindex |-> Get(tree, k[1], k[2])]

LEMMA MapOfContent ==
  ASSUME NEW s \in Stem, NEW i \in Subindex
  PROVE  /\ MapOf[<<s, i>>] = Content(tree)[s][i]
         /\ (MapOf')[<<s, i>>] = Content(tree')[s][i]
BY DEF MapOf, Content

\* A write to one leaf of the tree is a write to one key of the map.
LEMMA WriteIsPut ==
  ASSUME NEW s \in Stem, NEW i \in Subindex, NEW v \in Value,
         Content(tree) \in [Stem -> Leaves],
         Content(tree') = Written(Content(tree), s, i, v)
  PROVE  MapOf' = [MapOf EXCEPT ![<<s, i>>] = v]
<1>1. ASSUME NEW u \in Stem, NEW j \in Subindex
      PROVE  Content(tree')[u][j] = IF u = s /\ j = i THEN v ELSE Content(tree)[u][j]
  BY DEF Written, Leaves
<1>2. ASSUME NEW k \in Stem \X Subindex
      PROVE  (MapOf')[k] = IF k = <<s, i>> THEN v ELSE MapOf[k]
  <2>1. PICK u \in Stem, j \in Subindex : k = <<u, j>>
    OBVIOUS
  <2>2. k = <<s, i>> <=> u = s /\ j = i
    BY <2>1
  <2>3. QED
    BY <2>1, <2>2, <1>1, MapOfContent
<1>3. MapOf' = [k \in Stem \X Subindex |-> (MapOf')[k]]
  BY DEF MapOf
<1>4. DOMAIN MapOf = Stem \X Subindex /\ MapOf = [k \in Stem \X Subindex |-> MapOf[k]]
  BY DEF MapOf
<1>5. QED
  BY <1>2, <1>3, <1>4

\* Every behaviour of the tree is one of the map from keys to values: insert
\* writes the one key it names, delete makes the one key absent, and no split,
\* hoist or removal of a stem loses or moves the leaf of another key.
THEOREM MapRefinement == Spec => RefinesMap
<1>1. Init => Map!Init
  <2> SUFFICES ASSUME Init PROVE Map!Init
    OBVIOUS
  <2>1. Content(tree) = [s \in Stem |-> NoLeaves]
    BY InitCanonical, CanonicalContent
  <2>2. ASSUME NEW k \in Stem \X Subindex PROVE Get(tree, k[1], k[2]) = EmptyValue
    <3>1. k[1] \in Stem /\ k[2] \in Subindex
      OBVIOUS
    <3>2. Get(tree, k[1], k[2]) = Content(tree)[k[1]][k[2]]
      BY <3>1 DEF Content
    <3>3. QED
      BY <2>1, <3>1, <3>2 DEF NoLeaves
  <2>3. QED
    BY <2>2 DEF Map!Init, Map!Key
<1>2. IInv /\ [Next]_tree => [Map!Next]_MapOf
  <2> SUFFICES ASSUME IInv, [Next]_tree PROVE [Map!Next]_MapOf
    OBVIOUS
  <2>0. Content(tree) \in [Stem -> Leaves] /\ EmptyValue \in Value /\ InsertValue \subseteq Value
    BY ConstantAssumption DEF IInv, Stored
  <2>1. ASSUME NEW s \in Stem, NEW i \in Subindex, NEW v \in InsertValue, Insert(s, i, v)
        PROVE  Map!Next
    <3>1. Content(tree') = Written(Content(tree), s, i, v)
      BY <2>1, StepContent
    <3>2. MapOf' = [MapOf EXCEPT ![<<s, i>>] = v]
      BY <2>0, <3>1, WriteIsPut
    <3>3. Map!Put(<<s, i>>, v)
      BY <3>2 DEF Map!Put, MapOf
    <3>4. <<s, i>> \in Map!Key
      BY DEF Map!Key
    <3>5. QED
      BY <3>3, <3>4 DEF Map!Next
  <2>2. ASSUME NEW s \in Stem, NEW i \in Subindex, Delete(s, i)
        PROVE  Map!Next
    <3>1. Content(tree') = Written(Content(tree), s, i, EmptyValue)
      BY <2>2, StepContent
    <3>2. MapOf' = [MapOf EXCEPT ![<<s, i>>] = EmptyValue]
      BY <2>0, <3>1, WriteIsPut
    <3>3. Map!Remove(<<s, i>>)
      BY <3>2 DEF Map!Remove, MapOf
    <3>4. <<s, i>> \in Map!Key
      BY DEF Map!Key
    <3>5. QED
      BY <3>3, <3>4 DEF Map!Next
  <2>3. CASE UNCHANGED tree
    BY <2>3 DEF MapOf
  <2>4. QED
    BY <2>1, <2>2, <2>3 DEF Next
<1>3. QED
  BY <1>1, <1>2, InductiveInvariant, PTL DEF Spec, RefinesMap, Map!Spec, MapOf
=============================================================================
