---------------------------- MODULE MerkleProofs ----------------------------
(***************************************************************************)
(* Theorems about the proofs and batch proofs of Merkle, for every set of  *)
(* stems, path bits and values, and every history of the session.          *)
(***************************************************************************)
EXTENDS Merkle, PBTreeProofs, FiniteSetTheorems

-----------------------------------------------------------------------------
(* Induction over an interval, stated with a set instead of a predicate *)

LEMMA InductionDown ==
  ASSUME NEW m \in Nat, NEW S, m \in S, \A n \in 0..(m - 1) : n + 1 \in S => n \in S
  PROVE  0..m \subseteq S
<1> DEFINE U == {n \in Nat : n <= m => m - n \in S}
<1>1. 0 \in U
  OBVIOUS
<1>2. ASSUME NEW n \in Nat, n \in U PROVE n + 1 \in U
  <2>1. CASE n + 1 <= m
    <3>1. m - n \in S /\ m - (n + 1) \in 0..(m - 1) /\ (m - (n + 1)) + 1 = m - n
      BY <1>2, <2>1
    <3>2. QED
      BY <3>1
  <2>2. CASE ~ (n + 1 <= m)
    BY <2>2
  <2>3. QED
    BY <2>1, <2>2
<1>3. Nat \subseteq U
  <2> HIDE DEF U
  <2> QED
    BY <1>1, <1>2, InductionUp
<1>4. ASSUME NEW j \in 0..m PROVE j \in S
  <2>1. m - j \in Nat /\ m - j <= m /\ m - (m - j) = j
    OBVIOUS
  <2>2. QED
    BY <1>3, <2>1
<1>5. QED
  BY <1>4

-----------------------------------------------------------------------------
(* Hashes are equal exactly if their preimages are *)

LEMMA HashKinds ==
  /\ \A s, vs : HashStem(s, vs) # EmptyHash
  /\ \A l, r : HashPair(l, r) # EmptyHash
  /\ \A s, vs, l, r : HashStem(s, vs) # HashPair(l, r)
<1>1. EmptyHash.tag = "empty"
  BY DEF EmptyHash
<1>2. \A s, vs : HashStem(s, vs).tag = "stem"
  BY DEF HashStem
<1>3. \A l, r : HashPair(l, r).tag = "pair"
  BY DEF HashPair
<1>4. QED
  BY <1>1, <1>2, <1>3

LEMMA HashPairInjective ==
  ASSUME NEW l, NEW r, NEW x, NEW y, HashPair(l, r) = HashPair(x, y)
  PROVE  l = x /\ r = y
<1>1. HashPair(l, r).left = l /\ HashPair(l, r).right = r
  BY DEF HashPair
<1>2. HashPair(x, y).left = x /\ HashPair(x, y).right = y
  BY DEF HashPair
<1>3. QED
  BY <1>1, <1>2

LEMMA HashStemInjective ==
  ASSUME NEW s, NEW vs, NEW r, NEW ws, HashStem(s, vs) = HashStem(r, ws)
  PROVE  s = r /\ vs = ws
<1>1. HashStem(s, vs).prefix = s /\ HashStem(s, vs).values = vs
  BY DEF HashStem
<1>2. HashStem(r, ws).prefix = r /\ HashStem(r, ws).values = ws
  BY DEF HashStem
<1>3. QED
  BY <1>1, <1>2

-----------------------------------------------------------------------------
(* node_hash: the hashes of all nodes exist, and each is made of those of  *)
(* its children                                                            *)

\* Positions of depth d and below.
From(d) == UNION {[0..(e - 1) -> {0, 1}] : e \in d..Depth}

HashOver(h, t, p) ==
  IF t[p] = Empty THEN EmptyHash
  ELSE IF IsStem(t[p]) THEN HashStem(t[p].prefix, t[p].values)
  ELSE HashPair(h[<<t, Child(p, 0)>>], h[<<t, Child(p, 1)>>])

LEMMA DepthUnique ==
  ASSUME NEW d \in Nat, NEW e \in Nat, NEW p \in [0..(d - 1) -> {0, 1}],
         p \in [0..(e - 1) -> {0, 1}]
  PROVE  d = e
<1>1. 0..(d - 1) = 0..(e - 1)
  <2>1. DOMAIN p = 0..(d - 1) /\ DOMAIN p = 0..(e - 1)
    OBVIOUS
  <2>2. QED
    BY <2>1
<1>2. QED
  BY <1>1, IntervalEq

LEMMA ChildIsBelow ==
  ASSUME NEW d \in Nat, NEW p \in [0..(d - 1) -> {0, 1}], NEW b \in {0, 1}
  PROVE  /\ Child(p, b) \in [0..d -> {0, 1}]
         /\ Child(p, b) = [i \in 0..d |-> IF i < d THEN p[i] ELSE b]
<1>2. Cardinality(0..(d - 1)) = d
  <2>1. 0 \in Int /\ d - 1 \in Int /\ (0 > d - 1 <=> d = 0)
    OBVIOUS
  <2>2. QED
    BY <2>1, FS_Interval
<1>3. DOMAIN p = 0..(d - 1)
  OBVIOUS
<1>4. Child(p, b) = [i \in 0..d |-> IF i < d THEN p[i] ELSE b]
  BY <1>2, <1>3 DEF Child
<1>5. ASSUME NEW i \in 0..d PROVE (IF i < d THEN p[i] ELSE b) \in {0, 1}
  <2>1. i < d => i \in 0..(d - 1)
    OBVIOUS
  <2>2. QED
    BY <2>1
<1>6. QED
  BY <1>4, <1>5

LEMMA FromIsPosition ==
  /\ From(0) = Position
  /\ \A d \in 0..Depth : From(d) \subseteq Position
  /\ \A d \in 0..Depth : From(d + 1) \subseteq From(d)
<1>1. \A d \in 0..Depth : d..Depth \subseteq 0..Depth /\ (d + 1)..Depth \subseteq d..Depth
  BY ConstantAssumption
<1>2. QED
  BY <1>1 DEF From, Position

\* An InternalNode is above the end of the paths.
LEMMA InternalIsAbove ==
  ASSUME NEW t \in Tree, NEW d \in 0..Depth, NEW p \in [0..(d - 1) -> {0, 1}],
         t[p] = Internal
  PROVE  d \in 0..(Depth - 1)
<1>1. d \in Nat /\ d + 1 \in Nat
  BY ConstantAssumption
<1>2. p \in Position
  BY DEF Position
<1>3. Child(p, 0) \in Position
  BY <1>2 DEF Tree
<1>4. PICK e \in 0..Depth : Child(p, 0) \in [0..(e - 1) -> {0, 1}]
  BY <1>3 DEF Position
<1>5. Child(p, 0) \in [0..((d + 1) - 1) -> {0, 1}]
  BY <1>1, ChildIsBelow
<1>6. e \in Nat
  BY ConstantAssumption
<1>7. d + 1 = e
  BY <1>1, <1>4, <1>5, <1>6, DepthUnique
<1>8. QED
  BY <1>4, <1>7, ConstantAssumption

LEMMA ChildStaysBelow ==
  ASSUME NEW t \in Tree, NEW d \in 0..Depth, NEW p \in From(d), t[p] = Internal,
         NEW b \in {0, 1}
  PROVE  Child(p, b) \in From(d + 1)
<1>1. PICK e \in d..Depth : p \in [0..(e - 1) -> {0, 1}]
  BY DEF From
<1>2. e \in 0..Depth /\ e \in Nat
  BY ConstantAssumption
<1>3. e \in 0..(Depth - 1)
  BY <1>1, <1>2, InternalIsAbove
<1>4. e + 1 \in (d + 1)..Depth /\ (e + 1) - 1 = e
  BY <1>1, <1>3, ConstantAssumption
<1>5. Child(p, b) \in [0..((e + 1) - 1) -> {0, 1}]
  BY <1>1, <1>2, <1>4, ChildIsBelow
<1>6. QED
  BY <1>4, <1>5 DEF From

LEMMA TreeNodes ==
  ASSUME NEW t \in Tree, NEW p \in Position
  PROVE  t[p] = Empty \/ IsStem(t[p]) \/ t[p] = Internal
BY NodeKinds DEF Tree, Node, StemNodes

\* The hashes of all positions from depth d down, given those from d + 1 down.
LEMMA HashesExtend ==
  ASSUME NEW d \in 0..(Depth - 1),
         NEW h, h = [x \in Tree \X From(d + 1) |-> HashOver(h, x[1], x[2])]
  PROVE  \E g : g = [x \in Tree \X From(d) |-> HashOver(g, x[1], x[2])]
<1> DEFINE g == [x \in Tree \X From(d) |-> HashOver(h, x[1], x[2])]
<1>0. d \in 0..Depth /\ d + 1 \in 0..Depth
  BY ConstantAssumption
<1>1. From(d + 1) \subseteq From(d) /\ From(d) \subseteq Position
  BY <1>0, FromIsPosition
<1>2. \A x \in Tree \X From(d + 1) : g[x] = h[x]
  <2>1. SUFFICES ASSUME NEW x \in Tree \X From(d + 1) PROVE g[x] = h[x]
    OBVIOUS
  <2>2. x \in Tree \X From(d)
    BY <1>1
  <2>3. QED
    BY <2>2
<1>3. ASSUME NEW x \in Tree \X From(d)
      PROVE  HashOver(h, x[1], x[2]) = HashOver(g, x[1], x[2])
  <2>1. PICK t \in Tree, p \in From(d) : x = <<t, p>>
    OBVIOUS
  <2>2. CASE t[p] = Internal
    <3>1. Child(p, 0) \in From(d + 1) /\ Child(p, 1) \in From(d + 1)
      BY <1>0, <2>2, ChildStaysBelow
    <3>2. g[<<t, Child(p, 0)>>] = h[<<t, Child(p, 0)>>] /\ g[<<t, Child(p, 1)>>] = h[<<t, Child(p, 1)>>]
      BY <1>2, <3>1
    <3> HIDE DEF g
    <3>3. QED
      BY <2>1, <3>2, <2>2, NodeKinds DEF HashOver
  <2>3. CASE t[p] # Internal
    <3>1. t[p] = Empty \/ IsStem(t[p])
      BY <1>1, <2>3, TreeNodes
    <3> HIDE DEF g
    <3>2. QED
      BY <2>1, <3>1, <2>3, NodeKinds DEF HashOver
  <2>4. QED
    BY <2>2, <2>3
<1>4. g = [x \in Tree \X From(d) |-> HashOver(g, x[1], x[2])]
  BY <1>3
<1> HIDE DEF g
<1>5. QED
  BY <1>4

LEMMA HashesExist == \E h : h = [x \in Tree \X Position |-> HashOver(h, x[1], x[2])]
<1> DEFINE S == {d \in 0..Depth :
                  \E h : h = [x \in Tree \X From(d) |-> HashOver(h, x[1], x[2])]}
<1>1. Depth \in S
  <2> DEFINE o == [q \in {} |-> EmptyHash]
             h == [x \in Tree \X From(Depth) |-> HashOver(o, x[1], x[2])]
  <2>1. ASSUME NEW x \in Tree \X From(Depth) PROVE h[x] = HashOver(h, x[1], x[2])
    <3>1. PICK t \in Tree, p \in From(Depth) : x = <<t, p>>
      OBVIOUS
    <3>2. p \in Position /\ p \in [0..(Depth - 1) -> {0, 1}]
      <4>1. Depth \in 0..Depth /\ Depth..Depth = {Depth}
        BY ConstantAssumption
      <4>2. QED
        BY <4>1 DEF From, Position
    <3>3. t[p] # Internal
      BY <3>2, InternalIsAbove, ConstantAssumption
    <3>4. t[p] = Empty \/ IsStem(t[p])
      BY <3>2, <3>3, TreeNodes
    <3>5. h[x] = HashOver(o, t, p)
      BY <3>1
    <3> HIDE DEF h, o
    <3>6. QED
      BY <3>1, <3>3, <3>4, <3>5, NodeKinds DEF HashOver
  <2>2. h = [x \in Tree \X From(Depth) |-> HashOver(h, x[1], x[2])]
    BY <2>1
  <2>3. Depth \in 0..Depth
    BY ConstantAssumption
  <2> HIDE DEF h
  <2>4. \E g : g = [x \in Tree \X From(Depth) |-> HashOver(g, x[1], x[2])]
    BY <2>2
  <2>5. QED
    BY <2>3, <2>4
<1>2. ASSUME NEW d \in 0..(Depth - 1), d + 1 \in S PROVE d \in S
  <2>1. d \in 0..Depth
    BY ConstantAssumption
  <2>2. \E h : h = [x \in Tree \X From(d + 1) |-> HashOver(h, x[1], x[2])]
    BY <1>2
  <2>3. \E h : h = [x \in Tree \X From(d) |-> HashOver(h, x[1], x[2])]
    BY <2>2, HashesExtend
  <2>4. QED
    BY <2>1, <2>3
<1>3. 0..Depth \subseteq S
  <2> HIDE DEF S
  <2> QED
    BY <1>1, <1>2, InductionDown, ConstantAssumption
<1>4. 0 \in S
  <2>1. 0 \in 0..Depth
    BY ConstantAssumption
  <2> HIDE DEF S
  <2>2. QED
    BY <1>3, <2>1
<1>5. From(0) = Position
  BY FromIsPosition
<1>6. QED
  BY <1>4, <1>5

LEMMA NodeHashAtEquation ==
  NodeHashAt = [x \in Tree \X Position |-> HashOver(NodeHashAt, x[1], x[2])]
<1>1. NodeHashAt = CHOOSE h : h = [x \in Tree \X Position |-> HashOver(h, x[1], x[2])]
  BY DEF NodeHashAt, HashOver
<1>2. QED
  BY <1>1, HashesExist

LEMMA NodeHashEquation ==
  ASSUME NEW t \in Tree, NEW p \in Position
  PROVE  /\ t[p] = Empty    => NodeHash(t)[p] = EmptyHash
         /\ IsStem(t[p])    => NodeHash(t)[p] = HashStem(t[p].prefix, t[p].values)
         /\ t[p] = Internal => NodeHash(t)[p] = HashPair(NodeHash(t)[Child(p, 0)],
                                                         NodeHash(t)[Child(p, 1)])
<1>1. NodeHash(t)[p] = HashOver(NodeHashAt, t, p)
  <2>1. NodeHashAt[<<t, p>>] = HashOver(NodeHashAt, t, p)
    BY NodeHashAtEquation
  <2>2. QED
    BY <2>1 DEF NodeHash
<1>2. CASE t[p] = Internal
  <2>1. Child(p, 0) \in Position /\ Child(p, 1) \in Position
    <3>1. p \in From(0) /\ 0 \in 0..Depth
      BY FromIsPosition, ConstantAssumption
    <3>2. Child(p, 0) \in From(0 + 1) /\ Child(p, 1) \in From(0 + 1)
      BY <1>2, <3>1, ChildStaysBelow
    <3>3. QED
      BY <3>1, <3>2, FromIsPosition
  <2>2. /\ NodeHash(t)[Child(p, 0)] = NodeHashAt[<<t, Child(p, 0)>>]
        /\ NodeHash(t)[Child(p, 1)] = NodeHashAt[<<t, Child(p, 1)>>]
    BY <2>1 DEF NodeHash
  <2>3. QED
    BY <1>1, <1>2, <2>2, NodeKinds DEF HashOver
<1>3. CASE t[p] = Empty
  BY <1>1, <1>3, NodeKinds DEF HashOver
<1>4. CASE IsStem(t[p])
  BY <1>1, <1>4, NodeKinds DEF HashOver
<1>5. QED
  BY <1>2, <1>3, <1>4

-----------------------------------------------------------------------------
(* The hashes along a path *)

LEMMA ChildOnPath ==
  ASSUME NEW s \in Stem, NEW d \in 0..(Depth - 1)
  PROVE  /\ Child(Path(s, d), PathBit[s][d]) = Path(s, d + 1)
         /\ Child(Path(s, d), 1 - PathBit[s][d]) = Sibling(s, d + 1)
<1>1. d \in Nat /\ d \in 0..Depth /\ (d + 1) - 1 = d
  BY ConstantAssumption
<1>2. PathBit[s][d] \in {0, 1} /\ 1 - PathBit[s][d] \in {0, 1}
  BY Bits
<1>3. Path(s, d) \in [0..(d - 1) -> {0, 1}]
  <2>1. \A i \in 0..(d - 1) : i \in 0..(Depth - 1)
    BY <1>1, ConstantAssumption
  <2>2. QED
    BY <2>1, Bits DEF Path
<1>4. \A i \in 0..d : i < d => i \in 0..(d - 1) /\ Path(s, d)[i] = PathBit[s][i] /\ i # d
  BY <1>1 DEF Path
<1>5. \A i \in 0..d : ~ (i < d) => i = d
  BY <1>1
<1>6. ASSUME NEW b \in {0, 1}
      PROVE  Child(Path(s, d), b) = [i \in 0..d |-> IF i = d THEN b ELSE PathBit[s][i]]
  <2>1. Child(Path(s, d), b) = [i \in 0..d |-> IF i < d THEN Path(s, d)[i] ELSE b]
    BY <1>1, <1>3, ChildIsBelow
  <2>2. \A i \in 0..d : (IF i < d THEN Path(s, d)[i] ELSE b) = IF i = d THEN b ELSE PathBit[s][i]
    BY <1>1, <1>4, <1>5
  <2>3. QED
    BY <2>1, <2>2
<1>7. Path(s, d + 1) = [i \in 0..d |-> IF i = d THEN PathBit[s][d] ELSE PathBit[s][i]]
  BY <1>1 DEF Path
<1>8. Sibling(s, d + 1) = [i \in 0..d |-> IF i = d THEN 1 - PathBit[s][d] ELSE PathBit[s][i]]
  BY <1>1 DEF Sibling
<1>9. QED
  BY <1>2, <1>6, <1>7, <1>8

LEMMA HashOnPath ==
  ASSUME NEW t \in Tree, NEW s \in Stem, NEW d \in 0..(Depth - 1),
         t[Path(s, d)] = Internal
  PROVE  NodeHash(t)[Path(s, d)] =
           IF PathBit[s][d] = 0
           THEN HashPair(NodeHash(t)[Path(s, d + 1)], NodeHash(t)[Sibling(s, d + 1)])
           ELSE HashPair(NodeHash(t)[Sibling(s, d + 1)], NodeHash(t)[Path(s, d + 1)])
<1>1. Path(s, d) \in Position
  BY PathIsPosition, ConstantAssumption
<1>2. NodeHash(t)[Path(s, d)] = HashPair(NodeHash(t)[Child(Path(s, d), 0)],
                                         NodeHash(t)[Child(Path(s, d), 1)])
  BY <1>1, NodeHashEquation
<1>3. PathBit[s][d] \in {0, 1}
  BY Bits
<1>4. /\ Child(Path(s, d), PathBit[s][d]) = Path(s, d + 1)
      /\ Child(Path(s, d), 1 - PathBit[s][d]) = Sibling(s, d + 1)
  BY ChildOnPath
<1>5. CASE PathBit[s][d] = 0
  <2>1. 1 - PathBit[s][d] = 1
    BY <1>5
  <2>2. QED
    BY <1>2, <1>4, <1>5, <2>1
<1>6. CASE PathBit[s][d] = 1
  <2>1. 1 - PathBit[s][d] = 0
    BY <1>6
  <2>2. QED
    BY <1>2, <1>4, <1>6, <2>1
<1>7. QED
  BY <1>3, <1>5, <1>6

LEMMA RootPath ==
  ASSUME NEW s
  PROVE  Path(s, 0) = <<>>
<1>1. 0..(0 - 1) = {} /\ DOMAIN <<>> = {}
  OBVIOUS
<1>2. QED
  BY <1>1 DEF Path

\* A canonical tree is a tree: its InternalNodes have children.
LEMMA CanonicalIsTree ==
  ASSUME NEW L, NEW lv, Stored(L, lv), NEW t, t = CanonicalTree(L, lv)
  PROVE  t \in Tree
<1>1. t \in [Position -> Node]
  BY CanonicalTreeType
<1>2. ASSUME NEW p \in Position, t[p] = Internal PROVE Child(p, 0) \in Position
  <2>1. Crowded(L, p)
    <3>1. \A s \in L : Hangs(L, s, p) => t[p] = StemNode(s, lv[s])
      BY CanonicalNode DEF Stored
    <3>2. \A s \in L : ~ Hangs(L, s, p)
      BY <3>1, <1>2, NodeKinds
    <3>3. QED
      BY <3>2, <1>2, CanonicalNode, NodeKinds DEF Stored
  <2>2. PICK s \in Stem, r \in Stem, d \in 0..Depth, e \in 0..Depth :
          s # r /\ p = Path(s, d) /\ p = Path(r, e)
    BY <2>1 DEF Crowded, Below, Stored
  <2>3. Agree(s, r, d)
    <3>1. Path(s, d) = Path(r, e)
      BY <2>2
    <3>2. QED
      BY <3>1, PathEq
  <2>4. d # Depth
    BY <2>2, <2>3, AgreeEnds
  <2>5. d \in 0..(Depth - 1) /\ d + 1 \in 0..Depth /\ d + 1 \in 1..Depth
    BY <2>4, ConstantAssumption
  <2>6. Path(s, d + 1) \in Position /\ Sibling(s, d + 1) \in Position
    BY <2>5, PathIsPosition, SiblingIsPosition
  <2>7. PathBit[s][d] \in {0, 1}
    BY <2>5, Bits
  <2>8. Child(p, PathBit[s][d]) \in Position /\ Child(p, 1 - PathBit[s][d]) \in Position
    BY <2>2, <2>5, <2>6, ChildOnPath
  <2>9. PathBit[s][d] = 0 \/ 1 - PathBit[s][d] = 0
    BY <2>7
  <2>10. QED
    BY <2>8, <2>9
<1>3. QED
  BY <1>1, <1>2 DEF Tree

-----------------------------------------------------------------------------
(* verify_proof: what is hashed after each sibling *)

FoldOver(f, pf, n) ==
  IF n = 0 THEN HashStem(pf.key[1], pf.stemValues)
  ELSE IF pf.bits[Len(pf.bits) + 1 - n] = 0
  THEN HashPair(f[<<pf, n - 1>>], pf.siblings[Len(pf.bits) + 1 - n])
  ELSE HashPair(pf.siblings[Len(pf.bits) + 1 - n], f[<<pf, n - 1>>])

LEMMA FoldExtends ==
  ASSUME NEW n \in Nat, NEW f, f = [x \in Proof \X (0..n) |-> FoldOver(f, x[1], x[2])]
  PROVE  \E g : g = [x \in Proof \X (0..(n + 1)) |-> FoldOver(g, x[1], x[2])]
<1> DEFINE g == [x \in Proof \X (0..(n + 1)) |-> FoldOver(f, x[1], x[2])]
<1>1. \A x \in Proof \X (0..n) : g[x] = f[x]
  <2>1. \A x \in Proof \X (0..n) : x \in Proof \X (0..(n + 1))
    OBVIOUS
  <2>2. \A x \in Proof \X (0..n) : g[x] = FoldOver(f, x[1], x[2])
    BY <2>1
  <2> HIDE DEF g
  <2>3. QED
    BY <2>2
<1>2. ASSUME NEW x \in Proof \X (0..(n + 1))
      PROVE  FoldOver(f, x[1], x[2]) = FoldOver(g, x[1], x[2])
  <2>1. PICK pf \in Proof, k \in 0..(n + 1) : x = <<pf, k>>
    OBVIOUS
  <2>2. CASE k = 0
    <3> HIDE DEF g
    <3> QED
      BY <2>1, <2>2 DEF FoldOver
  <2>3. CASE k # 0
    <3>1. <<pf, k - 1>> \in Proof \X (0..n)
      BY <2>3
    <3>2. g[<<pf, k - 1>>] = f[<<pf, k - 1>>]
      BY <3>1, <1>1
    <3> HIDE DEF g
    <3>3. QED
      BY <2>1, <2>3, <3>2 DEF FoldOver
  <2>4. QED
    BY <2>2, <2>3
<1>3. g = [x \in Proof \X (0..(n + 1)) |-> FoldOver(g, x[1], x[2])]
  BY <1>2
<1> HIDE DEF g
<1>4. QED
  BY <1>3

LEMMA FoldExists == \E f : f = [x \in Proof \X (0..Depth) |-> FoldOver(f, x[1], x[2])]
<1> DEFINE S == {n \in Nat : \E f : f = [x \in Proof \X (0..n) |-> FoldOver(f, x[1], x[2])]}
<1>1. 0 \in S
  <2> DEFINE f == [x \in Proof \X (0..0) |-> HashStem(x[1].key[1], x[1].stemValues)]
  <2>1. ASSUME NEW x \in Proof \X (0..0) PROVE f[x] = FoldOver(f, x[1], x[2])
    <3>1. x[2] = 0
      OBVIOUS
    <3>2. f[x] = HashStem(x[1].key[1], x[1].stemValues)
      OBVIOUS
    <3> HIDE DEF f
    <3>3. QED
      BY <3>1, <3>2 DEF FoldOver
  <2>2. f = [x \in Proof \X (0..0) |-> FoldOver(f, x[1], x[2])]
    BY <2>1
  <2> HIDE DEF f
  <2>3. QED
    BY <2>2
<1>2. ASSUME NEW n \in Nat, n \in S PROVE n + 1 \in S
  <2>1. PICK f : f = [x \in Proof \X (0..n) |-> FoldOver(f, x[1], x[2])]
    BY <1>2
  <2>2. \E g : g = [x \in Proof \X (0..(n + 1)) |-> FoldOver(g, x[1], x[2])]
    BY <2>1, FoldExtends
  <2>3. QED
    BY <2>2
<1>3. Nat \subseteq S
  <2> HIDE DEF S
  <2> QED
    BY <1>1, <1>2, InductionUp
<1>4. QED
  BY <1>3, ConstantAssumption

LEMMA FoldedHashEquation ==
  ASSUME NEW pf \in Proof, NEW n \in 0..Depth
  PROVE  FoldedHash[<<pf, n>>] = FoldOver(FoldedHash, pf, n)
<1>1. FoldedHash = CHOOSE f : f = [x \in Proof \X (0..Depth) |-> FoldOver(f, x[1], x[2])]
  BY DEF FoldedHash, FoldOver
<1>2. FoldedHash = [x \in Proof \X (0..Depth) |-> FoldOver(FoldedHash, x[1], x[2])]
  BY <1>1, FoldExists
<1>3. QED
  BY <1>2

\* The proof lists the bits of the stem of its key, one sibling each.
OnPath(pf) ==
  /\ pf \in Proof
  /\ Len(pf.siblings) = Len(pf.bits)
  /\ pf.bits = [j \in 1..Len(pf.bits) |-> PathBit[pf.key[1]][j - 1]]

LEMMA ProofFields ==
  ASSUME NEW pf, OnPath(pf)
  PROVE  /\ pf.key[1] \in Stem /\ pf.key[2] \in Subindex /\ pf.key \in Key
         /\ pf.stemValues \in Leaves
         /\ pf.siblings \in Seq(Hash)
         /\ Len(pf.bits) \in 0..Depth /\ Len(pf.bits) \in Nat
         /\ \A j \in 1..Len(pf.bits) : pf.bits[j] = PathBit[pf.key[1]][j - 1]
<1>1. /\ pf.key \in Key
      /\ pf.stemValues \in Leaves
      /\ pf.siblings \in Seq(Hash)
      /\ pf.bits \in Seq({0, 1})
      /\ Len(pf.bits) <= Depth
  BY DEF OnPath, Proof
<1>2. Len(pf.bits) \in Nat
  BY <1>1
<1>3. pf.key[1] \in Stem /\ pf.key[2] \in Subindex
  BY <1>1 DEF Key
<1>4. \A j \in 1..Len(pf.bits) : pf.bits[j] = PathBit[pf.key[1]][j - 1]
  BY DEF OnPath
<1>5. QED
  BY <1>1, <1>2, <1>3, <1>4, ConstantAssumption

\* One turn of the loop of verify_proof, at depth d of the path.
LEMMA FoldAtDepth ==
  ASSUME NEW pf, OnPath(pf), NEW d \in 0..(Len(pf.bits) - 1)
  PROVE  LET f(e) == FoldedHash[<<pf, Len(pf.bits) - e>>] IN
         f(d) = IF PathBit[pf.key[1]][d] = 0 THEN HashPair(f(d + 1), pf.siblings[d + 1])
                ELSE HashPair(pf.siblings[d + 1], f(d + 1))
<1> DEFINE m == Len(pf.bits)
<1>1. pf \in Proof /\ m \in 0..Depth /\ m \in Nat
  BY ProofFields DEF OnPath
<1> HIDE DEF m
<1>2. d \in 0..(m - 1)
  BY DEF m
<1>3. /\ m - d \in 0..Depth /\ m - d # 0 /\ m + 1 - (m - d) = d + 1
      /\ (m - d) - 1 = m - (d + 1) /\ d + 1 \in 1..m /\ (d + 1) - 1 = d
  BY <1>1, <1>2, ConstantAssumption
<1>4. pf.bits[d + 1] = PathBit[pf.key[1]][d]
  BY <1>3, ProofFields DEF m
<1>5. FoldedHash[<<pf, m - d>>] = FoldOver(FoldedHash, pf, m - d)
  BY <1>1, <1>3, FoldedHashEquation
<1>6. FoldOver(FoldedHash, pf, m - d) =
        IF pf.bits[d + 1] = 0 THEN HashPair(FoldedHash[<<pf, m - (d + 1)>>], pf.siblings[d + 1])
        ELSE HashPair(pf.siblings[d + 1], FoldedHash[<<pf, m - (d + 1)>>])
  BY <1>3 DEF FoldOver, m
<1>7. QED
  BY <1>4, <1>5, <1>6 DEF m

\* Where the hash of the loop is that of the node on the path, the node has the
\* sibling that the proof lists, and the same is true one step further down.
LEMMA FoldDescends ==
  ASSUME NEW t \in Tree, NEW pf, OnPath(pf), NEW d \in 0..(Len(pf.bits) - 1),
         FoldedHash[<<pf, Len(pf.bits) - d>>] = NodeHash(t)[Path(pf.key[1], d)]
  PROVE  /\ t[Path(pf.key[1], d)] = Internal
         /\ pf.siblings[d + 1] = NodeHash(t)[Sibling(pf.key[1], d + 1)]
         /\ FoldedHash[<<pf, Len(pf.bits) - (d + 1)>>] = NodeHash(t)[Path(pf.key[1], d + 1)]
<1> DEFINE s == pf.key[1]
           h == NodeHash(t)
           f == FoldedHash[<<pf, Len(pf.bits) - (d + 1)>>]
<1>1. s \in Stem /\ d \in 0..(Depth - 1) /\ d \in 0..Depth
  BY ProofFields, ConstantAssumption
<1>2. Path(s, d) \in Position
  BY <1>1, PathIsPosition
<1>3. PathBit[s][d] \in {0, 1}
  BY <1>1, Bits
<1>4. h[Path(s, d)] = IF PathBit[s][d] = 0 THEN HashPair(f, pf.siblings[d + 1])
                      ELSE HashPair(pf.siblings[d + 1], f)
  BY FoldAtDepth
<1>5. t[Path(s, d)] = Internal
  <2>1. ASSUME t[Path(s, d)] = Empty PROVE FALSE
    <3>1. h[Path(s, d)] = EmptyHash
      BY <1>2, <2>1, NodeHashEquation
    <3> HIDE DEF h, f
    <3>2. QED
      BY <3>1, <1>4, HashKinds
  <2>2. ASSUME IsStem(t[Path(s, d)]) PROVE FALSE
    <3>1. h[Path(s, d)] = HashStem(t[Path(s, d)].prefix, t[Path(s, d)].values)
      BY <1>2, <2>2, NodeHashEquation
    <3> HIDE DEF h, f
    <3>2. QED
      BY <3>1, <1>4, HashKinds
  <2>3. QED
    BY <1>2, <2>1, <2>2, TreeNodes
<1>6. h[Path(s, d)] = IF PathBit[s][d] = 0 THEN HashPair(h[Path(s, d + 1)], h[Sibling(s, d + 1)])
                      ELSE HashPair(h[Sibling(s, d + 1)], h[Path(s, d + 1)])
  BY <1>1, <1>5, HashOnPath
<1> HIDE DEF s, h, f
<1>7. f = h[Path(s, d + 1)] /\ pf.siblings[d + 1] = h[Sibling(s, d + 1)]
  BY <1>3, <1>4, <1>6, HashPairInjective
<1>8. QED
  BY <1>5, <1>7 DEF s, h, f

\* A proof that verifies is that of a StemNode of the tree: the siblings are those
\* of its path, and the values are the leaves of the node.
LEMMA VerifiedProof ==
  ASSUME NEW t \in Tree, NEW pf, OnPath(pf), VerifyProof(RootHash(t), pf)
  PROVE  LET s == pf.key[1]
             m == Len(pf.bits)
         IN  /\ \A d \in 0..(m - 1) : t[Path(s, d)] = Internal
             /\ \A d \in 1..m : pf.siblings[d] = NodeHash(t)[Sibling(s, d)]
             /\ IsStem(t[Path(s, m)])
             /\ t[Path(s, m)].prefix = s
             /\ t[Path(s, m)].values = pf.stemValues
<1> DEFINE s == pf.key[1]
           m == Len(pf.bits)
           h == NodeHash(t)
           f(d) == FoldedHash[<<pf, m - d>>]
           U == {d \in Nat : d <= m => f(d) = h[Path(s, d)]}
<1>0. pf \in Proof /\ s \in Stem /\ m \in 0..Depth /\ m \in Nat
  BY ProofFields DEF OnPath
<1>1. 0 \in U
  <2>1. f(0) = RootHash(t)
    <3>1. m - 0 = m
      BY <1>0
    <3>2. QED
      BY <3>1 DEF VerifyProof, ProvenRoot
  <2>2. RootHash(t) = h[Path(s, 0)]
    BY RootPath DEF RootHash
  <2> HIDE DEF f, h
  <2>3. QED
    BY <2>1, <2>2
<1>2. ASSUME NEW d \in 0..(m - 1), f(d) = h[Path(s, d)]
      PROVE  /\ t[Path(s, d)] = Internal
             /\ pf.siblings[d + 1] = h[Sibling(s, d + 1)]
             /\ f(d + 1) = h[Path(s, d + 1)]
  BY <1>2, FoldDescends
<1>3. ASSUME NEW d \in Nat, d \in U PROVE d + 1 \in U
  <2>1. CASE d + 1 <= m
    <3>1. d \in 0..(m - 1) /\ d <= m
      BY <1>0, <2>1
    <3> HIDE DEF m, f, h, s
    <3>2. QED
      BY <3>1, <1>2, <1>3
  <2>2. CASE ~ (d + 1 <= m)
    BY <2>2
  <2>3. QED
    BY <2>1, <2>2
<1>4. Nat \subseteq U
  <2> HIDE DEF U
  <2> QED
    BY <1>1, <1>3, InductionUp
<1>5. \A d \in 0..m : f(d) = h[Path(s, d)]
  <2> HIDE DEF f, h, s, m
  <2>1. QED
    BY <1>4
<1>6. \A d \in 0..(m - 1) : t[Path(s, d)] = Internal /\ pf.siblings[d + 1] = h[Sibling(s, d + 1)]
  <2>1. \A d \in 0..(m - 1) : d \in 0..m
    BY <1>0
  <2> HIDE DEF f, h, s, m
  <2>2. QED
    BY <1>2, <1>5, <2>1
<1>7. \A d \in 1..m : pf.siblings[d] = h[Sibling(s, d)]
  <2>1. \A d \in 1..m : d - 1 \in 0..(m - 1) /\ (d - 1) + 1 = d
    BY <1>0
  <2> HIDE DEF f, h, s, m
  <2>2. QED
    BY <1>6, <2>1
<1>8. h[Path(s, m)] = HashStem(s, pf.stemValues)
  <2>1. f(m) = h[Path(s, m)]
    <3>1. m \in 0..m
      BY <1>0
    <3> HIDE DEF f, h, s, m
    <3>2. QED
      BY <1>5, <3>1
  <2>2. FoldedHash[<<pf, 0>>] = HashStem(s, pf.stemValues)
    <3>1. 0 \in 0..Depth
      BY ConstantAssumption
    <3>2. QED
      BY <1>0, <3>1, FoldedHashEquation DEF FoldOver
  <2>3. m - m = 0
    BY <1>0
  <2>4. f(m) = FoldedHash[<<pf, 0>>]
    BY <2>3
  <2> HIDE DEF f, h, s, m
  <2>5. QED
    BY <2>1, <2>2, <2>4
<1>9. /\ IsStem(t[Path(s, m)])
      /\ t[Path(s, m)].prefix = s
      /\ t[Path(s, m)].values = pf.stemValues
  <2>1. Path(s, m) \in Position
    BY <1>0, PathIsPosition
  <2>2. ASSUME t[Path(s, m)] = Empty PROVE FALSE
    <3>1. h[Path(s, m)] = EmptyHash
      BY <2>1, <2>2, NodeHashEquation
    <3>2. QED
      BY <3>1, <1>8, HashKinds
  <2>3. ASSUME t[Path(s, m)] = Internal PROVE FALSE
    <3>1. h[Path(s, m)] = HashPair(h[Child(Path(s, m), 0)], h[Child(Path(s, m), 1)])
      BY <2>1, <2>3, NodeHashEquation
    <3>2. QED
      BY <3>1, <1>8, HashKinds
  <2>4. IsStem(t[Path(s, m)])
    BY <2>1, <2>2, <2>3, TreeNodes
  <2>5. h[Path(s, m)] = HashStem(t[Path(s, m)].prefix, t[Path(s, m)].values)
    BY <2>1, <2>4, NodeHashEquation
  <2>6. t[Path(s, m)].prefix = s /\ t[Path(s, m)].values = pf.stemValues
    <3> DEFINE n == t[Path(s, m)]
    <3>1. HashStem(n.prefix, n.values) = HashStem(s, pf.stemValues)
      BY <1>8, <2>5
    <3> HIDE DEF h, s, m, n
    <3>2. n.prefix = s /\ n.values = pf.stemValues
      BY <3>1, HashStemInjective
    <3>3. QED
      BY <3>2 DEF n
  <2>7. QED
    BY <2>4, <2>6
<1>10. QED
  BY <1>6, <1>7, <1>9

-----------------------------------------------------------------------------
(* Types of hashes *)

HeightOver(f, n) ==
  IF n = 0 THEN {EmptyHash} \cup [tag : {"stem"}, prefix : Stem, values : Leaves]
  ELSE f[n - 1] \cup [tag : {"pair"}, left : f[n - 1], right : f[n - 1]]

LEMMA HeightsExist ==
  ASSUME NEW m \in Nat
  PROVE  \E f : f = [n \in 0..m |-> HeightOver(f, n)]
<1> DEFINE S == {k \in Nat : \E f : f = [n \in 0..k |-> HeightOver(f, n)]}
<1>1. 0 \in S
  <2> DEFINE f == [n \in 0..0 |-> HeightOver([i \in {} |-> {}], 0)]
  <2>1. ASSUME NEW n \in 0..0 PROVE f[n] = HeightOver(f, n)
    <3>1. n = 0 /\ f[n] = HeightOver([i \in {} |-> {}], 0)
      OBVIOUS
    <3> HIDE DEF f
    <3>2. QED
      BY <3>1 DEF HeightOver
  <2>2. f = [n \in 0..0 |-> HeightOver(f, n)]
    BY <2>1
  <2> HIDE DEF f
  <2>3. QED
    BY <2>2
<1>2. ASSUME NEW k \in Nat, k \in S PROVE k + 1 \in S
  <2>1. PICK f : f = [n \in 0..k |-> HeightOver(f, n)]
    BY <1>2
  <2> DEFINE g == [n \in 0..(k + 1) |-> HeightOver(f, n)]
  <2>2. \A n \in 0..k : g[n] = f[n]
    <3>1. \A n \in 0..k : g[n] = HeightOver(f, n)
      OBVIOUS
    <3> HIDE DEF g
    <3>2. QED
      BY <2>1, <3>1
  <2>3. ASSUME NEW n \in 0..(k + 1) PROVE HeightOver(f, n) = HeightOver(g, n)
    <3>1. CASE n = 0
      <4> HIDE DEF g
      <4> QED
        BY <3>1 DEF HeightOver
    <3>2. CASE n # 0
      <4>1. g[n - 1] = f[n - 1]
        BY <3>2, <2>2
      <4> HIDE DEF g
      <4>2. QED
        BY <3>2, <4>1 DEF HeightOver
    <3>3. QED
      BY <3>1, <3>2
  <2>4. g = [n \in 0..(k + 1) |-> HeightOver(g, n)]
    BY <2>3
  <2> HIDE DEF g
  <2>5. QED
    BY <2>4
<1>3. Nat \subseteq S
  <2> HIDE DEF S
  <2> QED
    BY <1>1, <1>2, InductionUp
<1>4. QED
  BY <1>3

LEMMA HashOfHeightEquation ==
  ASSUME NEW n \in 0..Depth
  PROVE  /\ EmptyHash \in HashOfHeight[0]
         /\ \A s \in Stem, vs \in Leaves : HashStem(s, vs) \in HashOfHeight[0]
         /\ n # 0 => /\ HashOfHeight[n - 1] \subseteq HashOfHeight[n]
                     /\ \A l, r \in HashOfHeight[n - 1] : HashPair(l, r) \in HashOfHeight[n]
<1>1. HashOfHeight = CHOOSE f : f = [k \in 0..Depth |-> HeightOver(f, k)]
  BY DEF HashOfHeight, HeightOver
<1>2. HashOfHeight = [k \in 0..Depth |-> HeightOver(HashOfHeight, k)]
  BY <1>1, HeightsExist, ConstantAssumption
<1>3. HashOfHeight[0] = HeightOver(HashOfHeight, 0) /\ HashOfHeight[n] = HeightOver(HashOfHeight, n)
  BY <1>2, ConstantAssumption
<1>4. HashOfHeight[0] = {EmptyHash} \cup [tag : {"stem"}, prefix : Stem, values : Leaves]
  BY <1>3 DEF HeightOver
<1>5. \A s \in Stem, vs \in Leaves : HashStem(s, vs) \in HashOfHeight[0]
  BY <1>4 DEF HashStem
<1>6. ASSUME n # 0
      PROVE  HashOfHeight[n] = HashOfHeight[n - 1]
               \cup [tag : {"pair"}, left : HashOfHeight[n - 1], right : HashOfHeight[n - 1]]
  BY <1>3, <1>6 DEF HeightOver
<1>7. n # 0 => \A l, r \in HashOfHeight[n - 1] : HashPair(l, r) \in HashOfHeight[n]
  BY <1>6 DEF HashPair
<1>8. QED
  BY <1>4, <1>5, <1>6, <1>7

LEMMA HeightsGrow ==
  ASSUME NEW n \in 0..Depth
  PROVE  HashOfHeight[n] \subseteq Hash
<1> DEFINE S == {k \in 0..Depth : HashOfHeight[k] \subseteq Hash}
<1>1. Depth \in S
  BY ConstantAssumption DEF Hash
<1>2. ASSUME NEW k \in 0..(Depth - 1), k + 1 \in S PROVE k \in S
  <2>1. k + 1 \in 0..Depth /\ k + 1 # 0 /\ (k + 1) - 1 = k /\ k \in 0..Depth
    BY ConstantAssumption
  <2>2. HashOfHeight[k] \subseteq HashOfHeight[k + 1]
    <3>1. HashOfHeight[(k + 1) - 1] \subseteq HashOfHeight[k + 1]
      BY <2>1, HashOfHeightEquation
    <3>2. QED
      BY <2>1, <3>1
  <2>3. QED
    BY <1>2, <2>1, <2>2
<1>3. 0..Depth \subseteq S
  <2> HIDE DEF S
  <2> QED
    BY <1>1, <1>2, InductionDown, ConstantAssumption
<1>4. QED
  BY <1>3

LEMMA NodeHashType ==
  ASSUME NEW t \in Tree, NEW p \in Position
  PROVE  NodeHash(t)[p] \in Hash
<1> DEFINE h == NodeHash(t)
           S == {d \in 0..Depth : \A q \in From(d) : h[q] \in HashOfHeight[Depth - d]}
<1>0. \A d \in 0..Depth : Depth - d \in 0..Depth
  BY ConstantAssumption
<1>1. ASSUME NEW q \in Position, NEW n \in 0..Depth, t[q] # Internal
      PROVE  h[q] \in HashOfHeight[n]
  <2>1. t[q] = Empty \/ IsStem(t[q])
    BY <1>1, TreeNodes
  <2>2. h[q] \in HashOfHeight[0]
    <3>1. CASE t[q] = Empty
      BY <3>1, NodeHashEquation, HashOfHeightEquation
    <3>2. CASE IsStem(t[q])
      <4>1. h[q] = HashStem(t[q].prefix, t[q].values)
        BY <3>2, NodeHashEquation
      <4>2. t[q].prefix \in Stem /\ t[q].values \in Leaves
        BY <3>2, NodeKinds DEF Tree, Node, StemNodes
      <4> HIDE DEF h
      <4>3. QED
        BY <4>1, <4>2, HashOfHeightEquation
    <3>3. QED
      BY <2>1, <3>1, <3>2
  <2> DEFINE U == {k \in Nat : k <= Depth => h[q] \in HashOfHeight[k]}
  <2>3. 0 \in U
    BY <2>2
  <2>4. ASSUME NEW k \in Nat, k \in U PROVE k + 1 \in U
    <3>1. CASE k + 1 <= Depth
      <4>1. k + 1 \in 0..Depth /\ k + 1 # 0 /\ (k + 1) - 1 = k /\ k <= Depth
        BY <3>1, ConstantAssumption
      <4>2. HashOfHeight[(k + 1) - 1] \subseteq HashOfHeight[k + 1]
        BY <4>1, HashOfHeightEquation
      <4>3. HashOfHeight[k] \subseteq HashOfHeight[k + 1]
        BY <4>1, <4>2
      <4> HIDE DEF h
      <4>4. QED
        BY <2>4, <4>1, <4>3
    <3>2. CASE ~ (k + 1 <= Depth)
      BY <3>2
    <3>3. QED
      BY <3>1, <3>2
  <2>5. Nat \subseteq U
    <3> HIDE DEF U
    <3> QED
      BY <2>3, <2>4, InductionUp
  <2>6. n \in Nat /\ n <= Depth
    BY ConstantAssumption
  <2>7. QED
    BY <2>5, <2>6
<1>2. Depth \in S
  <2>1. ASSUME NEW q \in From(Depth) PROVE h[q] \in HashOfHeight[Depth - Depth]
    <3>1. q \in Position /\ q \in [0..(Depth - 1) -> {0, 1}]
      <4>1. Depth \in 0..Depth /\ Depth..Depth = {Depth}
        BY ConstantAssumption
      <4>2. QED
        BY <4>1 DEF From, Position
    <3>2. t[q] # Internal
      BY <3>1, InternalIsAbove, ConstantAssumption
    <3> HIDE DEF h
    <3>3. QED
      BY <1>0, <1>1, <3>1, <3>2, ConstantAssumption
  <2>2. Depth \in 0..Depth
    BY ConstantAssumption
  <2> HIDE DEF h
  <2>3. QED
    BY <2>1, <2>2
<1>3. ASSUME NEW d \in 0..(Depth - 1), d + 1 \in S PROVE d \in S
  <2>0. d \in 0..Depth /\ Depth - d \in 0..Depth /\ Depth - d # 0
        /\ (Depth - d) - 1 = Depth - (d + 1)
    BY ConstantAssumption
  <2>1. ASSUME NEW q \in From(d) PROVE h[q] \in HashOfHeight[Depth - d]
    <3>1. q \in Position
      BY <2>0, FromIsPosition
    <3>2. CASE t[q] = Internal
      <4>1. Child(q, 0) \in From(d + 1) /\ Child(q, 1) \in From(d + 1)
        BY <2>0, <3>2, ChildStaysBelow
      <4>2. h[q] = HashPair(h[Child(q, 0)], h[Child(q, 1)])
        BY <3>1, <3>2, NodeHashEquation
      <4> HIDE DEF h
      <4>3. /\ h[Child(q, 0)] \in HashOfHeight[(Depth - d) - 1]
            /\ h[Child(q, 1)] \in HashOfHeight[(Depth - d) - 1]
        BY <1>3, <2>0, <4>1
      <4>4. \A l, r \in HashOfHeight[(Depth - d) - 1] : HashPair(l, r) \in HashOfHeight[Depth - d]
        BY <2>0, HashOfHeightEquation
      <4>5. QED
        BY <4>2, <4>3, <4>4
    <3>3. CASE t[q] # Internal
      <4> HIDE DEF h
      <4> QED
        BY <1>1, <2>0, <3>1, <3>3
    <3>4. QED
      BY <3>2, <3>3
  <2> HIDE DEF h
  <2>2. QED
    BY <2>0, <2>1
<1>4. 0..Depth \subseteq S
  <2> HIDE DEF S
  <2> QED
    BY <1>2, <1>3, InductionDown, ConstantAssumption
<1>5. 0 \in 0..Depth /\ Depth - 0 = Depth
  BY ConstantAssumption
<1>6. h[p] \in HashOfHeight[Depth - 0]
  <2>1. p \in From(0)
    BY FromIsPosition
  <2>2. 0 \in S
    <3> HIDE DEF S
    <3> QED
      BY <1>4, <1>5
  <2> HIDE DEF h
  <2>3. QED
    BY <2>1, <2>2
<1>7. QED
  BY <1>5, <1>6 DEF Hash

-----------------------------------------------------------------------------
(* get_proof on a canonical tree *)

LEMMA StopsAt ==
  ASSUME NEW t, NEW s \in Stem, NEW m \in 0..Depth, t[Path(s, m)] # Internal,
         \A d \in 0..(m - 1) : t[Path(s, d)] = Internal
  PROVE  StopDepth(t, s) = m
<1> DEFINE D == {d \in 0..Depth : t[Path(s, d)] # Internal}
<1>1. D \subseteq Nat /\ m \in D /\ m \in Nat
  BY ConstantAssumption
<1>2. Least(D) \in D /\ \A d \in D : Least(D) <= d
  <2> HIDE DEF D
  <2> QED
    BY <1>1, LeastIsLeast
<1>3. \A d \in D : ~ (d < m)
  BY <1>1
<1>4. StopDepth(t, s) = Least(D)
  BY DEF StopDepth
<1> HIDE DEF D
<1>5. Least(D) \in Nat /\ Least(D) <= m /\ ~ (Least(D) < m)
  BY <1>1, <1>2, <1>3
<1>6. Least(D) = m
  BY <1>1, <1>5
<1>7. QED
  BY <1>4, <1>6

\* What get_proof needs to know of the tree.
LEMMA ReachedInTree ==
  ASSUME IInv, NEW s \in Stem
  PROVE  /\ tree \in Tree
         /\ StopDepth(tree, s) \in 0..Depth
         /\ tree[Path(s, StopDepth(tree, s))] = Reached(tree, s)
         /\ Reached(tree, s) # Internal
         /\ \A d \in 0..(StopDepth(tree, s) - 1) : tree[Path(s, d)] = Internal
         /\ Holds(Reached(tree, s), s) <=> s \in LiveStems(tree)
         /\ Holds(Reached(tree, s), s) => /\ Reached(tree, s).values \in Leaves
                                          /\ Reached(tree, s) = StemNode(s, Reached(tree, s).values)
         /\ \A i \in Subindex : Get(tree, s, i) \in Value
<1> DEFINE L == LiveStems(tree)
           lv == Content(tree)
           k == StopDepth(tree, s)
<1>1. Stored(L, lv) /\ tree = CanonicalTree(L, lv)
  BY DEF IInv, Canonical
<1>2. tree \in Tree
  BY <1>1, CanonicalIsTree
<1>3. /\ k \in 0..Depth
      /\ \A j \in 0..(k - 1) : Crowded(L, Path(s, j))
  BY <1>1, Descent
<1>4. \A d \in 0..(k - 1) : tree[Path(s, d)] = Internal
  <2>1. SUFFICES ASSUME NEW d \in 0..(k - 1) PROVE tree[Path(s, d)] = Internal
    OBVIOUS
  <2>2. d \in 0..Depth
    BY <1>3, ConstantAssumption
  <2>3. Path(s, d) \in Position
    BY <2>2, PathIsPosition
  <2>4. Crowded(L, Path(s, d)) /\ L \subseteq Stem
    BY <1>1, <1>3 DEF Stored
  <2> HIDE DEF L, lv
  <2>5. QED
    BY <1>1, <2>3, <2>4, CanonicalNode
<1>5. \/ Reached(tree, s) = Empty /\ \A u \in L : ~ Agree(s, u, k)
      \/ \E r \in L : /\ Reached(tree, s) = StemNode(r, lv[r])
                      /\ Agree(s, r, k)
                      /\ \A u \in L : Agree(s, u, k) => u = r
  BY <1>1, ReachedNode
<1>6. Agree(s, s, k)
  BY <1>3, AgreeIsEquivalence
<1>7. L \subseteq Stem /\ lv \in [Stem -> Leaves]
  BY <1>1 DEF Stored
<1>8. \A i \in Subindex : Get(tree, s, i) \in Value
  <2>1. SUFFICES ASSUME NEW i \in Subindex PROVE Get(tree, s, i) \in Value
    OBVIOUS
  <2>2. Get(tree, s, i) = lv[s][i]
    BY <1>1, GetCanonical
  <2>3. QED
    BY <1>7, <2>2 DEF Leaves
<1>9. tree[Path(s, k)] = Reached(tree, s)
  BY DEF Reached
<1> HIDE DEF L, lv, k
<1>10. Reached(tree, s) # Internal
  BY <1>5, NodeKinds
<1>11. Holds(Reached(tree, s), s) <=> s \in L
  BY <1>5, <1>6, NodeKinds DEF Holds
<1>12. Holds(Reached(tree, s), s) => Reached(tree, s) = StemNode(s, lv[s])
  BY <1>5, <1>6, NodeKinds DEF Holds
<1>13. Holds(Reached(tree, s), s) => /\ Reached(tree, s).values \in Leaves
                                     /\ Reached(tree, s) = StemNode(s, Reached(tree, s).values)
  BY <1>7, <1>12, NodeKinds
<1>14. QED
  BY <1>2, <1>3, <1>4, <1>8, <1>9, <1>10, <1>11, <1>13 DEF L, lv, k

LEMMA GetProofFields ==
  ASSUME NEW t, NEW k
  PROVE  LET pf == GetProof(t, k)
             d  == StopDepth(t, k[1])
         IN  /\ pf.key = k
             /\ pf.value = Get(t, k[1], k[2])
             /\ pf.stemValues = IF Holds(Reached(t, k[1]), k[1])
                                THEN Reached(t, k[1]).values ELSE NoLeaves
             /\ pf.siblings = [j \in 1..d |-> NodeHash(t)[Sibling(k[1], j)]]
             /\ pf.bits = [j \in 1..d |-> PathBit[k[1]][j - 1]]
BY DEF GetProof

LEMMA FunctionIsSeq ==
  ASSUME NEW S, NEW m \in Nat, NEW f, f = [j \in 1..m |-> f[j]], \A j \in 1..m : f[j] \in S
  PROVE  f \in Seq(S) /\ Len(f) = m
<1>1. f \in [1..m -> S]
  BY Zenon
<1>2. QED
  BY <1>1

LEMMA GetProofOnPath ==
  ASSUME IInv, NEW k \in Key
  PROVE  OnPath(GetProof(tree, k)) /\ Len(GetProof(tree, k).bits) = StopDepth(tree, k[1])
<1> DEFINE pf == GetProof(tree, k)
           s  == k[1]
           d  == StopDepth(tree, s)
<1>1. s \in Stem /\ k[2] \in Subindex
  BY DEF Key
<1>2. tree \in Tree /\ d \in 0..Depth /\ d \in Nat
  BY <1>1, ReachedInTree, ConstantAssumption
<1>3. /\ pf.key = k
      /\ pf.value = Get(tree, s, k[2])
      /\ pf.stemValues = IF Holds(Reached(tree, s), s) THEN Reached(tree, s).values ELSE NoLeaves
      /\ pf.siblings = [j \in 1..d |-> NodeHash(tree)[Sibling(s, j)]]
      /\ pf.bits = [j \in 1..d |-> PathBit[s][j - 1]]
  BY GetProofFields
<1>4. pf.siblings \in Seq(Hash) /\ Len(pf.siblings) = d
  <2>1. ASSUME NEW j \in 1..d PROVE NodeHash(tree)[Sibling(s, j)] \in Hash
    <3>1. j \in 1..Depth
      BY <1>2, ConstantAssumption
    <3>2. Sibling(s, j) \in Position
      BY <1>1, <3>1, SiblingIsPosition
    <3>3. QED
      BY <1>2, <3>2, NodeHashType
  <2> HIDE DEF pf, s, d
  <2>2. \A j \in 1..d : pf.siblings[j] \in Hash
    BY <1>3, <2>1
  <2>3. pf.siblings = [j \in 1..d |-> pf.siblings[j]]
    BY <1>3
  <2>4. QED
    BY <1>2, <2>2, <2>3, FunctionIsSeq
<1>5. pf.bits \in Seq({0, 1}) /\ Len(pf.bits) = d
  <2>1. ASSUME NEW j \in 1..d PROVE PathBit[s][j - 1] \in {0, 1}
    <3>1. j - 1 \in 0..(Depth - 1)
      BY <1>2, ConstantAssumption
    <3>2. QED
      BY <1>1, <3>1, Bits
  <2> HIDE DEF pf, s, d
  <2>2. \A j \in 1..d : pf.bits[j] \in {0, 1}
    BY <1>3, <2>1
  <2>3. pf.bits = [j \in 1..d |-> pf.bits[j]]
    BY <1>3
  <2>4. QED
    BY <1>2, <2>2, <2>3, FunctionIsSeq
<1>6. pf.value \in Value /\ pf.stemValues \in Leaves
  <2>1. NoLeaves \in Leaves
    BY ConstantAssumption DEF NoLeaves, Leaves
  <2>2. QED
    BY <1>1, <1>3, <2>1, ReachedInTree
<1>7. pf \in Proof
  <2>1. pf = [key |-> pf.key, value |-> pf.value, stemValues |-> pf.stemValues,
              siblings |-> pf.siblings, bits |-> pf.bits]
    BY DEF GetProof
  <2>2. Len(pf.bits) <= Depth
    BY <1>2, <1>5, ConstantAssumption
  <2> HIDE DEF pf, s, d
  <2>3. QED
    BY <1>3, <1>4, <1>5, <1>6, <2>1, <2>2 DEF Proof
<1>8. pf.bits = [j \in 1..Len(pf.bits) |-> PathBit[pf.key[1]][j - 1]]
  BY <1>3, <1>5
<1> HIDE DEF pf, s
<1>9. QED
  BY <1>4, <1>5, <1>7, <1>8 DEF OnPath, pf, s

\* The proof of a stem that is in the tree leads to the root hash.
LEMMA FreshVerifies ==
  ASSUME IInv, NEW k \in Key, k[1] \in LiveStems(tree)
  PROVE  VerifyProof(RootHash(tree), GetProof(tree, k))
<1> DEFINE pf == GetProof(tree, k)
           s  == k[1]
           m  == StopDepth(tree, s)
           h  == NodeHash(tree)
           f(n) == FoldedHash[<<pf, n>>]
           U  == {n \in Nat : n <= m => f(n) = h[Path(s, m - n)]}
<1>1. s \in Stem /\ k[2] \in Subindex
  BY DEF Key
<1>2. OnPath(pf) /\ Len(pf.bits) = m
  BY GetProofOnPath
<1>3. /\ tree \in Tree /\ m \in 0..Depth /\ m \in Nat
      /\ tree[Path(s, m)] = Reached(tree, s)
      /\ \A d \in 0..(m - 1) : tree[Path(s, d)] = Internal
      /\ Holds(Reached(tree, s), s)
      /\ Reached(tree, s) = StemNode(s, Reached(tree, s).values)
  BY <1>1, ReachedInTree, ConstantAssumption
<1>4. /\ pf.key = k
      /\ pf.stemValues = Reached(tree, s).values
      /\ pf.value = pf.stemValues[k[2]]
      /\ pf.siblings = [j \in 1..m |-> h[Sibling(s, j)]]
  <2>1. /\ GetProof(tree, k).key = k
        /\ GetProof(tree, k).value = Get(tree, k[1], k[2])
        /\ GetProof(tree, k).stemValues = IF Holds(Reached(tree, k[1]), k[1])
                                          THEN Reached(tree, k[1]).values ELSE NoLeaves
        /\ GetProof(tree, k).siblings =
              [j \in 1..StopDepth(tree, k[1]) |-> NodeHash(tree)[Sibling(k[1], j)]]
        /\ GetProof(tree, k).bits = [j \in 1..StopDepth(tree, k[1]) |-> PathBit[k[1]][j - 1]]
    BY GetProofFields
  <2>2. Get(tree, s, k[2]) = Reached(tree, s).values[k[2]]
    BY <1>3 DEF Get
  <2>3. pf.stemValues = Reached(tree, s).values
    BY <1>3, <2>1
  <2>4. pf.value = Reached(tree, s).values[k[2]]
    BY <2>1, <2>2
  <2>5. pf.siblings = [j \in 1..m |-> h[Sibling(s, j)]]
    BY <2>1
  <2> HIDE DEF h, m, s, f, U
  <2>6. QED
    BY <2>1, <2>3, <2>4, <2>5
<1>5. f(0) = h[Path(s, m)]
  <2>1. f(0) = HashStem(s, pf.stemValues)
    <3>1. pf \in Proof /\ 0 \in 0..Depth
      BY <1>2, ConstantAssumption DEF OnPath
    <3>2. FoldedHash[<<pf, 0>>] = FoldOver(FoldedHash, pf, 0)
      BY <3>1, FoldedHashEquation
    <3> HIDE DEF pf, s
    <3>3. QED
      BY <1>4, <3>2 DEF FoldOver, s
  <2>2. Path(s, m) \in Position
    BY <1>1, <1>3, PathIsPosition
  <2>3. /\ IsStem(tree[Path(s, m)]) /\ tree[Path(s, m)].prefix = s
        /\ tree[Path(s, m)].values = pf.stemValues
    <3>1. IsStem(Reached(tree, s)) /\ Reached(tree, s).prefix = s
      BY <1>3 DEF Holds
    <3> HIDE DEF pf, s, m
    <3>2. QED
      BY <1>3, <1>4, <3>1
  <2>4. h[Path(s, m)] = HashStem(tree[Path(s, m)].prefix, tree[Path(s, m)].values)
    BY <1>3, <2>2, <2>3, NodeHashEquation
  <2> HIDE DEF pf, s, m, h, f
  <2>5. QED
    BY <2>1, <2>3, <2>4
<1>6. ASSUME NEW n \in 0..(m - 1), f(n) = h[Path(s, m - n)]
      PROVE  f(n + 1) = h[Path(s, m - (n + 1))]
  <2> DEFINE d == m - (n + 1)
  <2>1. d \in 0..(m - 1) /\ d \in 0..(Depth - 1) /\ m - d = n + 1 /\ m - (d + 1) = n
        /\ m - n = d + 1 /\ d + 1 \in 1..m
    BY <1>3, ConstantAssumption
  <2>2. tree[Path(s, d)] = Internal
    BY <1>3, <2>1
  <2>3. h[Path(s, d)] = IF PathBit[s][d] = 0 THEN HashPair(h[Path(s, d + 1)], h[Sibling(s, d + 1)])
                        ELSE HashPair(h[Sibling(s, d + 1)], h[Path(s, d + 1)])
    <3> HIDE DEF d
    <3> QED
      BY <1>1, <1>3, <2>1, <2>2, HashOnPath
  <2>4. f(m - d) = IF PathBit[s][d] = 0 THEN HashPair(f(m - (d + 1)), pf.siblings[d + 1])
                   ELSE HashPair(pf.siblings[d + 1], f(m - (d + 1)))
    <3>1. d \in 0..(Len(pf.bits) - 1)
      BY <1>2, <2>1
    <3>2. pf.key[1] = s
      BY <1>4
    <3> HIDE DEF d, pf, m, s
    <3>3. QED
      BY <1>2, <3>1, <3>2, FoldAtDepth
  <2>5. pf.siblings[d + 1] = h[Sibling(s, d + 1)]
    <3> HIDE DEF d, pf, m, s, h
    <3> QED
      BY <1>4, <2>1
  <2> HIDE DEF d, pf, m, s, h, f
  <2>6. f(n + 1) = h[Path(s, d)]
    BY <1>6, <2>1, <2>3, <2>4, <2>5
  <2>7. QED
    BY <2>6 DEF d
<1>7. 0 \in U
  <2>1. m - 0 = m
    BY <1>3
  <2>2. QED
    BY <1>5, <2>1
<1>8. ASSUME NEW n \in Nat, n \in U PROVE n + 1 \in U
  <2>1. CASE n + 1 <= m
    <3>1. n \in 0..(m - 1) /\ n <= m
      BY <1>3, <2>1
    <3> HIDE DEF m, f, h, s, pf
    <3>2. QED
      BY <3>1, <1>6, <1>8
  <2>2. CASE ~ (n + 1 <= m)
    BY <2>2
  <2>3. QED
    BY <2>1, <2>2
<1>9. Nat \subseteq U
  <2> HIDE DEF U
  <2> QED
    BY <1>7, <1>8, InductionUp
<1>10. f(m) = h[Path(s, 0)]
  <2>1. m - m = 0
    BY <1>3
  <2> HIDE DEF m, f, h, s, pf
  <2>2. QED
    BY <1>3, <1>9, <2>1
<1>11. ProvenRoot(pf) = RootHash(tree)
  <2>1. h[Path(s, 0)] = RootHash(tree)
    BY RootPath DEF RootHash
  <2>2. ProvenRoot(pf) = f(m)
    BY <1>2 DEF ProvenRoot
  <2> HIDE DEF m, f, h, s, pf
  <2>3. QED
    BY <1>10, <2>1, <2>2
<1> HIDE DEF pf
<1>12. QED
  BY <1>2, <1>4, <1>11 DEF VerifyProof, OnPath, pf

\* A proof that verifies is the proof that get_proof returns now.
LEMMA VerifiedIsCurrent ==
  ASSUME IInv, NEW pf, OnPath(pf), VerifyProof(RootHash(tree), pf)
  PROVE  pf = GetProof(tree, pf.key) /\ pf.key[1] \in LiveStems(tree)
<1> DEFINE k == pf.key
           s == pf.key[1]
           m == Len(pf.bits)
           h == NodeHash(tree)
<1>1. s \in Stem /\ pf.key \in Key /\ m \in 0..Depth /\ m \in Nat /\ k[2] \in Subindex
      /\ pf.siblings \in Seq(Hash)
  BY ProofFields
<1>2. tree \in Tree
  BY <1>1, ReachedInTree
<1>3. /\ \A d \in 0..(m - 1) : tree[Path(s, d)] = Internal
      /\ \A d \in 1..m : pf.siblings[d] = h[Sibling(s, d)]
      /\ IsStem(tree[Path(s, m)])
      /\ tree[Path(s, m)].prefix = s
      /\ tree[Path(s, m)].values = pf.stemValues
  BY <1>2, VerifiedProof
<1>4. StopDepth(tree, s) = m
  <2>1. tree[Path(s, m)] # Internal
    BY <1>3, NodeKinds
  <2> HIDE DEF s, m
  <2>2. QED
    BY <1>1, <1>3, <2>1, StopsAt
<1>5. Holds(Reached(tree, s), s) /\ Reached(tree, s).values = pf.stemValues
  BY <1>3, <1>4 DEF Holds, Reached
<1>6. s \in LiveStems(tree)
  BY <1>1, <1>5, ReachedInTree
<1>7. pf.value = Get(tree, s, k[2])
  BY <1>5 DEF Get, VerifyProof
<1>8. pf.siblings = [j \in 1..m |-> h[Sibling(s, j)]]
  <2>1. Len(pf.siblings) = m
    BY DEF OnPath
  <2>2. pf.siblings = [j \in 1..m |-> pf.siblings[j]]
    BY <1>1, <2>1
  <2> HIDE DEF h, m, s
  <2>3. QED
    BY <1>3, <2>2
<1>9. pf.bits = [j \in 1..m |-> PathBit[s][j - 1]]
  BY DEF OnPath
<1>10. pf = [key |-> pf.key, value |-> pf.value, stemValues |-> pf.stemValues,
             siblings |-> pf.siblings, bits |-> pf.bits]
  BY DEF OnPath, Proof
<1>11. GetProof(tree, k) = [key |-> k, value |-> Get(tree, s, k[2]),
                            stemValues |-> pf.stemValues,
                            siblings |-> [j \in 1..m |-> h[Sibling(s, j)]],
                            bits |-> [j \in 1..m |-> PathBit[s][j - 1]]]
  BY <1>4, <1>5 DEF GetProof
<1> HIDE DEF h, m, s
<1>12. pf = GetProof(tree, k)
  BY <1>7, <1>8, <1>9, <1>10, <1>11
<1>13. QED
  BY <1>6, <1>12 DEF s

-----------------------------------------------------------------------------
(* sorted(set(keys)) *)

Increasing(f, n) == \A i, j \in 1..n : i < j => KeyRank[f[i]] < KeyRank[f[j]]

LEMMA KeyRankType ==
  ASSUME NEW k \in Key
  PROVE  KeyRank[k] \in Int
BY KeyRankAssumption

LEMMA LastKey ==
  ASSUME NEW K \in SUBSET Key, IsFiniteSet(K), K # {}
  PROVE  \E x \in K : \A y \in K : KeyRank[y] <= KeyRank[x]
<1> DEFINE HasLast(M) == \E x \in M : \A y \in M : KeyRank[y] <= KeyRank[x]
           S == {n \in Nat : \A M \in SUBSET Key :
                   IsFiniteSet(M) /\ Cardinality(M) = n + 1 => HasLast(M)}
<1>1. 0 \in S
  <2>1. SUFFICES ASSUME NEW M \in SUBSET Key, IsFiniteSet(M), Cardinality(M) = 1 PROVE HasLast(M)
    OBVIOUS
  <2>2. PICK x : M = {x}
    BY <2>1, FS_Singleton
  <2>3. QED
    BY <2>2, KeyRankType
<1>2. ASSUME NEW n \in Nat, n \in S PROVE n + 1 \in S
  <2>1. SUFFICES ASSUME NEW M \in SUBSET Key, IsFiniteSet(M), Cardinality(M) = (n + 1) + 1
                 PROVE  HasLast(M)
    OBVIOUS
  <2>2. PICK z \in M : TRUE
    BY <2>1, FS_EmptySet
  <2>3. IsFiniteSet(M \ {z}) /\ Cardinality(M \ {z}) = n + 1
    BY <2>1, <2>2, FS_RemoveElement
  <2>4. HasLast(M \ {z})
    <3>1. M \ {z} \in SUBSET Key
      OBVIOUS
    <3> HIDE DEF HasLast
    <3>2. QED
      BY <1>2, <2>3, <3>1
  <2>5. PICK x \in M \ {z} : \A y \in M \ {z} : KeyRank[y] <= KeyRank[x]
    BY <2>4
  <2>6. KeyRank[x] \in Int /\ KeyRank[z] \in Int /\ \A y \in M : KeyRank[y] \in Int
    BY KeyRankType
  <2>7. CASE KeyRank[z] <= KeyRank[x]
    BY <2>5, <2>7
  <2>8. CASE ~ (KeyRank[z] <= KeyRank[x])
    <3>1. \A y \in M : KeyRank[y] <= KeyRank[z]
      BY <2>5, <2>6, <2>8
    <3>2. QED
      BY <3>1
  <2>9. QED
    BY <2>7, <2>8
<1>3. Nat \subseteq S
  <2> HIDE DEF S
  <2> QED
    BY <1>1, <1>2, InductionUp
<1>4. Cardinality(K) - 1 \in Nat /\ (Cardinality(K) - 1) + 1 = Cardinality(K)
  BY FS_CardinalityType, FS_EmptySet
<1> HIDE DEF HasLast
<1>5. HasLast(K)
  BY <1>3, <1>4
<1>6. QED
  BY <1>5 DEF HasLast

LEMMA SortedExists ==
  ASSUME NEW K \in SUBSET Key, IsFiniteSet(K)
  PROVE  \E f \in [1..Cardinality(K) -> K] : Increasing(f, Cardinality(K))
<1> DEFINE Sorts(n, M) == \E f \in [1..n -> M] : Increasing(f, n)
           S == {n \in Nat : \A M \in SUBSET Key :
                   IsFiniteSet(M) /\ Cardinality(M) = n => Sorts(n, M)}
<1>1. 0 \in S
  <2>1. SUFFICES ASSUME NEW M \in SUBSET Key PROVE Sorts(0, M)
    OBVIOUS
  <2>2. [i \in 1..0 |-> {}] \in [1..0 -> M]
    OBVIOUS
  <2>3. Increasing([i \in 1..0 |-> {}], 0)
    BY DEF Increasing
  <2>4. QED
    BY <2>2, <2>3
<1>2. ASSUME NEW n \in Nat, n \in S PROVE n + 1 \in S
  <2>1. SUFFICES ASSUME NEW M \in SUBSET Key, IsFiniteSet(M), Cardinality(M) = n + 1
                 PROVE  Sorts(n + 1, M)
    OBVIOUS
  <2>2. PICK x \in M : \A y \in M : KeyRank[y] <= KeyRank[x]
    BY <2>1, FS_EmptySet, LastKey
  <2>3. IsFiniteSet(M \ {x}) /\ Cardinality(M \ {x}) = n
    <3>1. IsFiniteSet(M \ {x}) /\ Cardinality(M \ {x}) = Cardinality(M) - 1
      BY <2>1, <2>2, FS_RemoveElement
    <3>2. QED
      BY <2>1, <3>1
  <2>4. Sorts(n, M \ {x})
    <3>1. M \ {x} \in SUBSET Key
      OBVIOUS
    <3> HIDE DEF Sorts
    <3>2. QED
      BY <1>2, <2>3, <3>1
  <2>5. PICK f \in [1..n -> M \ {x}] : Increasing(f, n)
    BY <2>4
  <2> DEFINE g == [i \in 1..(n + 1) |-> IF i <= n THEN f[i] ELSE x]
  <2>6. \A i \in 1..n : g[i] = f[i] /\ g[i] \in M /\ g[i] # x
    OBVIOUS
  <2>7. g[n + 1] = x
    OBVIOUS
  <2>8. g \in [1..(n + 1) -> M]
    <3>1. \A i \in 1..(n + 1) : i <= n => i \in 1..n
      OBVIOUS
    <3>2. QED
      BY <3>1
  <2> HIDE DEF g
  <2>9. \A i \in 1..n : KeyRank[g[i]] < KeyRank[x]
    <3>1. SUFFICES ASSUME NEW i \in 1..n PROVE KeyRank[g[i]] < KeyRank[x]
      OBVIOUS
    <3>2. g[i] \in M /\ g[i] # x /\ g[i] \in Key /\ x \in Key
      BY <2>6
    <3>3. KeyRank[g[i]] <= KeyRank[x] /\ KeyRank[g[i]] # KeyRank[x]
      BY <2>2, <3>2, KeyRankAssumption
    <3>4. QED
      BY <3>2, <3>3, KeyRankType
  <2>10. Increasing(g, n + 1)
    <3>1. SUFFICES ASSUME NEW i \in 1..(n + 1), NEW j \in 1..(n + 1), i < j
                   PROVE  KeyRank[g[i]] < KeyRank[g[j]]
      BY DEF Increasing
    <3>2. i \in 1..n /\ (j \in 1..n \/ j = n + 1)
      BY <3>1
    <3>3. CASE j = n + 1
      BY <2>7, <2>9, <3>2, <3>3
    <3>4. CASE j \in 1..n
      BY <2>5, <2>6, <3>1, <3>2, <3>4 DEF Increasing
    <3>5. QED
      BY <3>2, <3>3, <3>4
  <2>11. QED
    BY <2>8, <2>10
<1>3. Nat \subseteq S
  <2> HIDE DEF S
  <2> QED
    BY <1>1, <1>2, InductionUp
<1>4. Cardinality(K) \in Nat
  BY FS_CardinalityType
<1> HIDE DEF Sorts
<1>5. Sorts(Cardinality(K), K)
  BY <1>3, <1>4
<1>6. QED
  BY <1>5 DEF Sorts

\* The sorted list of a set of keys has each of them once.
LEMMA SortedKeysList ==
  ASSUME NEW K \in SUBSET Key, IsFiniteSet(K)
  PROVE  /\ SortedKeys(K) \in Seq(K)
         /\ ToSet(SortedKeys(K)) = K
         /\ \A k \in K : \E n \in 1..Len(SortedKeys(K)) : SortedKeys(K)[n] = k
<1> DEFINE c == Cardinality(K)
           f == SortedKeys(K)
<1>1. c \in Nat
  BY FS_CardinalityType
<1>2. f \in [1..c -> K] /\ Increasing(f, c)
  <2>1. \E g \in [1..c -> K] : \A m, n \in 1..c : m < n => KeyRank[g[m]] < KeyRank[g[n]]
    BY SortedExists DEF Increasing
  <2>2. f \in [1..c -> K] /\ \A m, n \in 1..c : m < n => KeyRank[f[m]] < KeyRank[f[n]]
    BY <2>1 DEF SortedKeys
  <2>3. QED
    BY <2>2 DEF Increasing
<1> HIDE DEF f
<1>3. f \in Injection(1..c, K)
  <2>1. ASSUME NEW i \in 1..c, NEW j \in 1..c, f[i] = f[j] PROVE i = j
    <3>1. f[i] \in Key /\ f[j] \in Key
      BY <1>2
    <3>2. KeyRank[f[i]] \in Int /\ KeyRank[f[i]] = KeyRank[f[j]]
      BY <2>1, <3>1, KeyRankType
    <3>3. ~ (i < j) /\ ~ (j < i)
      BY <1>2, <3>2 DEF Increasing
    <3>4. QED
      BY <1>1, <3>3
  <2> HIDE DEF c
  <2>2. QED
    BY <1>2, <2>1 DEF Injection, IsInjective
<1>4. \A k \in K : \E n \in 1..c : f[n] = k
  <2>1. Cardinality(1..c) = c
    <3>1. 1 \in Int /\ c \in Int /\ (1 > c <=> c = 0) /\ c - 1 + 1 = c
      BY <1>1
    <3> HIDE DEF c
    <3>2. QED
      BY <3>1, FS_Interval
  <2>2. f \in Surjection(1..c, K)
    BY <1>3, <2>1, FS_Injection
  <2>3. QED
    BY <2>2 DEF Surjection
<1>5. f \in Seq(K) /\ Len(f) = c /\ DOMAIN f = 1..c
  BY <1>1, <1>2
<1>6. ToSet(f) = K
  BY <1>2, <1>4, <1>5 DEF ToSet
<1>7. QED
  BY <1>4, <1>5, <1>6 DEF f

-----------------------------------------------------------------------------
(* The session *)

\* Every proof that is kept lists the path of its key.
SessionInv ==
  /\ IInv
  /\ IsFiniteSet(DOMAIN recent) /\ DOMAIN recent \subseteq Key
  /\ \A k \in DOMAIN recent : OnPath(recent[k]) /\ recent[k].key = k
  /\ IsFiniteSet(batch)
  /\ \A bp \in batch : \A n \in 1..Len(bp.keys) : OnPath(bp.proofs[n])
  /\ Cardinality(DOMAIN recent) + Cardinality(batch) <= MaxCaptures

LEMMA MultiProofFields ==
  ASSUME NEW t, NEW K \in BatchKeys
  PROVE  LET bp == GetMultiProof(t, K) IN
         /\ bp.keys = SortedKeys(K)
         /\ bp.keys \in Seq(K) /\ ToSet(bp.keys) = K
         /\ \A k \in K : \E n \in 1..Len(bp.keys) : bp.keys[n] = k
         /\ Len(bp.values) = Len(bp.keys) /\ Len(bp.proofs) = Len(bp.keys)
         /\ \A n \in 1..Len(bp.keys) : /\ bp.keys[n] \in K /\ bp.keys[n] \in Key
                                       /\ bp.proofs[n] = GetProof(t, bp.keys[n])
                                       /\ bp.values[n] = bp.proofs[n].value
<1> DEFINE bp == GetMultiProof(t, K)
           c  == Len(SortedKeys(K))
<1>1. K \in SUBSET Key /\ IsFiniteSet(K)
  BY BatchKeysAssumption
<1>2. /\ SortedKeys(K) \in Seq(K)
      /\ ToSet(SortedKeys(K)) = K
      /\ \A k \in K : \E n \in 1..c : SortedKeys(K)[n] = k
  BY <1>1, SortedKeysList
<1>3. /\ bp.keys = SortedKeys(K)
      /\ bp.values = [n \in 1..c |-> GetProof(t, SortedKeys(K)[n]).value]
      /\ bp.proofs = [n \in 1..c |-> GetProof(t, SortedKeys(K)[n])]
  BY DEF GetMultiProof
<1>4. c \in Nat
  BY <1>2
<1> HIDE DEF bp
<1>5. Len(bp.values) = c /\ Len(bp.proofs) = c
  <2>1. bp.values = [n \in 1..c |-> bp.values[n]] /\ bp.proofs = [n \in 1..c |-> bp.proofs[n]]
    BY <1>3
  <2> HIDE DEF c
  <2>2. Len(bp.values) = c
    <3>1. \A n \in 1..c : bp.values[n] \in {bp.values[i] : i \in 1..c}
      OBVIOUS
    <3>2. QED
      BY <1>4, <2>1, <3>1, FunctionIsSeq
  <2>3. Len(bp.proofs) = c
    <3>1. \A n \in 1..c : bp.proofs[n] \in {bp.proofs[i] : i \in 1..c}
      OBVIOUS
    <3>2. QED
      BY <1>4, <2>1, <3>1, FunctionIsSeq
  <2>4. QED
    BY <2>2, <2>3
<1>6. \A n \in 1..c : SortedKeys(K)[n] \in K
  BY <1>2
<1>7. \A n \in 1..c : /\ bp.keys[n] \in K /\ bp.keys[n] \in Key
                      /\ bp.proofs[n] = GetProof(t, bp.keys[n])
                      /\ bp.values[n] = bp.proofs[n].value
  BY <1>1, <1>3, <1>6
<1>8. QED
  BY <1>2, <1>3, <1>5, <1>7 DEF bp

LEMMA SessionTreeStep ==
  ASSUME IInv, SessionNext
  PROVE  IInv'
<1>1. CASE CmdNew
  <2> DEFINE lv == [s \in Stem |-> NoLeaves]
  <2>1. tree' = CanonicalTree({}, lv)
    BY <1>1 DEF CmdNew, CanonicalTree, Crowded
  <2>2. Stored({}, lv)
    <3>1. NoLeaves \in Leaves
      BY ConstantAssumption DEF NoLeaves, Leaves
    <3>2. QED
      BY <3>1 DEF Stored
  <2> HIDE DEF lv
  <2>3. QED
    BY <2>1, <2>2, CanonicalIInvNext
<1>2. CASE ~ CmdNew
  <2>1. [Next]_tree
    BY <1>2 DEF SessionNext, CmdSet, CmdDel, CmdProof, KeepBatch, Next, Key
  <2>2. QED
    BY <2>1, NextIInv
<1>3. QED
  BY <1>1, <1>2

LEMMA SessionInitInv == SessionInit => SessionInv
<1>1. SUFFICES ASSUME SessionInit PROVE SessionInv
  OBVIOUS
<1>2. IInv
  BY <1>1, InitIInv DEF SessionInit
<1>3. recent = NoProofs /\ batch = {} /\ DOMAIN recent = {}
  BY <1>1 DEF SessionInit, NoProofs
<1>4. Cardinality(DOMAIN recent) + Cardinality(batch) <= MaxCaptures
  BY <1>3, FS_EmptySet, MaxCapturesAssumption
<1>5. QED
  BY <1>2, <1>3, <1>4, FS_EmptySet DEF SessionInv

LEMMA SessionNextInv == SessionInv /\ [SessionNext]_vars => SessionInv'
<1>1. SUFFICES ASSUME SessionInv, [SessionNext]_vars PROVE SessionInv'
  OBVIOUS
<1>2. CASE UNCHANGED vars
  BY <1>1, <1>2 DEF vars, SessionInv, IInv, Canonical
<1>3. CASE SessionNext
  <2>0. IInv'
    BY <1>1, <1>3, SessionTreeStep DEF SessionInv
  <2>a. /\ IsFiniteSet(DOMAIN recent) /\ DOMAIN recent \subseteq Key /\ IsFiniteSet(batch)
        /\ Cardinality(DOMAIN recent) \in Nat /\ Cardinality(batch) \in Nat
        /\ Cardinality(DOMAIN recent) + Cardinality(batch) <= MaxCaptures
    BY <1>1, FS_CardinalityType DEF SessionInv
  <2>1. CASE UNCHANGED <<recent, batch>>
    BY <1>1, <2>0, <2>1 DEF SessionInv
  <2>2. ASSUME NEW k \in Key, CmdProof(k) PROVE SessionInv'
    <3>1. DOMAIN recent' = DOMAIN recent \cup {k} /\ batch' = batch
      BY <2>2 DEF CmdProof
    <3>2. IsFiniteSet(DOMAIN recent') /\ DOMAIN recent' \subseteq Key
      BY <2>a, <3>1, FS_AddElement
    <3>3. \A x \in DOMAIN recent' : OnPath(recent'[x]) /\ recent'[x].key = x
      <4>1. OnPath(GetProof(tree, k)) /\ GetProof(tree, k).key = k
        BY <1>1, GetProofOnPath, GetProofFields DEF SessionInv
      <4>2. \A x \in DOMAIN recent' : recent'[x] = IF x = k THEN GetProof(tree, k) ELSE recent[x]
        BY <2>2, <3>1 DEF CmdProof
      <4>3. QED
        BY <1>1, <3>1, <4>1, <4>2 DEF SessionInv
    <3>4. Cardinality(DOMAIN recent') + Cardinality(batch') <= MaxCaptures
      <4>1. CASE k \in DOMAIN recent
        <5>1. DOMAIN recent' = DOMAIN recent
          BY <3>1, <4>1
        <5>2. QED
          BY <2>a, <3>1, <5>1
      <4>2. CASE k \notin DOMAIN recent
        <5>1. Cardinality(DOMAIN recent \cup {k}) = Cardinality(DOMAIN recent) + 1
          BY <2>a, <4>2, FS_AddElement
        <5>2. Cardinality(DOMAIN recent) + Cardinality(batch) < MaxCaptures
          BY <2>2, <4>2 DEF CmdProof, MayCapture
        <5>3. QED
          BY <2>a, <3>1, <5>1, <5>2, MaxCapturesAssumption
      <4>3. QED
        BY <4>1, <4>2
    <3>5. QED
      BY <1>1, <2>0, <3>1, <3>2, <3>3, <3>4 DEF SessionInv
  <2>3. CASE CmdNew
    <3>1. DOMAIN recent' = {} /\ batch' = batch
      BY <2>3 DEF CmdNew, NoProofs
    <3>2. Cardinality({}) = 0 /\ IsFiniteSet({})
      BY FS_EmptySet
    <3>3. Cardinality(DOMAIN recent') + Cardinality(batch') <= MaxCaptures
      BY <2>a, <3>1, <3>2, MaxCapturesAssumption
    <3>4. QED
      BY <1>1, <2>0, <3>1, <3>2, <3>3 DEF SessionInv
  <2>4. ASSUME NEW K \in BatchKeys, KeepBatch(K) PROVE SessionInv'
    <3> DEFINE bp == GetMultiProof(tree, K)
    <3>1. recent' = recent /\ batch' = batch \cup {bp}
      BY <2>4 DEF KeepBatch
    <3>2. \A n \in 1..Len(bp.keys) : OnPath(bp.proofs[n])
      <4>1. \A n \in 1..Len(bp.keys) : bp.keys[n] \in Key /\ bp.proofs[n] = GetProof(tree, bp.keys[n])
        BY MultiProofFields
      <4> HIDE DEF bp
      <4>2. QED
        BY <1>1, <4>1, GetProofOnPath DEF SessionInv
    <3> HIDE DEF bp
    <3>3. IsFiniteSet(batch') /\ Cardinality(batch') <= Cardinality(batch) + 1
          /\ Cardinality(batch') \in Nat
      <4>1. IsFiniteSet(batch \cup {bp})
        BY <2>a, FS_AddElement
      <4>2. Cardinality(batch \cup {bp}) = IF bp \in batch THEN Cardinality(batch)
                                          ELSE Cardinality(batch) + 1
        BY <2>a, FS_AddElement
      <4>3. QED
        BY <2>a, <3>1, <4>1, <4>2
    <3>4. Cardinality(DOMAIN recent) + Cardinality(batch) < MaxCaptures
      BY <2>4 DEF KeepBatch, MayCapture
    <3>5. Cardinality(DOMAIN recent') + Cardinality(batch') <= MaxCaptures
      BY <2>a, <3>1, <3>3, <3>4, MaxCapturesAssumption
    <3>6. QED
      BY <1>1, <2>0, <3>1, <3>2, <3>3, <3>5 DEF SessionInv
  <2>5. QED
    BY <1>3, <2>1, <2>2, <2>3, <2>4 DEF SessionNext, CmdSet, CmdDel
<1>4. QED
  BY <1>1, <1>2, <1>3

LEMMA SessionInvariant == SessionSpec => []SessionInv
BY SessionInitInv, SessionNextInv, PTL DEF SessionSpec

\* The session keeps well-typed proofs, each filed under its own key, and never
\* more than it may (cli.py PBTSession.recent_proofs).
THEOREM SessionTypeCorrect == SessionSpec => []SessionTypeOK
<1>1. ASSUME SessionInv PROVE SessionTypeOK
  <2>1. TypeOK
    BY <1>1, CanonicalTreeType DEF SessionInv, IInv, Canonical, TypeOK
  <2>2. QED
    BY <1>1, <2>1 DEF SessionInv, OnPath, SessionTypeOK
<1>2. QED
  BY <1>1, SessionInvariant, PTL

LEMMA VerifiesIffPresent ==
  ASSUME IInv, NEW k \in Key
  PROVE  VerifyProof(RootHash(tree), GetProof(tree, k)) <=> k[1] \in LiveStems(tree)
<1>1. ASSUME VerifyProof(RootHash(tree), GetProof(tree, k)) PROVE k[1] \in LiveStems(tree)
  <2>1. GetProof(tree, k).key[1] \in LiveStems(tree)
    BY <1>1, GetProofOnPath, VerifiedIsCurrent
  <2>2. GetProof(tree, k).key = k
    BY DEF GetProof
  <2>3. QED
    BY <2>1, <2>2
<1>2. QED
  BY <1>1, FreshVerifies

\* For every tree that inserts and deletes can build: the proof that get_proof
\* makes verifies exactly if the stem of its key is in the tree (tree.py:285-366).
THEOREM ProofsVerify == SessionSpec => []ProofVerifiesIffStemPresent
<1>1. SessionInv => ProofVerifiesIffStemPresent
  BY VerifiesIffPresent DEF SessionInv, ProofVerifiesIffStemPresent
<1>2. QED
  BY <1>1, SessionInvariant, PTL

\* Whatever happened to the tree since a proof was kept, it verifies only if it is
\* the proof of the tree as it is now (cli.py cmd_proof and cmd_verify).
THEOREM StaleProofsAreRefused == SessionSpec => []KeptProofIsCurrent
<1>1. ASSUME SessionInv PROVE KeptProofIsCurrent
  <2>1. SUFFICES ASSUME NEW k \in DOMAIN recent, VerifyProof(RootHash(tree), recent[k])
                 PROVE  recent[k] = GetProof(tree, k)
    BY DEF KeptProofIsCurrent
  <2>2. IInv /\ OnPath(recent[k]) /\ recent[k].key = k
    BY <1>1 DEF SessionInv
  <2>3. recent[k] = GetProof(tree, recent[k].key)
    BY <2>1, <2>2, VerifiedIsCurrent
  <2>4. QED
    BY <2>2, <2>3
<1>2. QED
  BY <1>1, SessionInvariant, PTL

\* A batch proof that verifies, however old, states the value that each of its keys
\* has now (tree.py:395-425).
THEOREM KeptBatchesAreSound == SessionSpec => []KeptBatchIsSound
<1>1. ASSUME SessionInv PROVE KeptBatchIsSound
  <2>1. SUFFICES ASSUME NEW bp \in batch, VerifyMultiProof(RootHash(tree), bp),
                        NEW n \in 1..Len(bp.keys)
                 PROVE  bp.values[n] = Get(tree, bp.keys[n][1], bp.keys[n][2])
    BY DEF KeptBatchIsSound
  <2>2. IInv /\ OnPath(bp.proofs[n])
    BY <1>1 DEF SessionInv
  <2>3. /\ bp.proofs[n].key = bp.keys[n]
        /\ bp.proofs[n].value = bp.values[n]
        /\ VerifyProof(RootHash(tree), bp.proofs[n])
    BY <2>1 DEF VerifyMultiProof
  <2>4. bp.proofs[n] = GetProof(tree, bp.proofs[n].key)
    BY <2>2, <2>3, VerifiedIsCurrent
  <2>5. GetProof(tree, bp.keys[n]).value = Get(tree, bp.keys[n][1], bp.keys[n][2])
    BY DEF GetProof
  <2>6. QED
    BY <2>3, <2>4, <2>5
<1>2. QED
  BY <1>1, SessionInvariant, PTL

\* A batch proof verifies exactly if the single proof of each of its keys does
\* (README.md:245).
THEOREM BatchProofsAreConjunctions == SessionSpec => []BatchIsConjunction
<1>1. BatchIsConjunction
  <2>1. SUFFICES ASSUME NEW K \in BatchKeys
                 PROVE  VerifyMultiProof(RootHash(tree), GetMultiProof(tree, K)) <=>
                          \A k \in K : VerifyProof(RootHash(tree), GetProof(tree, k))
    BY DEF BatchIsConjunction
  <2> DEFINE bp == GetMultiProof(tree, K)
             rh == RootHash(tree)
  <2>2. /\ bp.keys = SortedKeys(K) /\ ToSet(bp.keys) = K
        /\ \A k \in K : \E n \in 1..Len(bp.keys) : bp.keys[n] = k
        /\ Len(bp.values) = Len(bp.keys) /\ Len(bp.proofs) = Len(bp.keys)
        /\ \A n \in 1..Len(bp.keys) : /\ bp.keys[n] \in K
                                      /\ bp.proofs[n] = GetProof(tree, bp.keys[n])
                                      /\ bp.values[n] = bp.proofs[n].value
    BY MultiProofFields
  <2>3. \A n \in 1..Len(bp.keys) : bp.proofs[n].key = bp.keys[n]
    <3>1. \A x \in K : GetProof(tree, x).key = x
      BY DEF GetProof
    <3> HIDE DEF bp
    <3>2. QED
      BY <2>2, <3>1
  <2>4. bp.index = [n \in 1..Len(bp.keys) |-> n - 1]
    BY DEF GetMultiProof
  <2> HIDE DEF bp, rh
  <2>5. VerifyMultiProof(rh, bp) <=> \A n \in 1..Len(bp.keys) : VerifyProof(rh, bp.proofs[n])
    BY <2>2, <2>3, <2>4 DEF VerifyMultiProof
  <2>6. (\A n \in 1..Len(bp.keys) : VerifyProof(rh, bp.proofs[n])) <=>
          \A k \in K : VerifyProof(rh, GetProof(tree, k))
    BY <2>2
  <2>7. QED
    BY <2>5, <2>6 DEF bp, rh
<1>2. QED
  BY <1>1, PTL
=============================================================================
