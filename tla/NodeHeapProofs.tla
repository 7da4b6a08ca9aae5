--------------------------- MODULE NodeHeapProofs ---------------------------
(***************************************************************************)
(* Theorems about the node objects of NodeHeap, for every set of stems,    *)
(* path bits and values and every history of calls: the objects make the   *)
(* tree of PBTree, whatever is shared with a root that is kept, and what   *)
(* is cached in the current tree is the hash of what is below it.          *)
(***************************************************************************)
EXTENDS NodeHeap, FiniteSetTheorems, WellFoundedInduction, TLAPS

-----------------------------------------------------------------------------
(* Induction, stated with sets *)

LessThan == {r \in Nat \X Nat : r[1] < r[2]}

\* Least(S) is the smallest element of every non-empty set of naturals.
LEMMA LeastIsLeast ==
  ASSUME NEW S, S \subseteq Nat, S # {}
  PROVE  Least(S) \in S /\ \A m \in S : Least(S) <= m
<1>1. IsWellFoundedOn(LessThan, Nat)
  <2>1. LessThan = OpToRel(<, Nat)
    BY DEF LessThan, OpToRel
  <2>2. QED
    BY <2>1, NatLessThanWellFounded
<1>2. PICK n \in S : \A m \in S : <<m, n>> \notin LessThan
  BY <1>1, WFMin
<1>3. ASSUME NEW m \in S PROVE n <= m
  <2>1. m \in Nat /\ n \in Nat /\ <<m, n>> \in Nat \X Nat
    OBVIOUS
  <2>2. ~ (m < n)
    BY <1>2, <2>1 DEF LessThan
  <2>3. QED
    BY <2>1, <2>2
<1>4. QED
  BY <1>3 DEF Least

LEMMA InductionUp ==
  ASSUME NEW S, 0 \in S, \A n \in Nat : n \in S => n + 1 \in S
  PROVE  Nat \subseteq S
<1> DEFINE T == Nat \ S
<1>1. SUFFICES ASSUME T # {} PROVE FALSE
  OBVIOUS
<1>2. PICK n \in T : \A m \in T : n <= m
  <2> T \subseteq Nat
    OBVIOUS
  <2> HIDE DEF T
  <2>1. Least(T) \in T /\ \A m \in T : Least(T) <= m
    BY <1>1, LeastIsLeast
  <2>2. QED
    BY <2>1
<1>3. n - 1 \in Nat /\ n - 1 \notin T /\ (n - 1) + 1 = n
  BY <1>2
<1>4. QED
  BY <1>2, <1>3

-----------------------------------------------------------------------------
(* Positions *)

At(d) == [0..(d - 1) -> {0, 1}]

Child(p, b) == [i \in 0..Size(p) |-> IF i < Size(p) THEN p[i] ELSE b]

LEMMA DepthIsNat == Depth \in Nat
BY ConstantAssumption

LEMMA Bits ==
  ASSUME NEW s \in Stem, NEW d \in 0..(Depth - 1)
  PROVE  PathBit[s][d] \in {0, 1}
BY ConstantAssumption

LEMMA AtSize ==
  ASSUME NEW d \in Nat, NEW p \in At(d)
  PROVE  Size(p) = d /\ DOMAIN p = 0..(d - 1)
<1>1. DOMAIN p = 0..(d - 1)
  BY DEF At
<1>2. 0 \in Int /\ d - 1 \in Int /\ (0 > d - 1 <=> d = 0)
  OBVIOUS
<1>3. Cardinality(0..(d - 1)) = d
  BY <1>2, FS_Interval
<1>4. QED
  BY <1>1, <1>3 DEF Size

LEMMA PositionAt ==
  ASSUME NEW d \in 0..Depth, NEW p \in At(d)
  PROVE  p \in Position /\ Size(p) = d
<1>1. d \in Nat
  BY DepthIsNat
<1>2. QED
  BY <1>1, AtSize DEF Position, At

LEMMA PositionSize ==
  ASSUME NEW p \in Position
  PROVE  /\ Size(p) \in Nat /\ Size(p) <= Depth /\ Size(p) \in 0..Depth
         /\ p \in At(Size(p)) /\ DOMAIN p = 0..(Size(p) - 1)
<1>1. PICK d \in 0..Depth : p \in At(d)
  BY DEF Position, At
<1>2. d \in Nat
  BY DepthIsNat
<1>3. Size(p) = d /\ DOMAIN p = 0..(d - 1)
  BY <1>1, <1>2, AtSize
<1>4. QED
  BY <1>1, <1>2, <1>3, DepthIsNat

LEMMA UpperIs ==
  ASSUME NEW p \in Position, NEW d \in 0..Size(p)
  PROVE  Upper(p, d) \in Position /\ Size(Upper(p, d)) = d
<1>1. Size(p) \in Nat /\ Size(p) <= Depth /\ p \in At(Size(p))
  BY PositionSize
<1>2. d \in 0..Depth /\ 0..(d - 1) \subseteq 0..(Size(p) - 1)
  BY <1>1, DepthIsNat
<1>3. \A j \in 0..(d - 1) : p[j] \in {0, 1}
  BY <1>1, <1>2 DEF At
<1>4. Upper(p, d) \in At(d)
  BY <1>3 DEF Upper, At
<1>5. QED
  BY <1>2, <1>4, PositionAt

\* A position is above or below another by the last of its bits.
LEMMA UpIs ==
  ASSUME NEW p \in Position, Size(p) # 0
  PROVE  /\ Up(p) \in Position /\ Size(Up(p)) = Size(p) - 1 /\ Size(Up(p)) < Depth
         /\ Turn(p) \in {0, 1} /\ Child(Up(p), Turn(p)) = p
<1>1. /\ Size(p) \in Nat /\ Size(p) <= Depth /\ p \in At(Size(p))
      /\ DOMAIN p = 0..(Size(p) - 1)
  BY PositionSize
<1>2. Size(p) - 1 \in 0..Size(p) /\ Size(p) - 1 \in 0..(Size(p) - 1) /\ Size(p) - 1 < Depth
  BY <1>1, DepthIsNat
<1>3. Up(p) \in Position /\ Size(Up(p)) = Size(p) - 1
  BY <1>2, UpperIs DEF Up
<1>4. Turn(p) \in {0, 1}
  BY <1>1, <1>2 DEF Turn, At
<1>5. Child(Up(p), Turn(p)) = p
  <2>1. Child(Up(p), Turn(p)) = [i \in 0..(Size(p) - 1) |-> IF i < Size(p) - 1 THEN Up(p)[i] ELSE Turn(p)]
    BY <1>3 DEF Child
  <2>2. \A i \in 0..(Size(p) - 1) : (IF i < Size(p) - 1 THEN Up(p)[i] ELSE Turn(p)) = p[i]
    <3>1. TAKE i \in 0..(Size(p) - 1)
    <3>2. CASE i < Size(p) - 1
      <4>1. i \in 0..((Size(p) - 1) - 1)
        BY <1>1, <3>2
      <4>2. Up(p)[i] = p[i]
        BY <4>1 DEF Up, Upper
      <4>3. QED
        BY <3>2, <4>2
    <3>3. CASE i = Size(p) - 1
      BY <3>3, <1>1 DEF Turn
    <3>4. QED
      BY <1>1, <3>2, <3>3
  <2>3. p = [i \in 0..(Size(p) - 1) |-> p[i]]
    BY <1>1 DEF At
  <2>4. QED
    BY <2>1, <2>2, <2>3
<1>6. QED
  BY <1>2, <1>3, <1>4, <1>5

LEMMA ChildIs ==
  ASSUME NEW p \in Position, Size(p) < Depth, NEW b \in {0, 1}
  PROVE  /\ Child(p, b) \in Position /\ Size(Child(p, b)) = Size(p) + 1
         /\ Up(Child(p, b)) = p /\ Turn(Child(p, b)) = b
<1> DEFINE c == Child(p, b)
<1>1. Size(p) \in Nat /\ p \in At(Size(p)) /\ DOMAIN p = 0..(Size(p) - 1)
  BY PositionSize
<1>2. Size(p) + 1 \in 0..Depth /\ (Size(p) + 1) - 1 = Size(p)
  BY <1>1, DepthIsNat
<1>3. \A i \in 0..Size(p) : (IF i < Size(p) THEN p[i] ELSE b) \in {0, 1}
  <2>1. \A i \in 0..Size(p) : i < Size(p) => i \in 0..(Size(p) - 1)
    BY <1>1
  <2>2. QED
    BY <1>1, <2>1 DEF At
<1>4. c \in At(Size(p) + 1)
  BY <1>2, <1>3 DEF Child, At
<1>5. c \in Position /\ Size(c) = Size(p) + 1
  BY <1>2, <1>4, PositionAt
<1>6. Size(c) - 1 = Size(p)
  BY <1>1, <1>5
<1>7. Turn(c) = b
  <2>1. Size(p) \in 0..Size(p) /\ ~ (Size(p) < Size(p))
    BY <1>1
  <2>2. QED
    BY <1>6, <2>1 DEF Turn, Child
<1>8. Up(c) = p
  <2>1. Up(c) = [j \in 0..(Size(p) - 1) |-> c[j]]
    BY <1>6 DEF Up, Upper
  <2>2. \A j \in 0..(Size(p) - 1) : j \in 0..Size(p) /\ j < Size(p)
    BY <1>1
  <2>3. \A j \in 0..(Size(p) - 1) : c[j] = p[j]
    BY <2>2 DEF Child
  <2>4. p = [j \in 0..(Size(p) - 1) |-> p[j]]
    BY <1>1 DEF At
  <2> HIDE DEF c
  <2>5. QED
    BY <2>1, <2>3, <2>4
<1>9. QED
  BY <1>5, <1>7, <1>8

LEMMA NoBits ==
  ASSUME NEW p \in Position, NEW q \in Position, Size(p) = 0, Size(q) = 0
  PROVE  p = q
<1>1. p \in At(0) /\ q \in At(0)
  BY PositionSize
<1>2. p = [i \in 0..(0 - 1) |-> p[i]] /\ q = [i \in 0..(0 - 1) |-> q[i]]
  BY <1>1 DEF At
<1>3. \A i \in 0..(0 - 1) : FALSE
  OBVIOUS
<1>4. QED
  BY <1>2, <1>3

LEMMA PathIs ==
  ASSUME NEW s \in Stem, NEW d \in 0..Depth
  PROVE  Path(s, d) \in Position /\ Size(Path(s, d)) = d
<1>1. \A i \in 0..(d - 1) : i \in 0..(Depth - 1)
  BY DepthIsNat
<1>2. \A i \in 0..(d - 1) : PathBit[s][i] \in {0, 1}
  BY <1>1, Bits
<1>3. Path(s, d) \in At(d)
  BY <1>2 DEF Path, At
<1>4. QED
  BY <1>3, PositionAt

LEMMA SiblingIs ==
  ASSUME NEW s \in Stem, NEW d \in 1..Depth
  PROVE  Sibling(s, d) \in Position /\ Size(Sibling(s, d)) = d
<1>1. \A i \in 0..(d - 1) : i \in 0..(Depth - 1)
  BY DepthIsNat
<1>2. \A i \in 0..(d - 1) : PathBit[s][i] \in {0, 1}
  BY <1>1, Bits
<1>3. Sibling(s, d) \in At(d)
  BY <1>2 DEF Sibling, At
<1>4. d \in 0..Depth
  BY DepthIsNat
<1>5. QED
  BY <1>3, <1>4, PositionAt

\* The two children of a position on a path.
LEMMA PathChild ==
  ASSUME NEW s \in Stem, NEW d \in 0..(Depth - 1)
  PROVE  /\ Child(Path(s, d), PathBit[s][d]) = Path(s, d + 1)
         /\ Child(Path(s, d), 1 - PathBit[s][d]) = Sibling(s, d + 1)
         /\ Path(s, d + 1) # Sibling(s, d + 1)
<1>0. d \in 0..Depth /\ d \in Nat /\ (d + 1) - 1 = d /\ d \in 0..d
  BY DepthIsNat
<1>1. Size(Path(s, d)) = d
  BY <1>0, PathIs
<1>2. \A i \in 0..d : i < d => Path(s, d)[i] = PathBit[s][i]
  <2>1. \A i \in 0..d : i < d => i \in 0..(d - 1)
    BY <1>0
  <2>2. QED
    BY <2>1 DEF Path
<1>3. \A b : Child(Path(s, d), b) = [i \in 0..d |-> IF i < d THEN PathBit[s][i] ELSE b]
  BY <1>1, <1>2 DEF Child
<1>4. \A i \in 0..d : i < d \/ i = d
  BY <1>0
<1>5. Child(Path(s, d), PathBit[s][d]) = Path(s, d + 1)
  <2>1. Path(s, d + 1) = [i \in 0..d |-> PathBit[s][i]]
    BY <1>0 DEF Path
  <2>2. \A i \in 0..d : (IF i < d THEN PathBit[s][i] ELSE PathBit[s][d]) = PathBit[s][i]
    BY <1>4
  <2>3. QED
    BY <1>3, <2>1, <2>2
<1>6. Child(Path(s, d), 1 - PathBit[s][d]) = Sibling(s, d + 1)
  <2>1. Sibling(s, d + 1) = [i \in 0..d |-> IF i = d THEN 1 - PathBit[s][i] ELSE PathBit[s][i]]
    BY <1>0 DEF Sibling
  <2>2. \A i \in 0..d : (IF i < d THEN PathBit[s][i] ELSE 1 - PathBit[s][d]) =
                        (IF i = d THEN 1 - PathBit[s][i] ELSE PathBit[s][i])
    BY <1>0, <1>4
  <2>3. QED
    BY <1>3, <2>1, <2>2
<1>7. Path(s, d + 1) # Sibling(s, d + 1)
  <2>1. Path(s, d + 1)[d] = PathBit[s][d] /\ Sibling(s, d + 1)[d] = 1 - PathBit[s][d]
    BY <1>0 DEF Path, Sibling
  <2>2. PathBit[s][d] # 1 - PathBit[s][d]
    BY Bits
  <2>3. QED
    BY <2>1, <2>2
<1>8. QED
  BY <1>5, <1>6, <1>7
-----------------------------------------------------------------------------
(* Objects and references *)

Ref(h) == {Nil} \cup Objects(h)

\* The path of stem s goes through position p.
Through(s, p) == Path(s, Size(p)) = p

\* What may hang at position p: an InternalNode of that place, or a StemNode
\* whose path goes through it.
Fits(x, p) == x # Nil => (x[1] = p) \/ (x[1] \in Stem /\ Through(x[1], p))

SoundStem(h, x) ==
  /\ x[1] \in Stem
  /\ h[x] = [kind |-> "stem", prefix |-> x[1], values |-> h[x].values, cache |-> h[x].cache]
  /\ h[x].values \in Leaves

SoundInternal(h, x) ==
  /\ x[1] \in Position /\ Size(x[1]) < Depth
  /\ h[x] = [kind |-> "internal", child |-> h[x].child, cache |-> h[x].cache]
  /\ h[x].child \in [{0, 1} -> Ref(h)]
  /\ \A b \in {0, 1} : Fits(h[x].child[b], Child(x[1], b))

\* Every object is of the class its name says, and refers to objects that fit.
Sound(h) ==
  /\ h = [x \in Id |-> h[x]]
  /\ \A x \in Objects(h) : SoundStem(h, x) \/ SoundInternal(h, x)

IsRoot(h, r) == r \in Ref(h) /\ \A p \in Position : Size(p) = 0 => Fits(r, p)

LEMMA NamesAreApart ==
  ASSUME NEW x \in Id
  PROVE  /\ x # Nil /\ x[1] \in Stem \cup Position /\ ~ (x[1] \in Stem /\ x[1] \in Position)
         /\ x[2] \in {1, 2} /\ x = <<x[1], x[2]>>
BY NamesAssumption DEF Id, Nil

LEMMA Kinds ==
  ASSUME NEW h, Sound(h), NEW x \in Objects(h)
  PROVE  /\ x \in Id /\ x # Nil
         /\ IsInternal(h, x) <=> x[1] \in Position
         /\ IsInternal(h, x) <=> ~ IsStemObj(h, x)
         /\ IsInternal(h, x) => SoundInternal(h, x)
         /\ IsStemObj(h, x) => SoundStem(h, x)
<1>1. x \in Id /\ x # Nil /\ ~ (x[1] \in Stem /\ x[1] \in Position)
  BY NamesAreApart DEF Objects
<1>2. SoundStem(h, x) \/ SoundInternal(h, x)
  BY DEF Sound
<1>3. CASE SoundStem(h, x)
  <2>1. x[1] \in Stem /\ h[x].kind = "stem"
    BY <1>3 DEF SoundStem
  <2>2. QED
    BY <1>1, <1>3, <2>1 DEF IsInternal, IsStemObj
<1>4. CASE SoundInternal(h, x)
  <2>1. x[1] \in Position /\ h[x].kind = "internal"
    BY <1>4 DEF SoundInternal
  <2>2. QED
    BY <1>1, <1>4, <2>1 DEF IsInternal, IsStemObj
<1>5. QED
  BY <1>2, <1>3, <1>4

LEMMA NilIsNoObject ==
  ASSUME NEW h
  PROVE  ~ IsInternal(h, Nil) /\ ~ IsStemObj(h, Nil)
BY DEF IsInternal, IsStemObj

-----------------------------------------------------------------------------
(* Refs is what its definition says *)

RefOver(h, r, f, p) ==
  IF Size(p) = 0 THEN r
  ELSE LET x == f[Up(p)] IN IF IsInternal(h, x) THEN h[x].child[Turn(p)] ELSE Nil

Above(n) == {p \in Position : Size(p) <= n}

LEMMA RefsExtend ==
  ASSUME NEW h, NEW r, NEW n \in Nat,
         NEW f, f = [p \in Above(n) |-> RefOver(h, r, f, p)]
  PROVE  \E g : g = [p \in Above(n + 1) |-> RefOver(h, r, g, p)]
<1> DEFINE g == [p \in Above(n + 1) |-> RefOver(h, r, f, p)]
<1>1. \A p \in Above(n) : p \in Above(n + 1)
  BY PositionSize DEF Above
<1>2. \A p \in Above(n) : g[p] = f[p]
  BY <1>1
<1>3. ASSUME NEW p \in Above(n + 1)
      PROVE  RefOver(h, r, f, p) = RefOver(h, r, g, p)
  <2>1. CASE Size(p) = 0
    <3> HIDE DEF g
    <3>1. QED
      BY <2>1 DEF RefOver
  <2>2. CASE Size(p) # 0
    <3>1. p \in Position /\ Size(p) \in Nat /\ Size(p) <= n + 1
      BY PositionSize DEF Above
    <3>2. Up(p) \in Position /\ Size(Up(p)) = Size(p) - 1
      BY <2>2, <3>1, UpIs
    <3>3. Up(p) \in Above(n)
      BY <3>1, <3>2 DEF Above
    <3>4. g[Up(p)] = f[Up(p)]
      BY <1>2, <3>3
    <3> HIDE DEF g
    <3>5. QED
      BY <3>4 DEF RefOver
  <2>3. QED
    BY <2>1, <2>2
<1>4. g = [p \in Above(n + 1) |-> RefOver(h, r, g, p)]
  BY <1>3
<1> HIDE DEF g
<1>5. QED
  BY <1>4

LEMMA RefsExist ==
  ASSUME NEW h, NEW r
  PROVE  \E f : f = [p \in Position |-> RefOver(h, r, f, p)]
<1> DEFINE S == {n \in Nat : \E f : f = [p \in Above(n) |-> RefOver(h, r, f, p)]}
<1>1. 0 \in S
  <2> DEFINE f == [p \in Above(0) |-> r]
  <2>1. \A p \in Above(0) : Size(p) = 0
    BY PositionSize DEF Above
  <2>2. \A p \in Above(0) : RefOver(h, r, f, p) = r
    <3> HIDE DEF f
    <3>1. QED
      BY <2>1 DEF RefOver
  <2>3. f = [p \in Above(0) |-> RefOver(h, r, f, p)]
    BY <2>2
  <2> HIDE DEF f
  <2>4. QED
    BY <2>3
<1>2. ASSUME NEW n \in Nat, n \in S PROVE n + 1 \in S
  BY <1>2, RefsExtend
<1>3. Depth \in S
  <2> HIDE DEF S
  <2>1. QED
    BY <1>1, <1>2, InductionUp, DepthIsNat
<1>4. Above(Depth) = Position
  BY PositionSize DEF Above
<1>5. QED
  BY <1>3, <1>4

LEMMA RefsEquation ==
  ASSUME NEW h, NEW r
  PROVE  Refs(h, r) = [p \in Position |-> RefOver(h, r, Refs(h, r), p)]
<1>1. Refs(h, r) = CHOOSE f : f = [p \in Position |-> RefOver(h, r, f, p)]
  BY DEF Refs, RefOver
<1>2. QED
  BY <1>1, RefsExist

LEMMA RefsStep ==
  ASSUME NEW h, NEW r, NEW p \in Position
  PROVE  /\ Size(p) = 0 => Refs(h, r)[p] = r
         /\ Size(p) # 0 /\ IsInternal(h, Refs(h, r)[Up(p)]) =>
              Refs(h, r)[p] = h[Refs(h, r)[Up(p)]].child[Turn(p)]
         /\ Size(p) # 0 /\ ~ IsInternal(h, Refs(h, r)[Up(p)]) => Refs(h, r)[p] = Nil
<1> DEFINE f == Refs(h, r)
<1>1. f[p] = RefOver(h, r, f, p)
  <2>1. f = [q \in Position |-> RefOver(h, r, f, q)]
    BY RefsEquation
  <2> HIDE DEF f
  <2>2. QED
    BY <2>1
<1> HIDE DEF f
<1>2. QED
  BY <1>1 DEF RefOver, f

\* No other function satisfies the definition.
LEMMA RefsUnique ==
  ASSUME NEW h, NEW r, NEW g, \A p \in Position : g[p] = RefOver(h, r, g, p)
  PROVE  \A p \in Position : Refs(h, r)[p] = g[p]
<1> DEFINE S == {n \in Nat : \A p \in Position : Size(p) = n => Refs(h, r)[p] = g[p]}
<1>1. 0 \in S
  <2>1. ASSUME NEW p \in Position, Size(p) = 0 PROVE Refs(h, r)[p] = g[p]
    <3>1. g[p] = r
      BY <2>1 DEF RefOver
    <3>2. QED
      BY <2>1, <3>1, RefsStep
  <2>2. QED
    BY <2>1
<1>2. ASSUME NEW n \in Nat, n \in S PROVE n + 1 \in S
  <2>1. ASSUME NEW p \in Position, Size(p) = n + 1 PROVE Refs(h, r)[p] = g[p]
    <3>1. Size(p) # 0
      BY <2>1
    <3>2. Up(p) \in Position /\ Size(Up(p)) = n
      BY <2>1, <3>1, UpIs
    <3>3. Refs(h, r)[Up(p)] = g[Up(p)]
      BY <1>2, <3>2
    <3>4. g[p] = IF IsInternal(h, g[Up(p)]) THEN h[g[Up(p)]].child[Turn(p)] ELSE Nil
      BY <3>1 DEF RefOver
    <3>5. QED
      BY <3>1, <3>3, <3>4, RefsStep
  <2>2. QED
    BY <2>1
<1>3. Nat \subseteq S
  <2> HIDE DEF S
  <2>1. QED
    BY <1>1, <1>2, InductionUp
<1>4. QED
  BY <1>3, PositionSize
-----------------------------------------------------------------------------
(* What is reached from a root *)

\* Whatever a reference leads to is a reference.
LEMMA RefsAreRefs ==
  ASSUME NEW h, Sound(h), NEW r \in Ref(h), NEW p \in Position
  PROVE  Refs(h, r)[p] \in Ref(h)
<1> DEFINE S == {n \in Nat : \A q \in Position : Size(q) = n => Refs(h, r)[q] \in Ref(h)}
<1>1. 0 \in S
  BY RefsStep
<1>2. ASSUME NEW n \in Nat, n \in S PROVE n + 1 \in S
  <2>1. ASSUME NEW q \in Position, Size(q) = n + 1 PROVE Refs(h, r)[q] \in Ref(h)
    <3>1. Size(q) # 0
      BY <2>1
    <3>2. Up(q) \in Position /\ Size(Up(q)) = n /\ Turn(q) \in {0, 1}
      BY <2>1, <3>1, UpIs
    <3> DEFINE x == Refs(h, r)[Up(q)]
    <3>3. x \in Ref(h)
      BY <1>2, <3>2
    <3>4. CASE IsInternal(h, x)
      <4>1. x \in Objects(h)
        BY <3>3, <3>4, NilIsNoObject DEF Ref
      <4>2. SoundInternal(h, x)
        BY <3>4, <4>1, Kinds
      <4>3. h[x].child[Turn(q)] \in Ref(h)
        BY <3>2, <4>2 DEF SoundInternal
      <4>4. QED
        BY <3>1, <3>4, <4>3, RefsStep
    <3>5. CASE ~ IsInternal(h, x)
      BY <3>1, <3>5, RefsStep DEF Ref
    <3>6. QED
      BY <3>4, <3>5
  <2>2. QED
    BY <2>1
<1>3. Nat \subseteq S
  <2> HIDE DEF S
  <2>1. QED
    BY <1>1, <1>2, InductionUp
<1>4. QED
  BY <1>3, PositionSize

LEMMA InternalAt ==
  ASSUME NEW h, Sound(h), NEW x \in Objects(h), IsInternal(h, x),
         NEW p \in Position, Fits(x, p)
  PROVE  /\ x[1] = p /\ Size(p) < Depth
         /\ \A b \in {0, 1} : h[x].child[b] \in Ref(h) /\ Fits(h[x].child[b], Child(p, b))
<1>1. x \in Id /\ x # Nil /\ x[1] \in Position /\ SoundInternal(h, x)
  BY Kinds
<1>2. x[1] = p
  BY <1>1, NamesAreApart DEF Fits
<1>3. QED
  BY <1>1, <1>2 DEF SoundInternal

\* From a root, an object is reached at the places where it fits only.
LEMMA RefsFit ==
  ASSUME NEW h, Sound(h), NEW r, IsRoot(h, r), NEW p \in Position
  PROVE  Refs(h, r)[p] \in Ref(h) /\ Fits(Refs(h, r)[p], p)
<1> DEFINE S == {n \in Nat : \A q \in Position : Size(q) = n => Fits(Refs(h, r)[q], q)}
<1>0. \A q \in Position : Refs(h, r)[q] \in Ref(h)
  BY RefsAreRefs DEF IsRoot
<1>1. 0 \in S
  BY RefsStep DEF IsRoot
<1>2. ASSUME NEW n \in Nat, n \in S PROVE n + 1 \in S
  <2>1. ASSUME NEW q \in Position, Size(q) = n + 1 PROVE Fits(Refs(h, r)[q], q)
    <3>1. Size(q) # 0
      BY <2>1
    <3>2. /\ Up(q) \in Position /\ Size(Up(q)) = n /\ Turn(q) \in {0, 1}
          /\ Child(Up(q), Turn(q)) = q
      BY <2>1, <3>1, UpIs
    <3> DEFINE x == Refs(h, r)[Up(q)]
    <3>3. x \in Ref(h) /\ Fits(x, Up(q))
      BY <1>0, <1>2, <3>2
    <3>4. CASE IsInternal(h, x)
      <4>1. x \in Objects(h)
        BY <3>3, <3>4, NilIsNoObject DEF Ref
      <4> HIDE DEF x
      <4>2. Fits(h[x].child[Turn(q)], Child(Up(q), Turn(q)))
        BY <3>2, <3>3, <3>4, <4>1, InternalAt
      <4> USE DEF x
      <4>3. QED
        BY <3>1, <3>2, <3>4, <4>2, RefsStep
    <3>5. CASE ~ IsInternal(h, x)
      BY <3>1, <3>5, RefsStep DEF Fits
    <3>6. QED
      BY <3>4, <3>5
  <2>2. QED
    BY <2>1
<1>3. Nat \subseteq S
  <2> HIDE DEF S
  <2>1. QED
    BY <1>1, <1>2, InductionUp
<1>4. QED
  BY <1>0, <1>3, PositionSize

\* An InternalNode is reached at the place it is named for, and its children below.
LEMMA RefsInternal ==
  ASSUME NEW h, Sound(h), NEW r, IsRoot(h, r), NEW p \in Position,
         IsInternal(h, Refs(h, r)[p])
  PROVE  /\ Refs(h, r)[p] \in Objects(h) /\ Refs(h, r)[p][1] = p /\ Size(p) < Depth
         /\ \A b \in {0, 1} : /\ Child(p, b) \in Position
                              /\ Refs(h, r)[Child(p, b)] = h[Refs(h, r)[p]].child[b]
<1> DEFINE x == Refs(h, r)[p]
<1>1. x \in Objects(h) /\ Fits(x, p)
  BY RefsFit, NilIsNoObject DEF Ref
<1>2. x[1] = p /\ Size(p) < Depth
  <2> HIDE DEF x
  <2>1. IsInternal(h, x)
    BY DEF x
  <2>2. QED
    BY <1>1, <2>1, InternalAt
<1>3. ASSUME NEW b \in {0, 1}
      PROVE  Child(p, b) \in Position /\ Refs(h, r)[Child(p, b)] = h[x].child[b]
  <2>1. /\ Child(p, b) \in Position /\ Size(Child(p, b)) = Size(p) + 1
        /\ Up(Child(p, b)) = p /\ Turn(Child(p, b)) = b
    BY <1>2, ChildIs
  <2>2. Size(Child(p, b)) # 0
    BY <2>1, PositionSize
  <2>3. QED
    BY <2>1, <2>2, RefsStep
<1>4. QED
  BY <1>1, <1>2, <1>3

LEMMA ReachIsObjects ==
  ASSUME NEW h, Sound(h), NEW R, R \subseteq Ref(h)
  PROVE  Reach(h, R) \subseteq Objects(h)
<1>1. ASSUME NEW x \in Reach(h, R) PROVE x \in Objects(h)
  <2>1. PICK r \in R, p \in Position : x = Refs(h, r)[p] /\ x # Nil
    BY DEF Reach
  <2>2. x \in Ref(h)
    BY <2>1, RefsAreRefs
  <2>3. QED
    BY <2>1, <2>2 DEF Ref
<1>2. QED
  BY <1>1

LEMMA ReachIsClosed ==
  ASSUME NEW h, Sound(h), NEW R, \A r \in R : IsRoot(h, r),
         NEW x \in Reach(h, R), IsInternal(h, x), NEW b \in {0, 1}
  PROVE  h[x].child[b] \in {Nil} \cup Reach(h, R)
<1>1. PICK r \in R, p \in Position : x = Refs(h, r)[p]
  BY DEF Reach
<1>2. Child(p, b) \in Position /\ Refs(h, r)[Child(p, b)] = h[x].child[b]
  BY <1>1, RefsInternal
<1>3. QED
  BY <1>2 DEF Reach

\* Two heaps that agree on the children of what is reached have the same Refs.
LEMMA SameRefs ==
  ASSUME NEW h, NEW g, NEW r,
         \A p \in Position :
           /\ IsInternal(g, Refs(h, r)[p]) <=> IsInternal(h, Refs(h, r)[p])
           /\ IsInternal(h, Refs(h, r)[p]) => g[Refs(h, r)[p]].child = h[Refs(h, r)[p]].child
  PROVE  Refs(g, r) = Refs(h, r)
<1> DEFINE f == Refs(h, r)
<1>1. ASSUME NEW p \in Position PROVE f[p] = RefOver(g, r, f, p)
  <2>1. CASE Size(p) = 0
    BY <2>1, RefsStep DEF RefOver
  <2>2. CASE Size(p) # 0
    <3>1. Up(p) \in Position
      BY <2>2, UpIs
    <3>2. f[p] = IF IsInternal(h, f[Up(p)]) THEN h[f[Up(p)]].child[Turn(p)] ELSE Nil
      BY <2>2, RefsStep
    <3>3. /\ IsInternal(g, f[Up(p)]) <=> IsInternal(h, f[Up(p)])
          /\ IsInternal(h, f[Up(p)]) => g[f[Up(p)]].child = h[f[Up(p)]].child
      BY <3>1
    <3> HIDE DEF f
    <3>4. QED
      BY <2>2, <3>2, <3>3 DEF RefOver
  <2>3. QED
    BY <2>1, <2>2
<1>2. f = [p \in Position |-> f[p]]
  <2>1. f = [p \in Position |-> RefOver(h, r, f, p)]
    BY RefsEquation
  <2> HIDE DEF f
  <2>2. QED
    BY <2>1
<1>3. Refs(g, r) = [p \in Position |-> Refs(g, r)[p]]
  <2> DEFINE e == Refs(g, r)
  <2>1. e = [p \in Position |-> RefOver(g, r, e, p)]
    BY RefsEquation
  <2> HIDE DEF e
  <2>2. e = [p \in Position |-> e[p]]
    BY <2>1
  <2>3. QED
    BY <2>2 DEF e
<1> HIDE DEF f
<1>4. \A p \in Position : Refs(g, r)[p] = f[p]
  BY <1>1, RefsUnique
<1>5. QED
  BY <1>2, <1>3, <1>4 DEF f

\* Reclaiming what no root reaches changes nothing for the roots.
LEMMA ReclaimedIsSound ==
  ASSUME NEW h, Sound(h), NEW R, \A r \in R : IsRoot(h, r)
  PROVE  LET g == Reclaimed(h, R)
         IN  /\ Sound(g)
             /\ Objects(g) = Reach(h, R) /\ Objects(g) \subseteq Objects(h)
             /\ \A x \in Objects(g) : g[x] = h[x]
             /\ \A r \in R : IsRoot(g, r) /\ Refs(g, r) = Refs(h, r)
             /\ Reach(g, R) = Objects(g)
<1> DEFINE g == Reclaimed(h, R)
<1>1. Reach(h, R) \subseteq Objects(h)
  BY ReachIsObjects DEF IsRoot
<1>2. g = [x \in Id |-> IF x \in Reach(h, R) THEN h[x] ELSE Free]
  BY DEF Reclaimed
<1>3. Objects(g) = Reach(h, R) /\ \A x \in Objects(g) : g[x] = h[x]
  <2> HIDE DEF g
  <2>1. QED
    BY <1>1, <1>2 DEF Objects
<1>4. Ref(g) = {Nil} \cup Reach(h, R)
  BY <1>3 DEF Ref
<1>5. g = [x \in Id |-> g[x]]
  BY <1>2
<1> HIDE DEF g
<1>6. ASSUME NEW x \in Objects(g) PROVE SoundStem(g, x) \/ SoundInternal(g, x)
  <2>1. x \in Objects(h) /\ x \in Reach(h, R) /\ g[x] = h[x]
    BY <1>1, <1>3
  <2>2. CASE IsStemObj(h, x)
    <3>1. SoundStem(h, x)
      BY <2>1, <2>2, Kinds
    <3>2. QED
      BY <2>1, <3>1 DEF SoundStem
  <2>3. CASE IsInternal(h, x)
    <3>1. SoundInternal(h, x)
      BY <2>1, <2>3, Kinds
    <3>2. \A b \in {0, 1} : h[x].child[b] \in Ref(g)
      BY <1>4, <2>1, <2>3, ReachIsClosed
    <3>3. h[x].child \in [{0, 1} -> Ref(g)]
      BY <3>1, <3>2 DEF SoundInternal
    <3>4. QED
      BY <2>1, <3>1, <3>3 DEF SoundInternal
  <2>4. QED
    BY <2>1, <2>2, <2>3, Kinds
<1>7. Sound(g)
  BY <1>5, <1>6 DEF Sound
<1>8. ASSUME NEW r \in R PROVE IsRoot(g, r) /\ Refs(g, r) = Refs(h, r)
  <2>2. ASSUME NEW p \in Position
        PROVE  /\ IsInternal(g, Refs(h, r)[p]) <=> IsInternal(h, Refs(h, r)[p])
               /\ IsInternal(h, Refs(h, r)[p]) => g[Refs(h, r)[p]].child = h[Refs(h, r)[p]].child
    <3> DEFINE x == Refs(h, r)[p]
    <3>1. x = Nil \/ x \in Reach(h, R)
      BY DEF Reach
    <3>2. CASE x = Nil
      BY <3>2, NilIsNoObject
    <3>3. CASE x \in Reach(h, R)
      <4>1. g[x] = h[x]
        BY <1>3, <3>3
      <4> HIDE DEF x
      <4>2. QED
        BY <4>1 DEF IsInternal, x
    <3>4. QED
      BY <3>1, <3>2, <3>3
  <2>3. Refs(g, r) = Refs(h, r)
    BY <2>2, SameRefs
  <2>4. r \in {Nil} \cup Reach(h, R)
    <3>1. PICK p \in Position : Size(p) = 0
      <4>1. 0 \in 0..Depth /\ [i \in 0..(0 - 1) |-> 0] \in At(0)
        BY DepthIsNat DEF At
      <4>2. QED
        BY <4>1, PositionAt
    <3>2. Refs(h, r)[p] = r
      BY <3>1, RefsStep
    <3>3. QED
      BY <3>2 DEF Reach
  <2>5. QED
    BY <1>4, <2>3, <2>4 DEF IsRoot
<1>9. Reach(g, R) = Reach(h, R)
  BY <1>8 DEF Reach
<1>10. QED
  BY <1>1, <1>3, <1>7, <1>8, <1>9 DEF g
-----------------------------------------------------------------------------
(* The descent for a stem *)

LEMMA PathStep ==
  ASSUME NEW s \in Stem, NEW d \in 0..(Depth - 1)
  PROVE  /\ d \in 0..Depth /\ d + 1 \in 0..Depth /\ PathBit[s][d] \in {0, 1}
         /\ Path(s, d) \in Position /\ Path(s, d + 1) \in Position
         /\ Size(Path(s, d + 1)) # 0 /\ Up(Path(s, d + 1)) = Path(s, d)
         /\ Turn(Path(s, d + 1)) = PathBit[s][d]
         /\ Sibling(s, d + 1) \in Position /\ Size(Sibling(s, d + 1)) # 0
         /\ Up(Sibling(s, d + 1)) = Path(s, d) /\ Turn(Sibling(s, d + 1)) = 1 - PathBit[s][d]
<1>1. d \in 0..Depth /\ d + 1 \in 0..Depth /\ d + 1 \in 1..Depth /\ d < Depth /\ d + 1 # 0
  BY DepthIsNat
<1>2. PathBit[s][d] \in {0, 1} /\ 1 - PathBit[s][d] \in {0, 1}
  BY Bits
<1>3. Path(s, d) \in Position /\ Size(Path(s, d)) < Depth
  BY <1>1, PathIs
<1>4. Path(s, d + 1) \in Position /\ Size(Path(s, d + 1)) = d + 1
  BY <1>1, PathIs
<1>5. Sibling(s, d + 1) \in Position /\ Size(Sibling(s, d + 1)) = d + 1
  BY <1>1, SiblingIs
<1>6. Up(Path(s, d + 1)) = Path(s, d) /\ Turn(Path(s, d + 1)) = PathBit[s][d]
  BY <1>2, <1>3, ChildIs, PathChild
<1>7. Up(Sibling(s, d + 1)) = Path(s, d) /\ Turn(Sibling(s, d + 1)) = 1 - PathBit[s][d]
  BY <1>2, <1>3, ChildIs, PathChild
<1>8. QED
  BY <1>1, <1>2, <1>3, <1>4, <1>5, <1>6, <1>7

LEMMA StopIs ==
  ASSUME NEW h, Sound(h), NEW r, IsRoot(h, r), NEW s \in Stem
  PROVE  /\ Stop(h, r, s) \in 0..Depth
         /\ ~ IsInternal(h, Refs(h, r)[Path(s, Stop(h, r, s))])
         /\ \A d \in 0..(Stop(h, r, s) - 1) : IsInternal(h, Refs(h, r)[Path(s, d)])
         /\ End(h, r, s) = Refs(h, r)[Path(s, Stop(h, r, s))]
<1> DEFINE S == {d \in 0..Depth : ~ IsInternal(h, Refs(h, r)[Path(s, d)])}
           k == Stop(h, r, s)
<1>1. \A d \in 0..Depth : Walk(h, r, s)[d] = Refs(h, r)[Path(s, d)]
  BY DEF Walk
<1>2. k = Least(S)
  <2>1. S = {d \in 0..Depth : ~ IsInternal(h, Walk(h, r, s)[d])}
    BY <1>1
  <2>2. QED
    BY <2>1 DEF Stop
<1>3. Depth \in S
  <2>1. Depth \in 0..Depth
    BY DepthIsNat
  <2>2. Path(s, Depth) \in Position /\ Size(Path(s, Depth)) = Depth
    BY <2>1, PathIs
  <2>3. ~ (Size(Path(s, Depth)) < Depth)
    BY <2>2, DepthIsNat
  <2>4. QED
    BY <2>1, <2>2, <2>3, RefsInternal
<1>4. k \in S /\ \A d \in S : k <= d
  <2>1. S \subseteq Nat /\ S # {}
    BY <1>3, DepthIsNat
  <2> HIDE DEF S
  <2>2. QED
    BY <1>2, <2>1, LeastIsLeast
<1>5. \A d \in 0..(k - 1) : IsInternal(h, Refs(h, r)[Path(s, d)])
  <2>1. \A d \in 0..(k - 1) : d \in 0..Depth /\ ~ (k <= d)
    BY <1>4, DepthIsNat
  <2>2. QED
    BY <1>4, <2>1
<1>6. End(h, r, s) = Refs(h, r)[Path(s, k)]
  BY <1>1, <1>4 DEF End
<1>7. QED
  BY <1>4, <1>5, <1>6

\* Above the end the path leads through InternalNodes, below it nothing is left.
LEMMA Descent ==
  ASSUME NEW h, Sound(h), NEW r, IsRoot(h, r), NEW s \in Stem, NEW d \in 0..Depth
  PROVE  /\ d < Stop(h, r, s) =>
              LET x == Refs(h, r)[Path(s, d)]
              IN  /\ IsInternal(h, x) /\ x \in Objects(h) /\ x[1] = Path(s, d)
                  /\ d \in 0..(Depth - 1)
                  /\ Refs(h, r)[Path(s, d + 1)] = h[x].child[PathBit[s][d]]
                  /\ Refs(h, r)[Sibling(s, d + 1)] = h[x].child[1 - PathBit[s][d]]
         /\ Stop(h, r, s) < d => Refs(h, r)[Path(s, d)] = Nil
<1> DEFINE k == Stop(h, r, s)
           x == Refs(h, r)[Path(s, d)]
<1>0. k \in 0..Depth /\ k \in Nat /\ d \in Nat
  BY StopIs, DepthIsNat
<1>1. ASSUME d < k
      PROVE  /\ IsInternal(h, x) /\ x \in Objects(h) /\ x[1] = Path(s, d)
             /\ d \in 0..(Depth - 1)
             /\ Refs(h, r)[Path(s, d + 1)] = h[x].child[PathBit[s][d]]
             /\ Refs(h, r)[Sibling(s, d + 1)] = h[x].child[1 - PathBit[s][d]]
  <2>1. d \in 0..(k - 1) /\ d \in 0..(Depth - 1)
    BY <1>0, <1>1, DepthIsNat
  <2>2. IsInternal(h, x)
    BY <2>1, StopIs
  <2>3. Path(s, d) \in Position
    BY PathIs
  <2>4. x \in Objects(h) /\ x[1] = Path(s, d)
    BY <2>2, <2>3, RefsInternal
  <2>5. QED
    BY <2>1, <2>2, <2>4, PathStep, RefsStep
<1>2. ASSUME k < d PROVE x = Nil
  <2> DEFINE S == {n \in Nat : k + n + 1 <= Depth => Refs(h, r)[Path(s, k + n + 1)] = Nil}
  <2>1. 0 \in S
    <3>1. ASSUME k + 1 <= Depth PROVE Refs(h, r)[Path(s, k + 1)] = Nil
      <4>1. k \in 0..(Depth - 1)
        BY <1>0, <3>1, DepthIsNat
      <4>2. ~ IsInternal(h, Refs(h, r)[Path(s, k)])
        BY StopIs
      <4> HIDE DEF k
      <4>3. QED
        BY <4>1, <4>2, PathStep, RefsStep
    <3>2. k + 0 + 1 = k + 1
      BY <1>0
    <3>3. QED
      BY <3>1, <3>2
  <2>2. ASSUME NEW n \in Nat, n \in S PROVE n + 1 \in S
    <3>1. ASSUME k + (n + 1) + 1 <= Depth PROVE Refs(h, r)[Path(s, k + (n + 1) + 1)] = Nil
      <4> DEFINE e == k + n + 1
      <4>1. e \in 0..(Depth - 1) /\ e <= Depth /\ e + 1 = k + (n + 1) + 1
        BY <1>0, <3>1, DepthIsNat
      <4>2. Refs(h, r)[Path(s, e)] = Nil
        BY <2>2, <4>1
      <4> HIDE DEF e
      <4>3. Refs(h, r)[Path(s, e + 1)] = Nil
        BY <4>1, <4>2, PathStep, RefsStep, NilIsNoObject
      <4>4. QED
        BY <4>1, <4>3
    <3>2. QED
      BY <3>1
  <2>3. Nat \subseteq S
    <3> HIDE DEF S
    <3>1. QED
      BY <2>1, <2>2, InductionUp
  <2>4. d - k - 1 \in Nat /\ k + (d - k - 1) + 1 = d /\ d <= Depth
    BY <1>0, <1>2
  <2>5. d - k - 1 \in S
    BY <2>3, <2>4
  <2> HIDE DEF k, x
  <2>6. QED
    BY <2>4, <2>5 DEF x
<1>3. QED
  BY <1>1, <1>2

\* A StemNode is reached at the end of its own path, if at all.
LEMMA StemIsEnd ==
  ASSUME NEW h, Sound(h), NEW r, IsRoot(h, r), NEW s \in Stem, NEW p \in Position,
         NEW x, x = Refs(h, r)[p], x # Nil, x[1] = s
  PROVE  x = End(h, r, s) /\ p = Path(s, Stop(h, r, s))
<1>1. x \in Objects(h) /\ Fits(x, p)
  BY RefsFit DEF Ref
<1>2. ~ IsInternal(h, x) /\ x[1] \notin Position
  BY <1>1, Kinds, NamesAreApart
<1>3. p = Path(s, Size(p)) /\ Size(p) \in 0..Depth
  BY <1>1, <1>2, PositionSize DEF Fits, Through
<1>4. ~ (Size(p) < Stop(h, r, s)) /\ ~ (Stop(h, r, s) < Size(p))
  BY <1>2, <1>3, Descent
<1>5. Size(p) = Stop(h, r, s)
  BY <1>3, <1>4, StopIs, DepthIsNat
<1>6. QED
  BY <1>3, <1>5, StopIs

\* The end of a path is no object, or a StemNode that hangs on the path.
LEMMA EndIs ==
  ASSUME NEW h, Sound(h), NEW r, IsRoot(h, r), NEW s \in Stem,
         End(h, r, s) # Nil
  PROVE  /\ End(h, r, s) \in Objects(h) /\ IsStemObj(h, End(h, r, s))
         /\ SoundStem(h, End(h, r, s)) /\ End(h, r, s)[1] \in Stem
         /\ Path(End(h, r, s)[1], Stop(h, r, s)) = Path(s, Stop(h, r, s))
<1> DEFINE x == End(h, r, s)
           k == Stop(h, r, s)
<1>1. k \in 0..Depth /\ x = Refs(h, r)[Path(s, k)] /\ ~ IsInternal(h, x)
  BY StopIs
<1>2. Path(s, k) \in Position /\ Size(Path(s, k)) = k
  BY <1>1, PathIs
<1>3. x \in Ref(h) /\ Fits(x, Path(s, k))
  BY <1>1, <1>2, RefsFit
<1>4. x \in Objects(h)
  BY <1>3 DEF Ref
<1> HIDE DEF x, k
<1>5. IsStemObj(h, x) /\ SoundStem(h, x) /\ x[1] \in Stem /\ x[1] \notin Position
  BY <1>1, <1>4, Kinds, NamesAreApart DEF SoundStem
<1>6. Through(x[1], Path(s, k))
  BY <1>2, <1>3, <1>4, <1>5, Kinds DEF Fits
<1>7. Path(x[1], k) = Path(s, k)
  BY <1>2, <1>6 DEF Through
<1>8. QED
  BY <1>4, <1>5, <1>7 DEF x, k

-----------------------------------------------------------------------------
(* A new object finds a free name *)

LEMMA FreshIs ==
  ASSUME NEW h, NEW m \in Stem \cup Position,
         ~ (<<m, 1>> \in Objects(h) /\ <<m, 2>> \in Objects(h))
  PROVE  /\ Fresh(h, m) \in Id /\ Fresh(h, m)[1] = m /\ Fresh(h, m) # Nil
         /\ h[Fresh(h, m)] = Free /\ Fresh(h, m) \notin Objects(h)
<1>1. <<m, 1>> \in Id /\ <<m, 2>> \in Id
  BY DEF Id
<1>2. h[<<m, 1>>] = Free \/ h[<<m, 2>>] = Free
  BY <1>1 DEF Objects
<1>3. Fresh(h, m) \in Id /\ Fresh(h, m)[1] = m /\ h[Fresh(h, m)] = Free
  BY <1>1, <1>2 DEF Fresh
<1>4. QED
  BY <1>3, NamesAreApart DEF Objects

\* A kept root leads to one object of a name at most.
LEMMA FreshStem ==
  ASSUME NEW h, Sound(h), NEW r, IsRoot(h, r), NEW o, IsRoot(h, o),
         Objects(h) = Reach(h, {r, o}), NEW s \in Stem,
         End(h, r, s) # Nil => End(h, r, s)[1] # s
  PROVE  /\ Fresh(h, s) \in Id /\ Fresh(h, s)[1] = s /\ Fresh(h, s) # Nil
         /\ h[Fresh(h, s)] = Free /\ Fresh(h, s) \notin Objects(h)
<1>1. ASSUME NEW x \in Objects(h), x[1] = s PROVE x = End(h, o, s)
  <2>1. PICK t \in {r, o}, p \in Position : x = Refs(h, t)[p] /\ x # Nil
    BY DEF Reach
  <2>2. CASE t = r
    BY <1>1, <2>1, <2>2, StemIsEnd
  <2>3. CASE t = o
    BY <1>1, <2>1, <2>3, StemIsEnd
  <2>4. QED
    BY <2>1, <2>2, <2>3
<1>2. <<s, 1>>[1] = s /\ <<s, 2>>[1] = s /\ <<s, 1>> # <<s, 2>>
  OBVIOUS
<1>3. ~ (<<s, 1>> \in Objects(h) /\ <<s, 2>> \in Objects(h))
  BY <1>1, <1>2
<1>4. QED
  BY <1>3, FreshIs

LEMMA FreshPosition ==
  ASSUME NEW h, Sound(h), NEW r, IsRoot(h, r), NEW o, IsRoot(h, o),
         Objects(h) = Reach(h, {r, o}), NEW q \in Position,
         ~ IsInternal(h, Refs(h, r)[q])
  PROVE  /\ Fresh(h, q) \in Id /\ Fresh(h, q)[1] = q /\ Fresh(h, q) # Nil
         /\ h[Fresh(h, q)] = Free /\ Fresh(h, q) \notin Objects(h)
<1>1. ASSUME NEW x \in Objects(h), x[1] = q PROVE x = Refs(h, o)[q]
  <2>1. PICK t \in {r, o}, p \in Position : x = Refs(h, t)[p] /\ x # Nil
    BY DEF Reach
  <2>2. IsInternal(h, x)
    BY <1>1, Kinds
  <2>3. x[1] = p
    BY <2>1, <2>2, RefsInternal
  <2>4. QED
    BY <1>1, <2>1, <2>2, <2>3
<1>2. <<q, 1>>[1] = q /\ <<q, 2>>[1] = q /\ <<q, 1>> # <<q, 2>>
  OBVIOUS
<1>3. ~ (<<q, 1>> \in Objects(h) /\ <<q, 2>> \in Objects(h))
  BY <1>1, <1>2
<1>4. QED
  BY <1>3, FreshIs
-----------------------------------------------------------------------------
(* Hashes *)

\* How many InternalNodes can be above each other at or below a reference.
Rank(x) == IF x # Nil /\ x[1] \in Position THEN Depth - Size(x[1]) ELSE 0

LEMMA RankIsNat ==
  ASSUME NEW x
  PROVE  Rank(x) \in Nat /\ Rank(x) <= Depth
BY PositionSize, DepthIsNat DEF Rank

LEMMA ChildRank ==
  ASSUME NEW h, Sound(h), NEW x \in Objects(h), IsInternal(h, x), NEW b \in {0, 1}
  PROVE  h[x].child[b] \in Ref(h) /\ Rank(h[x].child[b]) < Rank(x)
<1> DEFINE p == x[1]
           y == h[x].child[b]
<1>1. SoundInternal(h, x) /\ x # Nil
  BY Kinds
<1>2. p \in Position /\ Size(p) < Depth /\ y \in Ref(h) /\ Fits(y, Child(p, b))
  BY <1>1 DEF SoundInternal
<1>3. Size(p) \in Nat /\ Rank(x) = Depth - Size(p) /\ Rank(x) > 0
  BY <1>1, <1>2, PositionSize, DepthIsNat DEF Rank
<1>4. Child(p, b) \in Position /\ Size(Child(p, b)) = Size(p) + 1
  BY <1>2, ChildIs
<1> HIDE DEF y, p
<1>5. CASE y = Nil
  BY <1>2, <1>3, <1>5 DEF Rank, y
<1>6. CASE y # Nil /\ y[1] = Child(p, b)
  <2>1. Rank(y) = Depth - (Size(p) + 1)
    BY <1>4, <1>6 DEF Rank
  <2>2. QED
    BY <1>2, <1>3, <2>1, DepthIsNat DEF y
<1>7. CASE y # Nil /\ y[1] \in Stem
  <2>1. y[1] \notin Position
    BY <1>7, NamesAssumption
  <2>2. QED
    BY <1>2, <1>3, <2>1 DEF Rank, y
<1>8. QED
  BY <1>2, <1>5, <1>6, <1>7 DEF Fits

HashOver(f, h, e, g, y) ==
  IF y = Nil THEN e
  ELSE IF h[y].cache # None THEN h[y].cache
  ELSE IF IsStemObj(h, y) THEN HashStem(f, h[y].prefix, h[y].values)
  ELSE HashPair(f, g[h[y].child[0]], g[h[y].child[1]])

Ranked(h, n) == {y \in Ref(h) : Rank(y) <= n}

\* The hash of the objects up to a rank.
HashesTo(f, h, e, n) == \E g : g = [y \in Ranked(h, n) |-> HashOver(f, h, e, g, y)]

LEMMA HashesExtend ==
  ASSUME NEW f, NEW h, Sound(h), NEW e, NEW n \in Nat, HashesTo(f, h, e, n)
  PROVE  HashesTo(f, h, e, n + 1)
<1>0. PICK g : g = [y \in Ranked(h, n) |-> HashOver(f, h, e, g, y)]
  BY DEF HashesTo
<1> DEFINE k == [y \in Ranked(h, n + 1) |-> HashOver(f, h, e, g, y)]
<1>1. \A y \in Ranked(h, n) : y \in Ranked(h, n + 1)
  BY RankIsNat DEF Ranked
<1>2. \A y \in Ranked(h, n) : k[y] = g[y]
  <2>1. \A y \in Ranked(h, n) : k[y] = HashOver(f, h, e, g, y)
    BY <1>1
  <2> HIDE DEF k
  <2>2. \A y \in Ranked(h, n) : g[y] = HashOver(f, h, e, g, y)
    BY <1>0
  <2>3. QED
    BY <2>1, <2>2
<1>3. ASSUME NEW y \in Ranked(h, n + 1)
      PROVE  HashOver(f, h, e, g, y) = HashOver(f, h, e, k, y)
  <2>1. CASE IsInternal(h, y)
    <3>1. y \in Objects(h) /\ Rank(y) <= n + 1
      BY <2>1, NilIsNoObject DEF Ranked, Ref
    <3>2. ASSUME NEW b \in {0, 1} PROVE k[h[y].child[b]] = g[h[y].child[b]]
      <4>1. h[y].child[b] \in Ref(h) /\ Rank(h[y].child[b]) < Rank(y)
        BY <2>1, <3>1, ChildRank
      <4>2. h[y].child[b] \in Ranked(h, n)
        BY <3>1, <4>1, RankIsNat DEF Ranked
      <4> HIDE DEF k
      <4>3. QED
        BY <1>2, <4>2
    <3> HIDE DEF k
    <3>3. QED
      BY <3>2 DEF HashOver
  <2>2. CASE ~ IsInternal(h, y)
    <3>1. y = Nil \/ IsStemObj(h, y)
      BY <2>2, Kinds DEF Ranked, Ref
    <3> HIDE DEF k
    <3>2. QED
      BY <3>1 DEF HashOver
  <2>3. QED
    BY <2>1, <2>2
<1>4. k = [y \in Ranked(h, n + 1) |-> HashOver(f, h, e, k, y)]
  BY <1>3
<1> HIDE DEF k
<1>5. QED
  BY <1>4 DEF HashesTo

LEMMA HashesExist ==
  ASSUME NEW f, NEW h, Sound(h), NEW e
  PROVE  \E g : g = [y \in Ref(h) |-> HashOver(f, h, e, g, y)]
<1> DEFINE S == {n \in Nat : HashesTo(f, h, e, n)}
<1>1. 0 \in S
  <2> DEFINE g == [y \in Ranked(h, 0) |-> HashOver(f, h, e, [z \in {} |-> 0], y)]
  <2>1. ASSUME NEW y \in Ranked(h, 0)
        PROVE  HashOver(f, h, e, [z \in {} |-> 0], y) = HashOver(f, h, e, g, y)
    <3>1. ~ IsInternal(h, y)
      <4>1. SUFFICES ASSUME IsInternal(h, y) PROVE FALSE
        OBVIOUS
      <4>2. y \in Objects(h) /\ Rank(y) <= 0
        BY <4>1, NilIsNoObject DEF Ranked, Ref
      <4>3. Rank(h[y].child[0]) < Rank(y)
        BY <4>1, <4>2, ChildRank
      <4>4. QED
        BY <4>2, <4>3, RankIsNat
    <3>2. y = Nil \/ IsStemObj(h, y)
      BY <3>1, Kinds DEF Ranked, Ref
    <3> HIDE DEF g
    <3>3. QED
      BY <3>2 DEF HashOver
  <2>2. g = [y \in Ranked(h, 0) |-> HashOver(f, h, e, g, y)]
    BY <2>1
  <2> HIDE DEF g
  <2>3. QED
    BY <2>2 DEF HashesTo
<1>2. ASSUME NEW n \in Nat, n \in S PROVE n + 1 \in S
  BY <1>2, HashesExtend
<1>3. Depth \in S
  <2> HIDE DEF S
  <2>1. QED
    BY <1>1, <1>2, InductionUp, DepthIsNat
<1>4. Ranked(h, Depth) = Ref(h)
  BY RankIsNat DEF Ranked
<1>5. QED
  BY <1>3, <1>4 DEF HashesTo

LEMMA HashesEquation ==
  ASSUME NEW f, NEW h, Sound(h), NEW e, NEW y \in Ref(h)
  PROVE  NodeHashes(f, h, e)[y] = HashOver(f, h, e, NodeHashes(f, h, e), y)
<1> DEFINE k == NodeHashes(f, h, e)
<1>1. k = CHOOSE g : g = [z \in {Nil} \cup Objects(h) |-> HashOver(f, h, e, g, z)]
  BY DEF NodeHashes, HashOver
<1>2. \E g : g = [z \in {Nil} \cup Objects(h) |-> HashOver(f, h, e, g, z)]
  BY HashesExist DEF Ref
<1> HIDE DEF k
<1>3. k = [z \in {Nil} \cup Objects(h) |-> HashOver(f, h, e, k, z)]
  BY <1>1, <1>2
<1>4. k[y] = HashOver(f, h, e, k, y)
  BY <1>3 DEF Ref
<1>5. QED
  BY <1>4 DEF k

\* The objects of C refer to objects of C only.
Closed(h, C) ==
  /\ C \subseteq Objects(h)
  /\ \A x \in C : IsInternal(h, x) =>
        h[x].child[0] \in {Nil} \cup C /\ h[x].child[1] \in {Nil} \cup C

\* f and g agree at an object whenever they do at its children.
Alike(h, C, f, g) ==
  /\ f[Nil] = g[Nil]
  /\ \A x \in C : (IsInternal(h, x) => /\ f[h[x].child[0]] = g[h[x].child[0]]
                                       /\ f[h[x].child[1]] = g[h[x].child[1]])
                  => f[x] = g[x]

LEMMA EqualByRank ==
  ASSUME NEW h, Sound(h), NEW C, Closed(h, C), NEW f, NEW g, Alike(h, C, f, g)
  PROVE  \A x \in {Nil} \cup C : f[x] = g[x]
<1> USE DEF Closed, Alike
<1> DEFINE S == {n \in Nat : \A x \in {Nil} \cup C : Rank(x) <= n => f[x] = g[x]}
<1>1. ASSUME NEW x \in C, IsInternal(h, x)
      PROVE  /\ h[x].child[0] \in {Nil} \cup C /\ Rank(h[x].child[0]) < Rank(x)
             /\ h[x].child[1] \in {Nil} \cup C /\ Rank(h[x].child[1]) < Rank(x)
  BY <1>1, ChildRank
<1>2. 0 \in S
  <2>1. ASSUME NEW x \in C, Rank(x) <= 0 PROVE f[x] = g[x]
    <3>1. ~ IsInternal(h, x)
      BY <1>1, <2>1, RankIsNat
    <3>2. QED
      BY <3>1
  <2>2. QED
    BY <2>1
<1>3. ASSUME NEW n \in Nat, n \in S PROVE n + 1 \in S
  <2>1. ASSUME NEW x \in C, Rank(x) <= n + 1 PROVE f[x] = g[x]
    <3>1. ASSUME IsInternal(h, x)
          PROVE  f[h[x].child[0]] = g[h[x].child[0]] /\ f[h[x].child[1]] = g[h[x].child[1]]
      <4>1. Rank(h[x].child[0]) <= n /\ Rank(h[x].child[1]) <= n
        BY <1>1, <2>1, <3>1, RankIsNat
      <4>2. QED
        BY <1>1, <1>3, <3>1, <4>1
    <3>2. QED
      BY <3>1
  <2>2. QED
    BY <2>1
<1>4. Nat \subseteq S
  <2> HIDE DEF S
  <2>1. QED
    BY <1>2, <1>3, InductionUp
<1>5. \A x \in {Nil} \cup C : Rank(x) \in S
  BY <1>4, RankIsNat
<1>6. \A x \in {Nil} \cup C : f[x] = g[x]
  BY <1>5, RankIsNat
<1>7. QED
  BY <1>6
\* Without its caches a heap is as sound, with the same objects below each other.
\* Heap g is h with other cached hashes.
OnlyCaches(h, g) ==
  /\ g = [x \in Id |-> g[x]]
  /\ \A x \in Id : h[x] = Free => g[x] = Free
  /\ \A x \in Objects(h) : g[x] = [h[x] EXCEPT !.cache = g[x].cache]

LEMMA CacheIs ==
  ASSUME NEW h, Sound(h), NEW x \in Objects(h), NEW c
  PROVE  [h[x] EXCEPT !.cache = c].cache = c
<1> DEFINE y == h[x]
           vs == h[x].values
           ch == h[x].child
           e == h[x].cache
<1>1. \/ y = [kind |-> "stem", prefix |-> x[1], values |-> vs, cache |-> e]
      \/ y = [kind |-> "internal", child |-> ch, cache |-> e]
  BY DEF Sound, SoundStem, SoundInternal
<1> HIDE DEF y, vs, ch, e
<1>2. [y EXCEPT !.cache = c].cache = c
  <2>1. CASE y = [kind |-> "stem", prefix |-> x[1], values |-> vs, cache |-> e]
    <3>1. [y EXCEPT !.cache = c] = [kind |-> "stem", prefix |-> x[1], values |-> vs, cache |-> c]
      BY <2>1
    <3>2. QED
      BY <3>1
  <2>2. CASE y = [kind |-> "internal", child |-> ch, cache |-> e]
    <3>1. [y EXCEPT !.cache = c] = [kind |-> "internal", child |-> ch, cache |-> c]
      BY <2>2
    <3>2. QED
      BY <3>1
  <2>3. QED
    BY <1>1, <2>1, <2>2
<1>3. QED
  BY <1>2 DEF y

LEMMA OnlyCachesIs ==
  ASSUME NEW h, Sound(h), NEW g, OnlyCaches(h, g)
  PROVE  /\ Sound(g) /\ Objects(g) = Objects(h)
         /\ \A x \in Objects(h) :
              /\ IsInternal(g, x) <=> IsInternal(h, x)
              /\ IsStemObj(g, x) <=> IsStemObj(h, x)
              /\ IsStemObj(h, x) => g[x].prefix = h[x].prefix /\ g[x].values = h[x].values
              /\ IsInternal(h, x) => g[x].child = h[x].child
<1>1. ASSUME NEW x \in Objects(h), SoundStem(h, x)
      PROVE  /\ g[x] = [kind |-> "stem", prefix |-> x[1], values |-> h[x].values,
                        cache |-> g[x].cache]
             /\ g[x] # Free
  <2>1. h[x] = [kind |-> "stem", prefix |-> x[1], values |-> h[x].values, cache |-> h[x].cache]
    BY <1>1 DEF SoundStem
  <2> DEFINE y == h[x]
             z == g[x]
             vs == h[x].values
             e == h[x].cache
  <2>2. y = [kind |-> "stem", prefix |-> x[1], values |-> vs, cache |-> e]
    BY <2>1
  <2>3. z = [y EXCEPT !.cache = z.cache]
    BY DEF OnlyCaches
  <2> HIDE DEF y, z, vs, e
  <2>4. z = [kind |-> "stem", prefix |-> x[1], values |-> vs, cache |-> z.cache]
    BY <2>2, <2>3
  <2>5. z.kind = "stem"
    BY <2>4
  <2>6. Free.kind = "free"
    BY DEF Free
  <2>7. QED
    BY <2>4, <2>5, <2>6 DEF y, z, vs
<1>2. ASSUME NEW x \in Objects(h), SoundInternal(h, x)
      PROVE  /\ g[x] = [kind |-> "internal", child |-> h[x].child, cache |-> g[x].cache]
             /\ g[x] # Free
  <2>1. h[x] = [kind |-> "internal", child |-> h[x].child, cache |-> h[x].cache]
    BY <1>2 DEF SoundInternal
  <2> DEFINE y == h[x]
             z == g[x]
             ch == h[x].child
             e == h[x].cache
  <2>2. y = [kind |-> "internal", child |-> ch, cache |-> e]
    BY <2>1
  <2>3. z = [y EXCEPT !.cache = z.cache]
    BY DEF OnlyCaches
  <2> HIDE DEF y, z, ch, e
  <2>4. z = [kind |-> "internal", child |-> ch, cache |-> z.cache]
    BY <2>2, <2>3
  <2>5. z.kind = "internal"
    BY <2>4
  <2>6. Free.kind = "free"
    BY DEF Free
  <2>7. QED
    BY <2>4, <2>5, <2>6 DEF y, z, ch
<1>3. \A x \in Objects(h) : SoundStem(h, x) \/ SoundInternal(h, x)
  BY DEF Sound
<1>4. Objects(g) = Objects(h)
  <2>1. \A x \in Objects(h) : g[x] # Free
    BY <1>1, <1>2, <1>3
  <2>2. QED
    BY <2>1 DEF Objects, OnlyCaches
<1>5. Ref(g) = Ref(h)
  BY <1>4 DEF Ref
<1>6. ASSUME NEW x \in Objects(h)
      PROVE  /\ SoundStem(g, x) \/ SoundInternal(g, x)
             /\ g[x].kind = h[x].kind
             /\ h[x].kind = "stem" => g[x].prefix = h[x].prefix /\ g[x].values = h[x].values
             /\ h[x].kind = "internal" => g[x].child = h[x].child
  <2>1. CASE SoundStem(h, x)
    <3>1. g[x] = [kind |-> "stem", prefix |-> x[1], values |-> h[x].values,
                  cache |-> g[x].cache]
      BY <1>1, <2>1
    <3>2. g[x].kind = "stem" /\ g[x].prefix = x[1] /\ g[x].values = h[x].values
      BY <3>1
    <3>3. SoundStem(g, x)
      BY <2>1, <3>1, <3>2 DEF SoundStem
    <3>4. h[x].kind = "stem" /\ h[x].prefix = x[1]
      BY <2>1 DEF SoundStem
    <3>5. QED
      BY <3>1, <3>2, <3>3, <3>4
  <2>2. CASE SoundInternal(h, x)
    <3>1. g[x] = [kind |-> "internal", child |-> h[x].child, cache |-> g[x].cache]
      BY <1>2, <2>2
    <3>2. g[x].kind = "internal" /\ g[x].child = h[x].child
      BY <3>1
    <3>3. SoundInternal(g, x)
      BY <1>5, <2>2, <3>1, <3>2 DEF SoundInternal
    <3>4. h[x].kind = "internal"
      BY <2>2 DEF SoundInternal
    <3>5. QED
      BY <3>1, <3>2, <3>3, <3>4
  <2>3. QED
    BY <1>3, <2>1, <2>2
<1>7. Sound(g)
  BY <1>4, <1>6 DEF Sound, OnlyCaches
<1>8. QED
  BY <1>4, <1>6, <1>7 DEF IsInternal, IsStemObj

LEMMA UncachedIs ==
  ASSUME NEW h, Sound(h)
  PROVE  /\ Sound(Uncached(h)) /\ Objects(Uncached(h)) = Objects(h)
         /\ \A x \in Objects(h) :
              /\ Uncached(h)[x].cache = None
              /\ IsInternal(Uncached(h), x) <=> IsInternal(h, x)
              /\ IsStemObj(Uncached(h), x) <=> IsStemObj(h, x)
              /\ IsStemObj(h, x) => /\ Uncached(h)[x].prefix = h[x].prefix
                                    /\ Uncached(h)[x].values = h[x].values
              /\ IsInternal(h, x) => Uncached(h)[x].child = h[x].child
<1> DEFINE g == Uncached(h)
<1>1. g = [x \in Id |-> IF h[x] = Free THEN Free ELSE [h[x] EXCEPT !.cache = None]]
  BY DEF Uncached
<1>2. \A x \in Objects(h) : x \in Id /\ h[x] # Free
  BY DEF Objects
<1>3. /\ g = [x \in Id |-> g[x]] /\ \A x \in Id : h[x] = Free => g[x] = Free
      /\ \A x \in Objects(h) : g[x] = [h[x] EXCEPT !.cache = None] /\ g[x].cache = None
  BY <1>1, <1>2, CacheIs
<1> HIDE DEF g
<1>4. OnlyCaches(h, g)
  BY <1>3 DEF OnlyCaches
<1>5. /\ Sound(g) /\ Objects(g) = Objects(h)
      /\ \A x \in Objects(h) :
           /\ IsInternal(g, x) <=> IsInternal(h, x)
           /\ IsStemObj(g, x) <=> IsStemObj(h, x)
           /\ IsStemObj(h, x) => g[x].prefix = h[x].prefix /\ g[x].values = h[x].values
           /\ IsInternal(h, x) => g[x].child = h[x].child
  BY <1>4, OnlyCachesIs
<1>6. QED
  BY <1>3, <1>5 DEF g

LEMMA TrueHashStep ==
  ASSUME NEW f, NEW h, Sound(h)
  PROVE  /\ TrueHash(f, h, Nil) = HashEmpty(f)
         /\ \A y \in Objects(h) :
              /\ IsStemObj(h, y) => TrueHash(f, h, y) = HashStem(f, h[y].prefix, h[y].values)
              /\ IsInternal(h, y) =>
                   TrueHash(f, h, y) = HashPair(f, TrueHash(f, h, h[y].child[0]),
                                                   TrueHash(f, h, h[y].child[1]))
<1> DEFINE g == Uncached(h)
           k == NodeHashes(f, g, HashEmpty(f))
<1>1. /\ Sound(g) /\ Objects(g) = Objects(h)
      /\ \A x \in Objects(h) :
              /\ g[x].cache = None
              /\ IsInternal(g, x) <=> IsInternal(h, x)
              /\ IsStemObj(g, x) <=> IsStemObj(h, x)
              /\ IsStemObj(h, x) => g[x].prefix = h[x].prefix /\ g[x].values = h[x].values
              /\ IsInternal(h, x) => g[x].child = h[x].child
  BY UncachedIs
<1>2. \A y \in Ref(g) : k[y] = HashOver(f, g, HashEmpty(f), k, y)
  BY <1>1, HashesEquation
<1>3. \A y : TrueHash(f, h, y) = k[y]
  BY DEF TrueHash
<1> HIDE DEF g, k
<1>4. k[Nil] = HashEmpty(f)
  BY <1>2 DEF Ref, HashOver
<1>5. ASSUME NEW y \in Objects(h)
      PROVE  /\ IsStemObj(h, y) => k[y] = HashStem(f, h[y].prefix, h[y].values)
             /\ IsInternal(h, y) => k[y] = HashPair(f, k[h[y].child[0]], k[h[y].child[1]])
  <2>1. y # Nil /\ (IsInternal(h, y) <=> ~ IsStemObj(h, y))
    BY Kinds
  <2>2. k[y] = HashOver(f, g, HashEmpty(f), k, y)
    BY <1>1, <1>2 DEF Ref
  <2>3. QED
    BY <1>1, <2>1, <2>2 DEF HashOver
<1>6. QED
  BY <1>3, <1>4, <1>5

\* Where every cached hash is the true one, node_hash returns the true one.
LEMMA CoherentHashes ==
  ASSUME NEW f, NEW h, Sound(h), NEW C, Closed(h, C),
         \A x \in C : h[x].cache # None => h[x].cache = TrueHash(f, h, x)
  PROVE  \A x \in {Nil} \cup C : NodeHashes(f, h, HashEmpty(f))[x] = TrueHash(f, h, x)
<1> C \subseteq Objects(h) /\ (\A x \in C : IsInternal(h, x) =>
       h[x].child[0] \in {Nil} \cup C /\ h[x].child[1] \in {Nil} \cup C)
  BY DEF Closed
<1> DEFINE k == NodeHashes(f, h, HashEmpty(f))
           g == [x \in Ref(h) |-> TrueHash(f, h, x)]
<1>1. \A y \in Ref(h) : k[y] = HashOver(f, h, HashEmpty(f), k, y)
  BY HashesEquation
<1>2. Nil \in Ref(h) /\ \A x \in C : x \in Ref(h)
  BY DEF Ref
<1>3. \A x \in Ref(h) : g[x] = TrueHash(f, h, x)
  OBVIOUS
<1> HIDE DEF k, g
<1>4. k[Nil] = g[Nil]
  BY <1>1, <1>2, <1>3, TrueHashStep DEF HashOver
<1>5. ASSUME NEW x \in C,
             IsInternal(h, x) => /\ k[h[x].child[0]] = g[h[x].child[0]]
                                 /\ k[h[x].child[1]] = g[h[x].child[1]]
      PROVE  k[x] = g[x]
  <2>1. x \in Objects(h) /\ x # Nil /\ (IsInternal(h, x) <=> ~ IsStemObj(h, x))
    BY Kinds
  <2>2. k[x] = HashOver(f, h, HashEmpty(f), k, x) /\ g[x] = TrueHash(f, h, x)
    BY <1>1, <1>2, <1>3
  <2>3. CASE h[x].cache # None
    BY <2>1, <2>2, <2>3 DEF HashOver
  <2>4. CASE h[x].cache = None /\ IsStemObj(h, x)
    BY <2>1, <2>2, <2>4, TrueHashStep DEF HashOver
  <2>5. CASE h[x].cache = None /\ IsInternal(h, x)
    <3>1. h[x].child[0] \in Ref(h) /\ h[x].child[1] \in Ref(h)
      BY <1>2, <2>5
    <3>2. k[x] = HashPair(f, g[h[x].child[0]], g[h[x].child[1]])
      BY <1>5, <2>1, <2>2, <2>5 DEF HashOver
    <3>3. QED
      BY <1>3, <2>1, <2>2, <2>5, <3>1, <3>2, TrueHashStep
  <2>6. QED
    BY <2>1, <2>3, <2>4, <2>5
<1>6. \A x \in {Nil} \cup C : k[x] = g[x]
  BY <1>4, <1>5, EqualByRank DEF Alike
<1>7. QED
  BY <1>2, <1>3, <1>6 DEF k

\* The true hash of an object depends on the objects below it only.
LEMMA SameTrueHash ==
  ASSUME NEW f, NEW h, Sound(h), NEW g, Sound(g),
         NEW C, Closed(h, C), C \subseteq Objects(g),
         \A x \in C : /\ IsInternal(g, x) <=> IsInternal(h, x)
                      /\ IsInternal(h, x) => g[x].child = h[x].child
                      /\ IsStemObj(h, x) => g[x].prefix = h[x].prefix /\ g[x].values = h[x].values
  PROVE  \A x \in {Nil} \cup C : TrueHash(f, g, x) = TrueHash(f, h, x)
<1> C \subseteq Objects(h) /\ (\A x \in C : IsInternal(h, x) =>
       h[x].child[0] \in {Nil} \cup C /\ h[x].child[1] \in {Nil} \cup C)
  BY DEF Closed
<1> DEFINE k == [x \in Ref(g) |-> TrueHash(f, g, x)]
           l == [x \in Ref(h) |-> TrueHash(f, h, x)]
<1>1. Nil \in Ref(h) /\ Nil \in Ref(g) /\ \A x \in C : x \in Ref(h) /\ x \in Ref(g)
  BY DEF Ref
<1>2. /\ \A x \in Ref(g) : k[x] = TrueHash(f, g, x)
      /\ \A x \in Ref(h) : l[x] = TrueHash(f, h, x)
  OBVIOUS
<1> HIDE DEF k, l
<1>3. l[Nil] = k[Nil]
  BY <1>1, <1>2, TrueHashStep
<1>4. ASSUME NEW x \in C,
             IsInternal(h, x) => /\ l[h[x].child[0]] = k[h[x].child[0]]
                                 /\ l[h[x].child[1]] = k[h[x].child[1]]
      PROVE  l[x] = k[x]
  <2>1. /\ x \in Objects(h) /\ (IsInternal(h, x) <=> ~ IsStemObj(h, x))
        /\ x \in Objects(g) /\ (IsInternal(g, x) <=> ~ IsStemObj(g, x))
    BY Kinds
  <2>2. l[x] = TrueHash(f, h, x) /\ k[x] = TrueHash(f, g, x)
    BY <1>1, <1>2
  <2>3. CASE IsStemObj(h, x)
    <3>1. TrueHash(f, h, x) = HashStem(f, h[x].prefix, h[x].values)
      BY ONLY Sound(h), x \in Objects(h), <2>3, TrueHashStep
    <3>2. IsStemObj(g, x)
      BY <2>1, <2>3
    <3>3. TrueHash(f, g, x) = HashStem(f, g[x].prefix, g[x].values)
      BY ONLY Sound(g), <2>1, <3>2, TrueHashStep
    <3>4. QED
      BY <2>2, <2>3, <3>1, <3>3
  <2>4. CASE IsInternal(h, x)
    <3>0. IsInternal(g, x) /\ g[x].child = h[x].child
      BY <2>4
    <3>1. h[x].child[0] \in {Nil} \cup C /\ h[x].child[1] \in {Nil} \cup C
      BY <2>4
    <3>2. TrueHash(f, h, x) = HashPair(f, TrueHash(f, h, h[x].child[0]),
                                          TrueHash(f, h, h[x].child[1]))
      BY <2>1, <2>4, TrueHashStep
    <3>3. TrueHash(f, g, x) = HashPair(f, TrueHash(f, g, g[x].child[0]),
                                          TrueHash(f, g, g[x].child[1]))
      BY <2>1, <3>0, TrueHashStep
    <3>4. l[h[x].child[0]] = TrueHash(f, h, h[x].child[0]) /\ l[h[x].child[1]] = TrueHash(f, h, h[x].child[1])
      BY <1>1, <1>2, <3>1
    <3>5. k[h[x].child[0]] = TrueHash(f, g, h[x].child[0]) /\ k[h[x].child[1]] = TrueHash(f, g, h[x].child[1])
      BY <1>1, <1>2, <3>1
    <3>6. QED
      BY <1>4, <2>2, <2>4, <3>0, <3>2, <3>3, <3>4, <3>5
  <2>5. QED
    BY <2>1, <2>3, <2>4
<1>5. \A x \in {Nil} \cup C : l[x] = k[x]
  BY <1>3, <1>4, EqualByRank DEF Alike
<1>6. QED
  BY <1>1, <1>2, <1>5
-----------------------------------------------------------------------------
(* On the path of a stem and off it *)

\* An object of a sound heap is an InternalNode if it has the name of one.
Inner(x) == x # Nil /\ x[1] \in Position

\* The objects a call for stem s may change: its own and those on its path.
On(s, x) == x[1] = s \/ (x[1] \in Position /\ Through(s, x[1]))

LEMMA InnerIs ==
  ASSUME NEW h, Sound(h), NEW x \in Ref(h)
  PROVE  /\ IsInternal(h, x) <=> Inner(x)
         /\ IsStemObj(h, x) <=> x # Nil /\ ~ Inner(x)
         /\ x # Nil => x \in Objects(h) /\ x[1] \in Stem \cup Position
BY Kinds, NilIsNoObject, NamesAreApart DEF Ref, Inner

LEMMA ThroughIs ==
  ASSUME NEW s \in Stem, NEW p \in Position
  PROVE  /\ Through(s, p) => p = Path(s, Size(p)) /\ Size(p) \in 0..Depth
         /\ \A d \in 0..Depth : p = Path(s, d) => Through(s, p) /\ Size(p) = d
BY PositionSize, PathIs DEF Through

LEMMA ThroughUp ==
  ASSUME NEW s \in Stem, NEW p \in Position, Size(p) # 0, Through(s, p)
  PROVE  Through(s, Up(p))
<1>1. Size(p) \in Nat /\ Size(p) <= Depth
  BY PositionSize
<1>2. Size(p) - 1 \in 0..(Depth - 1) /\ (Size(p) - 1) + 1 = Size(p)
  BY <1>1, DepthIsNat
<1>3. p = Path(s, (Size(p) - 1) + 1)
  BY <1>2 DEF Through
<1>4. Up(p) = Path(s, Size(p) - 1) /\ Size(p) - 1 \in 0..Depth /\ Up(p) \in Position
  BY <1>2, <1>3, PathStep
<1>5. QED
  BY <1>4, ThroughIs

\* A position right below the path is the next of the path or a sibling of it.
LEMMA BesidePath ==
  ASSUME NEW s \in Stem, NEW p \in Position, Size(p) # 0, Through(s, Up(p))
  PROVE  \E d \in 0..(Depth - 1) :
           /\ Up(p) = Path(s, d) /\ Size(p) = d + 1
           /\ \/ p = Path(s, d + 1) /\ Turn(p) = PathBit[s][d]
              \/ p = Sibling(s, d + 1) /\ Turn(p) = 1 - PathBit[s][d]
<1> DEFINE d == Size(p) - 1
<1>1. Size(p) \in Nat /\ Size(p) <= Depth
  BY PositionSize
<1>2. d \in 0..(Depth - 1) /\ Size(p) = d + 1
  BY <1>1, DepthIsNat
<1>3. /\ Up(p) \in Position /\ Size(Up(p)) = d /\ Turn(p) \in {0, 1}
      /\ Child(Up(p), Turn(p)) = p
  BY UpIs
<1> HIDE DEF d
<1>4. Up(p) = Path(s, d)
  BY <1>3 DEF Through
<1>5. PathBit[s][d] \in {0, 1}
  BY <1>2, Bits
<1>6. Turn(p) = PathBit[s][d] \/ Turn(p) = 1 - PathBit[s][d]
  BY <1>3, <1>5
<1>7. QED
  BY <1>2, <1>3, <1>4, <1>6, PathChild

LEMMA SiblingOff ==
  ASSUME NEW s \in Stem, NEW d \in 0..(Depth - 1)
  PROVE  ~ Through(s, Sibling(s, d + 1))
<1>1. d + 1 \in 1..Depth
  BY DepthIsNat
<1>2. QED
  BY <1>1, SiblingIs, PathChild DEF Through

\* A StemNode that hangs at a position also fits above it.
LEMMA FitsAbove ==
  ASSUME NEW x, NEW p \in Position, Size(p) # 0, Fits(x, p), ~ Inner(x)
  PROVE  Fits(x, Up(p))
<1>1. SUFFICES ASSUME x # Nil PROVE x[1] \in Stem /\ Through(x[1], Up(p))
  BY DEF Fits
<1>2. x[1] \in Stem /\ Through(x[1], p)
  BY <1>1 DEF Fits, Inner
<1>3. QED
  BY <1>2, ThroughUp

\* What is below an object off the path is off the path.
LEMMA OffPath ==
  ASSUME NEW h, Sound(h), NEW s \in Stem, NEW x \in Objects(h), IsInternal(h, x),
         ~ On(s, x), NEW b \in {0, 1}, h[x].child[b] # Nil
  PROVE  ~ On(s, h[x].child[b])
<1> DEFINE p == x[1]
           y == h[x].child[b]
<1>1. SoundInternal(h, x)
  BY Kinds
<1>2. p \in Position /\ Size(p) < Depth /\ Fits(y, Child(p, b))
  BY <1>1 DEF SoundInternal
<1>3. ~ Through(s, p)
  BY <1>2 DEF On
<1> HIDE DEF y, p
<1>4. Child(p, b) \in Position /\ Size(Child(p, b)) = Size(p) + 1 /\ Up(Child(p, b)) = p
  BY <1>2, ChildIs
<1>5. ~ Through(s, Child(p, b))
  <2>1. Size(Child(p, b)) # 0
    BY <1>2, <1>4, PositionSize
  <2>2. QED
    BY <1>3, <1>4, <2>1, ThroughUp
<1>6. ~ On(s, y)
  <2>1. y # Nil
    BY DEF y
  <2>2. CASE y[1] = Child(p, b)
    BY <1>4, <1>5, <2>2, NamesAssumption DEF On
  <2>3. CASE y[1] \in Stem /\ Through(y[1], Child(p, b))
    BY <1>5, <2>3, NamesAssumption DEF On
  <2>4. QED
    BY <1>2, <2>1, <2>2, <2>3 DEF Fits
<1>7. QED
  BY <1>6 DEF y

\* From a root, what is on the path of s hangs on it: the InternalNodes above the
\* end, and the StemNode of s at the end.
LEMMA OnPath ==
  ASSUME NEW h, Sound(h), NEW r, IsRoot(h, r), NEW s \in Stem, NEW p \in Position,
         Refs(h, r)[p] # Nil, On(s, Refs(h, r)[p])
  PROVE  p = Path(s, Size(p)) /\ Size(p) \in 0..Stop(h, r, s)
<1> DEFINE x == Refs(h, r)[p]
           k == Stop(h, r, s)
<1>1. x \in Objects(h) /\ Fits(x, p) /\ k \in 0..Depth
  BY RefsFit, StopIs DEF Ref
<1>2. Size(p) \in Nat
  BY PositionSize
<1>3. CASE x[1] = s
  <2>1. p = Path(s, k)
    BY <1>3, StemIsEnd
  <2>2. Size(p) = k
    BY <1>1, <2>1, ThroughIs
  <2> HIDE DEF k
  <2>3. QED
    BY <1>1, <1>2, <2>1, <2>2 DEF k
<1>4. CASE x[1] \in Position /\ Through(s, x[1])
  <2>1. IsInternal(h, x)
    BY <1>1, <1>4, Kinds
  <2>2. x[1] = p
    BY <2>1, RefsInternal
  <2>3. p = Path(s, Size(p)) /\ Size(p) \in 0..Depth
    BY <1>4, <2>2, ThroughIs
  <2>4. ~ (k < Size(p))
    <3>1. k < Size(p) => x = Nil
      BY <2>3, Descent
    <3>2. QED
      BY <3>1
  <2> HIDE DEF k
  <2>5. QED
    BY <1>1, <1>2, <2>3, <2>4 DEF k
<1>5. QED
  BY <1>3, <1>4 DEF On
-----------------------------------------------------------------------------
(* The way back along the path *)

\* b is the heap left at the end of the path of s below r in h, ret[d] what the
\* frame at depth d returns.
Rising(h, r, s, b, ret) ==
  /\ Sound(b) /\ Objects(h) \subseteq Objects(b)
  /\ \A x \in Objects(h) : x[1] # s => b[x] = h[x]
  /\ \A d \in 0..Stop(h, r, s) : ret[d] \in Ref(b) /\ Fits(ret[d], Path(s, d))

Risen(h, r, s, b, ret) == Relinked(b, Walk(h, r, s), Stop(h, r, s), s, ret)

\* The InternalNodes of the path, each the only one of its name there.
LEMMA WalkIs ==
  ASSUME NEW h, Sound(h), NEW r, IsRoot(h, r), NEW s \in Stem
  PROVE  \A d \in 0..(Stop(h, r, s) - 1) :
           LET x == Refs(h, r)[Path(s, d)]
           IN  /\ d \in 0..(Depth - 1) /\ d \in 0..Depth /\ d + 1 \in 0..Stop(h, r, s)
               /\ Walk(h, r, s)[d] = x
               /\ x \in Objects(h) /\ x[1] = Path(s, d) /\ Inner(x)
               /\ SoundInternal(h, x)
               /\ Refs(h, r)[Path(s, d + 1)] = h[x].child[PathBit[s][d]]
               /\ Refs(h, r)[Sibling(s, d + 1)] = h[x].child[1 - PathBit[s][d]]
               /\ \A e \in 0..(Stop(h, r, s) - 1) : x = Refs(h, r)[Path(s, e)] => d = e
<1> DEFINE k == Stop(h, r, s)
           f == Refs(h, r)
<1>1. k \in 0..Depth
  BY StopIs
<1>2. ASSUME NEW d \in 0..(k - 1)
      PROVE  /\ d \in 0..Depth /\ d < k /\ d + 1 \in 0..k
             /\ IsInternal(h, f[Path(s, d)]) /\ f[Path(s, d)] \in Objects(h)
             /\ f[Path(s, d)][1] = Path(s, d) /\ d \in 0..(Depth - 1)
             /\ f[Path(s, d + 1)] = h[f[Path(s, d)]].child[PathBit[s][d]]
             /\ f[Sibling(s, d + 1)] = h[f[Path(s, d)]].child[1 - PathBit[s][d]]
             /\ Size(Path(s, d)) = d
             /\ SoundInternal(h, f[Path(s, d)]) /\ Inner(f[Path(s, d)])
             /\ Walk(h, r, s)[d] = f[Path(s, d)]
  <2>1. d \in 0..Depth /\ d < k /\ d + 1 \in 0..k
    BY <1>1, DepthIsNat
  <2>2. /\ IsInternal(h, f[Path(s, d)]) /\ f[Path(s, d)] \in Objects(h)
        /\ f[Path(s, d)][1] = Path(s, d) /\ d \in 0..(Depth - 1)
        /\ f[Path(s, d + 1)] = h[f[Path(s, d)]].child[PathBit[s][d]]
        /\ f[Sibling(s, d + 1)] = h[f[Path(s, d)]].child[1 - PathBit[s][d]]
    BY <2>1, Descent
  <2>3. Size(Path(s, d)) = d
    BY <2>1, PathIs
  <2> HIDE DEF f
  <2>4. SoundInternal(h, f[Path(s, d)]) /\ Inner(f[Path(s, d)])
    BY <2>2, Kinds DEF Inner
  <2>5. Walk(h, r, s)[d] = f[Path(s, d)]
    BY <2>1 DEF Walk, f
  <2>6. QED
    BY <2>1, <2>2, <2>3, <2>4, <2>5
<1>3. QED
  BY <1>2

LEMMA RelinkedIs ==
  ASSUME NEW h, Sound(h), NEW r, IsRoot(h, r), NEW s \in Stem, NEW b, NEW ret,
         Rising(h, r, s, b, ret)
  PROVE  LET g == Risen(h, r, s, b, ret)
         IN  /\ Sound(g) /\ Objects(g) = Objects(b)
             /\ \A x \in Objects(b) :
                  (\A d \in 0..(Stop(h, r, s) - 1) : x # Refs(h, r)[Path(s, d)]) => g[x] = b[x]
             /\ \A d \in 0..(Stop(h, r, s) - 1) :
                  LET x == Refs(h, r)[Path(s, d)]
                  IN  /\ g[x].child[PathBit[s][d]] = ret[d + 1]
                      /\ g[x].child[1 - PathBit[s][d]] = h[x].child[1 - PathBit[s][d]]
                      /\ g[x].cache = None
<1> DEFINE g == Risen(h, r, s, b, ret)
           k == Stop(h, r, s)
           f == Refs(h, r)
           w == Walk(h, r, s)
           OnWay(x) == \E d \in 0..(k - 1) : x = f[Path(s, d)]
<1>0. /\ Sound(b) /\ Objects(h) \subseteq Objects(b)
      /\ \A x \in Objects(h) : x[1] # s => b[x] = h[x]
      /\ \A d \in 0..k : ret[d] \in Ref(b) /\ Fits(ret[d], Path(s, d))
  BY DEF Rising
<1>1. \A d \in 0..(k - 1) :
           LET x == f[Path(s, d)]
           IN  /\ d \in 0..(Depth - 1) /\ d \in 0..Depth /\ d + 1 \in 0..k
               /\ w[d] = x
               /\ x \in Objects(h) /\ x[1] = Path(s, d) /\ Inner(x)
               /\ SoundInternal(h, x)
               /\ \A e \in 0..(k - 1) : x = f[Path(s, e)] => d = e
  BY WalkIs
<1>2. g = [x \in Id |->
             IF \E d \in 0..(k - 1) : x = w[d]
             THEN LET d == CHOOSE d \in 0..(k - 1) : x = w[d]
                  IN  [b[x] EXCEPT !.child[PathBit[s][d]] = ret[d + 1], !.cache = None]
             ELSE b[x]]
  BY DEF Risen, Relinked
<1>3. \A x \in Objects(b) : x \in Id
  BY DEF Objects
<1> HIDE DEF g, k, f, w
<1>4. \A x \in Id : ~ OnWay(x) => g[x] = b[x]
  BY <1>1, <1>2
<1>5. ASSUME NEW d \in 0..(k - 1), NEW x, x = f[Path(s, d)]
      PROVE  /\ g[x] = [b[x] EXCEPT !.child[PathBit[s][d]] = ret[d + 1], !.cache = None]
             /\ x \in Objects(h) /\ x \in Id /\ x[1] # s
             /\ b[x] = [kind |-> "internal", child |-> h[x].child, cache |-> h[x].cache]
             /\ h[x].child \in [{0, 1} -> Ref(h)]
  <2>1. x \in Objects(h) /\ x \in Id /\ x = w[d] /\ x[1] = Path(s, d) /\ SoundInternal(h, x)
    BY <1>0, <1>1, <1>3, <1>5
  <2>2. \A e \in 0..(k - 1) : x = w[e] => e = d
    BY <1>1, <1>5
  <2>3. (CHOOSE e \in 0..(k - 1) : x = w[e]) = d
    BY <2>1, <2>2
  <2>4. g[x] = [b[x] EXCEPT !.child[PathBit[s][d]] = ret[d + 1], !.cache = None]
    BY <1>2, <2>1, <2>3
  <2>5. x[1] # s
    BY <2>1, NamesAssumption DEF SoundInternal
  <2>6. b[x] = h[x]
    BY <1>0, <2>1, <2>5
  <2>7. h[x] = [kind |-> "internal", child |-> h[x].child, cache |-> h[x].cache]
    BY <2>1 DEF SoundInternal
  <2>8. QED
    BY <2>1, <2>4, <2>5, <2>6, <2>7 DEF SoundInternal
<1>6. ASSUME NEW d \in 0..(k - 1), NEW x, x = f[Path(s, d)]
      PROVE  /\ g[x] = [kind |-> "internal", child |-> g[x].child, cache |-> None]
             /\ g[x].child[PathBit[s][d]] = ret[d + 1]
             /\ g[x].child[1 - PathBit[s][d]] = h[x].child[1 - PathBit[s][d]]
             /\ g[x].child = [[c \in {0, 1} |-> h[x].child[c]] EXCEPT ![PathBit[s][d]] = ret[d + 1]]
  <2>1. PathBit[s][d] \in {0, 1} /\ 1 - PathBit[s][d] # PathBit[s][d] /\ 1 - PathBit[s][d] \in {0, 1}
    BY <1>1, Bits
  <2>2. /\ g[x] = [b[x] EXCEPT !.child[PathBit[s][d]] = ret[d + 1], !.cache = None]
        /\ b[x] = [kind |-> "internal", child |-> h[x].child, cache |-> h[x].cache]
        /\ h[x].child \in [{0, 1} -> Ref(h)]
    BY <1>5, <1>6
  <2>3. g[x] = [kind |-> "internal", child |-> [h[x].child EXCEPT ![PathBit[s][d]] = ret[d + 1]],
                cache |-> None]
    <3> DEFINE o == [kind |-> "internal", child |-> h[x].child, cache |-> h[x].cache]
    <3>1. g[x] = [o EXCEPT !.child[PathBit[s][d]] = ret[d + 1], !.cache = None]
      BY <2>2
    <3>2. o.child = h[x].child
      OBVIOUS
    <3>3. [o EXCEPT !.child = [o.child EXCEPT ![PathBit[s][d]] = ret[d + 1]]] =
          [kind |-> "internal", child |-> [h[x].child EXCEPT ![PathBit[s][d]] = ret[d + 1]],
           cache |-> h[x].cache]
      OBVIOUS
    <3>4. QED
      BY <3>1, <3>3
  <2>4. h[x].child = [c \in {0, 1} |-> h[x].child[c]]
    BY <2>2
  <2>5. g[x].child = [h[x].child EXCEPT ![PathBit[s][d]] = ret[d + 1]] /\ g[x].cache = None
    BY <2>3
  <2>6. QED
    BY <2>1, <2>3, <2>4, <2>5
<1>7. \A x \in Objects(b) : OnWay(x) \/ ~ OnWay(x)
  OBVIOUS
<1>8. Objects(g) = Objects(b)
  <2>1. ASSUME NEW x \in Id PROVE g[x] # Free <=> b[x] # Free
    <3>1. CASE OnWay(x)
      <4>1. PICK d \in 0..(k - 1) : x = f[Path(s, d)]
        BY <3>1
      <4>2. /\ g[x] = [kind |-> "internal", child |-> g[x].child, cache |-> None]
            /\ b[x] = [kind |-> "internal", child |-> h[x].child, cache |-> h[x].cache]
        BY <1>5, <1>6, <4>1
      <4>4. g[x].kind = "internal" /\ b[x].kind = "internal"
        BY <4>2
      <4>3. Free.kind = "free"
        BY DEF Free
      <4>5. QED
        BY <4>3, <4>4
    <3>2. CASE ~ OnWay(x)
      BY <1>4, <3>2
    <3>3. QED
      BY <3>1, <3>2
  <2>2. QED
    BY <2>1 DEF Objects
<1>9. Ref(g) = Ref(b)
  BY <1>8 DEF Ref
<1>10. ASSUME NEW x \in Objects(g) PROVE SoundStem(g, x) \/ SoundInternal(g, x)
  <2>1. x \in Objects(b) /\ x \in Id /\ (SoundStem(b, x) \/ SoundInternal(b, x))
    BY <1>0, <1>3, <1>8 DEF Sound
  <2>2. CASE ~ OnWay(x)
    <3>1. g[x] = b[x]
      BY <1>4, <2>1, <2>2
    <3>2. QED
      BY <1>9, <2>1, <3>1 DEF SoundStem, SoundInternal
  <2>3. CASE OnWay(x)
    <3>1. PICK d \in 0..(k - 1) : x = f[Path(s, d)]
      BY <2>3
    <3>2. /\ g[x] = [kind |-> "internal", child |-> g[x].child, cache |-> None]
          /\ g[x].child = [[c \in {0, 1} |-> h[x].child[c]] EXCEPT ![PathBit[s][d]] = ret[d + 1]]
      BY <1>6, <3>1
    <3>3. /\ x[1] = Path(s, d) /\ SoundInternal(h, x) /\ d \in 0..(Depth - 1) /\ d + 1 \in 0..k
      BY <1>1, <3>1
    <3>4. ret[d + 1] \in Ref(b) /\ Fits(ret[d + 1], Path(s, d + 1)) /\ Ref(h) \subseteq Ref(b)
      BY <1>0, <3>3 DEF Ref
    <3>5. PathBit[s][d] \in {0, 1} /\ Child(x[1], PathBit[s][d]) = Path(s, d + 1)
      BY <3>3, Bits, PathChild
    <3>6. ASSUME NEW c \in {0, 1}
          PROVE  g[x].child[c] \in Ref(b) /\ Fits(g[x].child[c], Child(x[1], c))
      <4>1. CASE c = PathBit[s][d]
        <5>1. g[x].child[c] = ret[d + 1]
          BY <3>2, <3>5, <4>1
        <5>2. QED
          BY <3>4, <3>5, <4>1, <5>1
      <4>2. CASE c # PathBit[s][d]
        <5>1. g[x].child[c] = h[x].child[c]
          BY <3>2, <4>2
        <5>2. h[x].child[c] \in Ref(h) /\ Fits(h[x].child[c], Child(x[1], c))
          BY <3>3 DEF SoundInternal
        <5>3. QED
          BY <3>4, <5>1, <5>2
      <4>3. QED
        BY <4>1, <4>2
    <3>7. g[x].child \in [{0, 1} -> Ref(b)]
      <4>1. g[x].child = [c \in {0, 1} |-> g[x].child[c]]
        BY <3>2
      <4>2. QED
        BY <3>6, <4>1
    <3>8. QED
      BY <1>9, <3>2, <3>3, <3>6, <3>7 DEF SoundInternal
  <2>4. QED
    BY <2>2, <2>3
<1>11. Sound(g)
  <2>1. g = [x \in Id |-> g[x]]
    BY <1>2
  <2>2. QED
    BY <1>10, <2>1 DEF Sound
<1>12. \A d \in 0..(k - 1) : LET x == f[Path(s, d)]
                             IN  /\ g[x].child[PathBit[s][d]] = ret[d + 1]
                                 /\ g[x].child[1 - PathBit[s][d]] = h[x].child[1 - PathBit[s][d]]
                                 /\ g[x].cache = None
  <2>1. TAKE d \in 0..(k - 1)
  <2> DEFINE x == f[Path(s, d)]
  <2>2. /\ g[x] = [kind |-> "internal", child |-> g[x].child, cache |-> None]
        /\ g[x].child[PathBit[s][d]] = ret[d + 1]
        /\ g[x].child[1 - PathBit[s][d]] = h[x].child[1 - PathBit[s][d]]
    BY <1>6
  <2> HIDE DEF x
  <2>3. g[x].cache = None
    BY <2>2
  <2>4. QED
    BY <2>2, <2>3 DEF x
<1>13. \A x \in Objects(b) : (\A d \in 0..(k - 1) : x # f[Path(s, d)]) => g[x] = b[x]
  BY <1>3, <1>4
<1>14. QED
  BY <1>8, <1>11, <1>12, <1>13 DEF g, k, f
\* The frames return no InternalNode but those of the path.  Where one returns
\* something else, nothing else was left below it: the same holds for the frame
\* below, and no InternalNode is beside the path.
Hanging(h, r, s, b, ret) ==
  LET k == Stop(h, r, s)
      f == Refs(h, r)
  IN  /\ ~ Inner(ret[k])
      /\ \A d \in 0..(k - 1) :
           IF Inner(ret[d]) THEN ret[d] = f[Path(s, d)]
           ELSE ~ Inner(ret[d + 1]) /\ ~ Inner(f[Sibling(s, d + 1)])
      /\ \A d \in 0..k : ret[d] # Nil /\ ~ Inner(ret[d]) =>
           IF ret[d][1] = s THEN b[ret[d]].cache = None ELSE ret[d] \in Reach(h, {r})

\* The references of the new tree.
Dropped(s, k, ret, p) ==
  \E d \in 1..k : p \in {Path(s, d), Sibling(s, d)} /\ ~ Inner(ret[d - 1])

Rewired(h, r, s, ret) ==
  [p \in Position |->
     IF Dropped(s, Stop(h, r, s), ret, p) THEN Nil
     ELSE IF Through(s, p) /\ Size(p) \in 0..Stop(h, r, s) THEN ret[Size(p)]
     ELSE Refs(h, r)[p]]

LEMMA DroppedIs ==
  ASSUME NEW s \in Stem, NEW k \in 0..Depth, NEW ret, NEW p \in Position
  PROVE  /\ Size(p) = 0 => ~ Dropped(s, k, ret, p)
         /\ \A d \in 0..(Depth - 1) : p \in {Path(s, d + 1), Sibling(s, d + 1)} =>
              (Dropped(s, k, ret, p) <=> d < k /\ ~ Inner(ret[d]))
         /\ Size(p) # 0 /\ ~ Through(s, Up(p)) => ~ Dropped(s, k, ret, p)
<1>1. \A e \in 1..k : e \in 1..Depth /\ e \in 0..Depth /\ e - 1 \in 0..(Depth - 1) /\ (e - 1) + 1 = e
  BY DepthIsNat
<1>2. ASSUME NEW e \in 1..k, p \in {Path(s, e), Sibling(s, e)}
      PROVE  Size(p) = e /\ e # 0 /\ Through(s, Up(p))
  <2>1. Size(p) = e
    BY <1>1, <1>2, PathIs, SiblingIs
  <2>2. Path(s, e - 1) \in Position /\ Up(p) = Path(s, e - 1) /\ e - 1 \in 0..Depth
    BY <1>1, <1>2, PathStep
  <2>3. QED
    BY <2>1, <2>2, ThroughIs
<1>3. ASSUME NEW d \in 0..(Depth - 1), p \in {Path(s, d + 1), Sibling(s, d + 1)}
      PROVE  Dropped(s, k, ret, p) <=> d < k /\ ~ Inner(ret[d])
  <2>1. Size(p) = d + 1 /\ d \in Nat /\ (d + 1) - 1 = d
    <3>1. d + 1 \in 1..Depth /\ d + 1 \in 0..Depth
      BY DepthIsNat
    <3>2. QED
      BY <1>3, <3>1, PathIs, SiblingIs
  <2>2. ASSUME Dropped(s, k, ret, p) PROVE d < k /\ ~ Inner(ret[d])
    <3>1. PICK e \in 1..k : p \in {Path(s, e), Sibling(s, e)} /\ ~ Inner(ret[e - 1])
      BY <2>2 DEF Dropped
    <3>2. Size(p) = e
      BY <1>2, <3>1
    <3>3. e = d + 1 /\ e - 1 = d /\ d < k
      BY <2>1, <3>2
    <3>4. QED
      BY <3>1, <3>3
  <2>3. ASSUME d < k, ~ Inner(ret[d]) PROVE Dropped(s, k, ret, p)
    <3>1. d + 1 \in 1..k
      BY <2>1, <2>3
    <3>2. QED
      BY <1>3, <2>1, <2>3, <3>1 DEF Dropped
  <2>4. QED
    BY <2>2, <2>3
<1>4. QED
  BY <1>2, <1>3 DEF Dropped

LEMMA RewiredIs ==
  ASSUME NEW h, Sound(h), NEW r, IsRoot(h, r), NEW s \in Stem, NEW b, NEW ret,
         Rising(h, r, s, b, ret), Hanging(h, r, s, b, ret)
  PROVE  \A p \in Position : Refs(Risen(h, r, s, b, ret), ret[0])[p] = Rewired(h, r, s, ret)[p]
<1> DEFINE g == Risen(h, r, s, b, ret)
           k == Stop(h, r, s)
           f == Refs(h, r)
           F == Rewired(h, r, s, ret)
<1>1. /\ k \in 0..Depth /\ k \in Nat
      /\ ~ IsInternal(h, f[Path(s, k)])
  BY StopIs, DepthIsNat
<1>2. /\ Sound(g) /\ Objects(g) = Objects(b) /\ Ref(h) \subseteq Ref(b) /\ Ref(g) = Ref(b)
      /\ \A d \in 0..k : ret[d] \in Ref(g)
      /\ \A x \in Objects(h) : x[1] # s => b[x] = h[x]
      /\ Objects(h) \subseteq Objects(b)
      /\ \A x \in Objects(b) : (\A d \in 0..(k - 1) : x # f[Path(s, d)]) => g[x] = b[x]
      /\ \A d \in 0..(k - 1) :
                  /\ g[f[Path(s, d)]].child[PathBit[s][d]] = ret[d + 1]
                  /\ g[f[Path(s, d)]].child[1 - PathBit[s][d]] = h[f[Path(s, d)]].child[1 - PathBit[s][d]]
  BY RelinkedIs DEF Rising, Ref
<1>3. /\ ~ Inner(ret[k])
      /\ \A d \in 0..(k - 1) :
           IF Inner(ret[d]) THEN ret[d] = f[Path(s, d)]
           ELSE ~ Inner(ret[d + 1]) /\ ~ Inner(f[Sibling(s, d + 1)])
  BY DEF Hanging
<1>4. \A p \in Position : /\ Dropped(s, k, ret, p) => F[p] = Nil
                          /\ ~ Dropped(s, k, ret, p) /\ Through(s, p) /\ Size(p) \in 0..k =>
                               F[p] = ret[Size(p)]
                          /\ ~ Dropped(s, k, ret, p) /\ ~ (Through(s, p) /\ Size(p) \in 0..k) =>
                               F[p] = f[p]
  BY DEF Rewired
<1>5. /\ \A x \in Ref(g) : IsInternal(g, x) <=> Inner(x)
      /\ \A x \in Ref(h) : IsInternal(h, x) <=> Inner(x)
      /\ ~ Inner(Nil) /\ ~ IsInternal(g, Nil)
  BY <1>2, InnerIs, NilIsNoObject DEF Inner
<1>6. \A p \in Position : f[p] \in Ref(h)
  BY RefsAreRefs DEF IsRoot
<1>7. \A p \in Position : Size(p) # 0 =>
        f[p] = IF IsInternal(h, f[Up(p)]) THEN h[f[Up(p)]].child[Turn(p)] ELSE Nil
  BY RefsStep
<1>8. \A d \in 0..Depth : k < d => f[Path(s, d)] = Nil
  BY Descent
<1>9. \A d \in 0..(k - 1) :
           /\ d \in 0..(Depth - 1) /\ d \in 0..Depth /\ d + 1 \in 0..k
           /\ f[Path(s, d)] \in Objects(h) /\ Inner(f[Path(s, d)])
           /\ f[Sibling(s, d + 1)] = h[f[Path(s, d)]].child[1 - PathBit[s][d]]
           /\ f[Path(s, d)][1] = Path(s, d)
  BY WalkIs
<1>10. \A p \in Position : IsInternal(h, f[p]) => f[p] \in Objects(h) /\ f[p][1] = p
  BY RefsInternal
<1>11. \A p \in Position : Size(p) \in Nat
  BY PositionSize
<1> HIDE DEF g, k, f, F
<1>12. ASSUME NEW p \in Position, Size(p) = 0 PROVE F[p] = RefOver(g, ret[0], F, p)
  <2>1. Path(s, 0) \in Position /\ Size(Path(s, 0)) = 0 /\ 0 \in 0..Depth
    BY PathIs, DepthIsNat
  <2>2. p = Path(s, 0)
    BY <1>12, <2>1, NoBits
  <2>3. Through(s, p) /\ ~ Dropped(s, k, ret, p)
    BY <1>1, <1>12, <2>1, <2>2, ThroughIs, DroppedIs
  <2>4. Size(p) \in 0..k
    BY <1>1, <1>12
  <2>5. F[p] = ret[0]
    BY <1>4, <1>12, <2>3, <2>4
  <2>6. QED
    BY <1>12, <2>5 DEF RefOver
<1>13. ASSUME NEW p \in Position, Size(p) # 0, Through(s, Up(p))
       PROVE  F[p] = IF IsInternal(g, F[Up(p)]) THEN g[F[Up(p)]].child[Turn(p)] ELSE Nil
  <2>1. PICK d \in 0..(Depth - 1) :
           /\ Up(p) = Path(s, d) /\ Size(p) = d + 1
           /\ \/ p = Path(s, d + 1) /\ Turn(p) = PathBit[s][d]
              \/ p = Sibling(s, d + 1) /\ Turn(p) = 1 - PathBit[s][d]
    BY <1>13, BesidePath
  <2>2. /\ Up(p) \in Position /\ Size(Up(p)) = d /\ Through(s, Up(p))
        /\ d \in 0..Depth /\ d + 1 \in 0..Depth /\ d \in Nat
    <3>1. d \in 0..Depth /\ d + 1 \in 0..Depth /\ d \in Nat
      BY DepthIsNat
    <3>2. QED
      BY <1>13, <2>1, <3>1, PathIs
  <2>3. Dropped(s, k, ret, p) <=> d < k /\ ~ Inner(ret[d])
    BY <1>1, <2>1, DroppedIs
  <2>4. ASSUME d < k, Inner(ret[d]) PROVE ~ Dropped(s, k, ret, Up(p))
    <3>1. CASE d = 0
      BY <1>1, <2>2, <3>1, DroppedIs
    <3>2. CASE d # 0
      <4>1. d - 1 \in 0..(k - 1) /\ d - 1 \in 0..(Depth - 1) /\ (d - 1) + 1 = d
        BY <1>1, DepthIsNat, <2>2, <2>4, <3>2
      <4>2. Inner(ret[d - 1])
        BY <1>3, <2>4, <4>1
      <4>3. Up(p) = Path(s, (d - 1) + 1)
        BY <2>1, <4>1
      <4>4. QED
        BY <1>1, <2>2, <4>1, <4>2, <4>3, DroppedIs
    <3>3. QED
      BY <3>1, <3>2
  <2>5. CASE d < k /\ Inner(ret[d])
    <3>1. d \in 0..k /\ d \in 0..(k - 1) /\ d + 1 \in 0..k
      BY <1>1, <2>2, <2>5
    <3>2. F[Up(p)] = ret[d] /\ ret[d] = f[Path(s, d)] /\ IsInternal(g, F[Up(p)])
      BY <1>2, <1>3, <1>4, <1>5, <2>2, <2>4, <2>5, <3>1
    <3>3. CASE p = Path(s, d + 1) /\ Turn(p) = PathBit[s][d]
      <4>1. Through(s, p)
        BY <2>2, <3>3, ThroughIs
      <4>2. F[p] = ret[d + 1]
        BY <1>4, <2>1, <2>3, <2>5, <3>1, <4>1
      <4>3. g[F[Up(p)]].child[Turn(p)] = ret[d + 1]
        BY <1>2, <3>1, <3>2, <3>3
      <4>4. QED
        BY <3>2, <4>2, <4>3
    <3>4. CASE p = Sibling(s, d + 1) /\ Turn(p) = 1 - PathBit[s][d]
      <4>1. ~ Through(s, p)
        BY <3>4, SiblingOff
      <4>2. F[p] = f[p]
        BY <1>4, <2>3, <2>5, <4>1
      <4>3. g[F[Up(p)]].child[Turn(p)] = h[f[Path(s, d)]].child[1 - PathBit[s][d]]
        BY <1>2, <3>1, <3>2, <3>4
      <4>4. f[p] = h[f[Path(s, d)]].child[1 - PathBit[s][d]]
        BY <1>9, <3>1, <3>4
      <4>5. QED
        BY <3>2, <4>2, <4>3, <4>4
    <3>5. QED
      BY <2>1, <3>3, <3>4
  <2>6. CASE ~ (d < k /\ Inner(ret[d]))
    <3>1. F[Up(p)] \in Ref(g) /\ ~ Inner(F[Up(p)])
      <4>1. CASE Dropped(s, k, ret, Up(p))
        BY <1>4, <1>5, <2>2, <4>1 DEF Ref
      <4>2. CASE ~ Dropped(s, k, ret, Up(p)) /\ d \in 0..k
        <5>1. F[Up(p)] = ret[d]
          BY <1>4, <2>2, <4>2
        <5>2. d < k \/ d = k
          BY <1>1, <4>2
        <5>3. QED
          BY <1>2, <1>3, <2>6, <4>2, <5>1, <5>2
      <4>3. CASE ~ Dropped(s, k, ret, Up(p)) /\ d \notin 0..k
        <5>1. F[Up(p)] = f[Path(s, d)]
          BY <1>4, <2>1, <2>2, <4>3
        <5>2. k < d
          BY <1>1, <2>2, <4>3
        <5>3. QED
          BY <1>5, <1>8, <2>2, <5>1, <5>2 DEF Ref
      <4>4. QED
        BY <4>1, <4>2, <4>3
    <3>2. F[p] = Nil
      <4>1. CASE d < k
        BY <1>4, <2>3, <2>6, <4>1
      <4>2. CASE ~ (d < k)
        <5>1. ~ (Size(p) \in 0..k)
          BY <1>1, <2>1, <2>2, <4>2
        <5>2. F[p] = f[p]
          BY <1>4, <2>3, <4>2, <5>1
        <5>3. ~ IsInternal(h, f[Path(s, d)])
          <6>1. d = k \/ k < d
            BY <1>1, <2>2, <4>2
          <6>2. QED
            BY <1>1, <1>8, <2>2, <6>1, NilIsNoObject
        <5>4. f[p] = Nil
          BY <1>7, <1>13, <2>1, <5>3
        <5>5. QED
          BY <5>2, <5>4
      <4>3. QED
        BY <4>1, <4>2
    <3>3. QED
      BY <1>5, <3>1, <3>2
  <2>7. QED
    BY <2>5, <2>6
<1>14. ASSUME NEW p \in Position, Size(p) # 0, ~ Through(s, Up(p))
       PROVE  F[p] = IF IsInternal(g, F[Up(p)]) THEN g[F[Up(p)]].child[Turn(p)] ELSE Nil
  <2>1. ~ Through(s, p) /\ ~ Dropped(s, k, ret, p) /\ Up(p) \in Position
    BY <1>1, <1>14, ThroughUp, DroppedIs, UpIs
  <2>2. F[p] = f[p]
    BY <1>4, <2>1
  <2>3. CASE Dropped(s, k, ret, Up(p))
    <3>1. PICK e \in 1..k : Up(p) \in {Path(s, e), Sibling(s, e)} /\ ~ Inner(ret[e - 1])
      BY <2>3 DEF Dropped
    <3>2. e \in 0..Depth /\ e - 1 \in 0..(k - 1) /\ (e - 1) + 1 = e
      BY <1>1, DepthIsNat
    <3>3. Up(p) = Sibling(s, e)
      BY <1>14, <2>1, <3>1, <3>2, ThroughIs
    <3>4. ~ Inner(f[Up(p)])
      BY <1>3, <3>1, <3>2, <3>3
    <3>5. f[p] = Nil
      BY <1>5, <1>6, <1>7, <1>14, <2>1, <3>4
    <3>6. F[Up(p)] = Nil
      BY <1>4, <2>1, <2>3
    <3>7. QED
      BY <1>5, <2>2, <3>5, <3>6
  <2>4. CASE ~ Dropped(s, k, ret, Up(p))
    <3>1. F[Up(p)] = f[Up(p)]
      BY <1>4, <1>14, <2>1, <2>4
    <3>2. f[Up(p)] \in Ref(h) /\ f[Up(p)] \in Ref(g)
      BY <1>2, <1>6, <2>1
    <3>3. CASE Inner(f[Up(p)])
      <4>1. f[Up(p)] \in Objects(h) /\ f[Up(p)][1] = Up(p) /\ IsInternal(h, f[Up(p)])
        BY <1>5, <1>10, <2>1, <3>2, <3>3
      <4>2. f[Up(p)][1] # s
        BY <2>1, <4>1, NamesAssumption
      <4>3. \A d \in 0..(k - 1) : f[Up(p)] # f[Path(s, d)]
        BY <1>9, <1>14, <2>1, <4>1, ThroughIs
      <4>4. g[f[Up(p)]] = h[f[Up(p)]]
        BY <1>2, <4>1, <4>2, <4>3
      <4>5. QED
        BY <1>5, <1>7, <1>14, <2>2, <3>1, <3>2, <4>1, <4>4
    <3>4. CASE ~ Inner(f[Up(p)])
      BY <1>5, <1>7, <1>14, <2>2, <3>1, <3>2, <3>4
    <3>5. QED
      BY <3>3, <3>4
  <2>5. QED
    BY <2>3, <2>4
<1>15. \A p \in Position : F[p] = RefOver(g, ret[0], F, p)
  <2>1. ASSUME NEW p \in Position, Size(p) # 0 PROVE F[p] = RefOver(g, ret[0], F, p)
    <3>1. F[p] = IF IsInternal(g, F[Up(p)]) THEN g[F[Up(p)]].child[Turn(p)] ELSE Nil
      BY <1>13, <1>14, <2>1
    <3>2. QED
      BY <2>1, <3>1 DEF RefOver
  <2>2. QED
    BY <1>12, <2>1
<1>16. \A p \in Position : Refs(g, ret[0])[p] = F[p]
  BY <1>15, RefsUnique
<1>17. QED
  BY <1>16 DEF g, F
-----------------------------------------------------------------------------
(* What a call for one stem leaves: the heap g before anything is reclaimed,   *)
(* and the reference q it returns                                              *)

Stepped(h, r, s, g, q) ==
  /\ Sound(g) /\ Objects(h) \subseteq Objects(g) /\ IsRoot(g, q)
  /\ \A x \in Objects(h) : ~ On(s, x) => g[x] = h[x]
  /\ \A p \in Position : Refs(g, q)[p] # Nil =>
       IF On(s, Refs(g, q)[p]) THEN g[Refs(g, q)[p]].cache = None
       ELSE Refs(g, q)[p] \in Reach(h, {r})

LEMMA NodeOfIs ==
  ASSUME NEW h, Sound(h), NEW x \in Ref(h)
  PROVE  NodeOf(h, x) = IF x = Nil THEN Empty
                        ELSE IF Inner(x) THEN Internal
                        ELSE StemNode(x[1], h[x].values)
<1>1. /\ IsInternal(h, x) <=> Inner(x)
      /\ IsStemObj(h, x) <=> x # Nil /\ ~ Inner(x)
      /\ x # Nil => x \in Objects(h)
  BY InnerIs
<1>2. CASE x = Nil
  BY <1>1, <1>2, NilIsNoObject DEF NodeOf
<1>3. CASE Inner(x)
  BY <1>1, <1>3 DEF NodeOf, Inner
<1>4. CASE x # Nil /\ ~ Inner(x)
  <2>1. SoundStem(h, x)
    BY <1>1, <1>4, Kinds
  <2>2. h[x].prefix = x[1]
    BY <2>1 DEF SoundStem
  <2>3. NodeOf(h, x) = StemNode(h[x].prefix, h[x].values)
    BY <1>1, <1>4 DEF NodeOf
  <2>4. QED
    BY <1>4, <2>2, <2>3
<1>5. QED
  BY <1>2, <1>3, <1>4 DEF Inner

LEMMA RewiredStepped ==
  ASSUME NEW h, Sound(h), NEW r, IsRoot(h, r), NEW s \in Stem, NEW b, NEW ret,
         Rising(h, r, s, b, ret), Hanging(h, r, s, b, ret)
  PROVE  Stepped(h, r, s, Risen(h, r, s, b, ret), ret[0])
<1> DEFINE g == Risen(h, r, s, b, ret)
           k == Stop(h, r, s)
           f == Refs(h, r)
<1>1. k \in 0..Depth /\ k \in Nat /\ 0 \in 0..k
  BY StopIs, DepthIsNat
<1>2. /\ Sound(g) /\ Objects(g) = Objects(b) /\ Ref(h) \subseteq Ref(b) /\ Ref(g) = Ref(b)
      /\ \A d \in 0..k : ret[d] \in Ref(g) /\ Fits(ret[d], Path(s, d))
      /\ \A x \in Objects(h) : x[1] # s => b[x] = h[x]
      /\ Objects(h) \subseteq Objects(b)
      /\ \A x \in Objects(b) : (\A d \in 0..(k - 1) : x # f[Path(s, d)]) => g[x] = b[x]
      /\ \A d \in 0..(k - 1) : g[f[Path(s, d)]].cache = None
  BY RelinkedIs DEF Rising, Ref
<1>3. /\ ~ Inner(ret[k])
      /\ \A d \in 0..(k - 1) :
           IF Inner(ret[d]) THEN ret[d] = f[Path(s, d)]
           ELSE ~ Inner(ret[d + 1]) /\ ~ Inner(f[Sibling(s, d + 1)])
      /\ \A d \in 0..k : ret[d] # Nil /\ ~ Inner(ret[d]) =>
           IF ret[d][1] = s THEN b[ret[d]].cache = None ELSE ret[d] \in Reach(h, {r})
  BY DEF Hanging
<1>4. \A d \in 0..(k - 1) :
           /\ d \in 0..(Depth - 1) /\ d \in 0..Depth
           /\ f[Path(s, d)] \in Objects(h) /\ Inner(f[Path(s, d)])
           /\ f[Path(s, d)][1] = Path(s, d)
  BY WalkIs
<1>5. \A p \in Position : Refs(g, ret[0])[p] = Rewired(h, r, s, ret)[p]
  BY RewiredIs
<1>6. IsRoot(g, ret[0])
  <2>1. ASSUME NEW p \in Position, Size(p) = 0 PROVE Fits(ret[0], p)
    <3>1. 0 \in 0..Depth /\ Path(s, 0) \in Position /\ Size(Path(s, 0)) = 0
      BY PathIs, DepthIsNat
    <3>2. p = Path(s, 0)
      BY <2>1, <3>1, NoBits
    <3>3. QED
      BY <1>1, <1>2, <3>2
  <2>2. QED
    BY <1>1, <1>2, <2>1 DEF IsRoot
<1>7. ASSUME NEW x \in Objects(h), ~ On(s, x) PROVE g[x] = h[x]
  <2>1. x[1] # s /\ \A d \in 0..Depth : x[1] # Path(s, d)
    BY <1>7, PathIs, ThroughIs DEF On
  <2>2. \A d \in 0..(k - 1) : x # f[Path(s, d)]
    BY <1>4, <2>1
  <2>3. QED
    BY <1>2, <2>1, <2>2
<1>8. ASSUME NEW p \in Position, Refs(g, ret[0])[p] # Nil
      PROVE  IF On(s, Refs(g, ret[0])[p]) THEN g[Refs(g, ret[0])[p]].cache = None
             ELSE Refs(g, ret[0])[p] \in Reach(h, {r})
  <2> DEFINE x == Refs(g, ret[0])[p]
  <2>1. ~ Dropped(s, k, ret, p) /\ x = Rewired(h, r, s, ret)[p]
    BY <1>5, <1>8 DEF Rewired
  <2>2. CASE Through(s, p) /\ Size(p) \in 0..k
    <3> DEFINE d == Size(p)
    <3>1. x = ret[d] /\ d \in 0..k
      BY <2>1, <2>2 DEF Rewired
    <3>2. x \in Ref(g) /\ x # Nil
      BY <1>2, <1>8, <3>1
    <3> HIDE DEF x, d
    <3>3. CASE Inner(x)
      <4>1. d # k
        BY <1>3, <3>1, <3>3
      <4>2. d \in 0..(k - 1)
        BY <1>1, <3>1, <4>1
      <4>3. x = f[Path(s, d)]
        BY <1>3, <3>1, <3>3, <4>2
      <4>4. x[1] = Path(s, d) /\ d \in 0..Depth /\ g[x].cache = None
        BY <1>2, <1>4, <4>2, <4>3
      <4>5. On(s, x)
        BY <4>4, PathIs, ThroughIs DEF On
      <4>6. QED
        BY <4>4, <4>5 DEF x
    <3>4. CASE ~ Inner(x)
      <4>1. IF x[1] = s THEN b[x].cache = None ELSE x \in Reach(h, {r})
        BY <1>3, <3>1, <3>2, <3>4
      <4>2. \A e \in 0..(k - 1) : x # f[Path(s, e)]
        BY <1>4, <3>4
      <4>3. g[x] = b[x]
        BY <1>2, <3>2, <4>2 DEF Ref
      <4>4. On(s, x) <=> x[1] = s
        BY <3>2, <3>4 DEF On, Inner
      <4>5. QED
        BY <4>1, <4>3, <4>4 DEF x
    <3>5. QED
      BY <3>3, <3>4
  <2>3. CASE ~ (Through(s, p) /\ Size(p) \in 0..k)
    <3>1. x = f[p]
      BY <2>1, <2>3 DEF Rewired
    <3>2. ~ On(s, x)
      <4>1. SUFFICES ASSUME On(s, f[p]) PROVE FALSE
        BY <3>1
      <4>2. f[p] # Nil
        BY <1>8, <3>1
      <4>3. p = Path(s, Size(p)) /\ Size(p) \in 0..k
        BY <4>1, <4>2, OnPath
      <4>4. QED
        BY <2>3, <4>3 DEF Through
    <3>3. x \in Reach(h, {r})
      BY <1>8, <3>1 DEF Reach
    <3>4. QED
      BY <3>2, <3>3
  <2>4. QED
    BY <2>2, <2>3
<1>9. QED
  BY <1>2, <1>6, <1>7, <1>8 DEF Stepped

\* The tree of the heap that is left.
LEMMA RewiredFlat ==
  ASSUME NEW h, Sound(h), NEW r, IsRoot(h, r), NEW s \in Stem, NEW b, NEW ret,
         Rising(h, r, s, b, ret), Hanging(h, r, s, b, ret), NEW p \in Position
  PROVE  Flat(Risen(h, r, s, b, ret), ret[0])[p] =
           IF Dropped(s, Stop(h, r, s), ret, p) THEN Empty
           ELSE IF Through(s, p) /\ Size(p) \in 0..Stop(h, r, s) THEN NodeOf(b, ret[Size(p)])
           ELSE Flat(h, r)[p]
<1> DEFINE g == Risen(h, r, s, b, ret)
           k == Stop(h, r, s)
           f == Refs(h, r)
           x == Rewired(h, r, s, ret)[p]
<1>1. k \in 0..Depth /\ k \in Nat /\ Sound(b)
  BY StopIs, DepthIsNat DEF Rising
<1>2. /\ Sound(g) /\ Objects(g) = Objects(b) /\ Ref(h) \subseteq Ref(b) /\ Ref(g) = Ref(b)
      /\ \A d \in 0..k : ret[d] \in Ref(g)
      /\ \A y \in Objects(h) : y[1] # s => b[y] = h[y]
      /\ \A y \in Objects(b) : (\A d \in 0..(k - 1) : y # f[Path(s, d)]) => g[y] = b[y]
  BY RelinkedIs DEF Rising, Ref
<1>3. \A d \in 0..(k - 1) : Inner(f[Path(s, d)])
  BY WalkIs
<1>4. Flat(g, ret[0])[p] = NodeOf(g, x) /\ Flat(h, r)[p] = NodeOf(h, f[p])
  BY RewiredIs DEF Flat
<1>5. /\ \A y \in Ref(g) : NodeOf(g, y) = IF y = Nil THEN Empty
                                          ELSE IF Inner(y) THEN Internal
                                          ELSE StemNode(y[1], g[y].values)
      /\ \A y \in Ref(b) : NodeOf(b, y) = IF y = Nil THEN Empty
                                          ELSE IF Inner(y) THEN Internal
                                          ELSE StemNode(y[1], b[y].values)
      /\ \A y \in Ref(h) : NodeOf(h, y) = IF y = Nil THEN Empty
                                          ELSE IF Inner(y) THEN Internal
                                          ELSE StemNode(y[1], h[y].values)
  BY <1>1, <1>2, NodeOfIs
<1>6. \A y \in Ref(b) : NodeOf(g, y) = NodeOf(b, y)
  <2>1. TAKE y \in Ref(b)
  <2>2. ASSUME y # Nil, ~ Inner(y) PROVE g[y] = b[y]
    BY <1>2, <1>3, <2>2 DEF Ref
  <2>3. QED
    BY <1>2, <1>5, <2>2
<1>7. CASE Dropped(s, k, ret, p)
  <2>1. x = Nil
    BY <1>7 DEF Rewired
  <2>2. NodeOf(g, x) = Empty
    BY <1>5, <2>1 DEF Ref
  <2>3. QED
    BY <1>4, <1>7, <2>2
<1>8. CASE ~ Dropped(s, k, ret, p) /\ Through(s, p) /\ Size(p) \in 0..k
  <2>1. x = ret[Size(p)]
    BY <1>8 DEF Rewired
  <2>2. NodeOf(g, x) = NodeOf(b, ret[Size(p)])
    BY <1>2, <1>6, <1>8, <2>1
  <2>3. QED
    BY <1>4, <1>8, <2>2
<1>9. CASE ~ Dropped(s, k, ret, p) /\ ~ (Through(s, p) /\ Size(p) \in 0..k)
  <2>1. x = f[p]
    BY <1>9 DEF Rewired
  <2>2. f[p] \in Ref(h) /\ f[p] \in Ref(b)
    BY <1>2, RefsAreRefs DEF IsRoot
  <2>3. ASSUME f[p] # Nil, ~ Inner(f[p]) PROVE b[f[p]] = h[f[p]]
    <3>1. f[p] \in Objects(h)
      BY <2>2, <2>3 DEF Ref
    <3>2. f[p][1] # s
      <4>1. SUFFICES ASSUME f[p][1] = s PROVE FALSE
        OBVIOUS
      <4>2. p = Path(s, k)
        BY <2>3, <4>1, StemIsEnd
      <4>3. QED
        BY <1>1, <1>9, <4>2, ThroughIs
    <3>3. QED
      BY <1>2, <3>1, <3>2
  <2>4. NodeOf(b, f[p]) = NodeOf(h, f[p])
    BY <1>5, <2>2, <2>3
  <2>5. NodeOf(g, x) = NodeOf(h, f[p])
    BY <1>6, <2>1, <2>2, <2>4
  <2>6. QED
    BY <1>4, <1>9, <2>5
<1>10. QED
  BY <1>7, <1>8, <1>9
-----------------------------------------------------------------------------
(* insert *)

\* A StemNode is written: a new one, or the one of that name.
Put(h, c, s, vs) == [h EXCEPT ![c] = StemObject(s, vs)]

LEMMA PutStem ==
  ASSUME NEW h, Sound(h), NEW s \in Stem, NEW c \in Id, c[1] = s, NEW vs \in Leaves
  PROVE  /\ Sound(Put(h, c, s, vs)) /\ Objects(Put(h, c, s, vs)) = Objects(h) \cup {c}
         /\ Put(h, c, s, vs)[c] = StemObject(s, vs)
         /\ \A x \in Objects(h) : x # c => Put(h, c, s, vs)[x] = h[x]
<1> DEFINE b == Put(h, c, s, vs)
<1>1. h = [x \in Id |-> h[x]] /\ \A x \in Objects(h) : SoundStem(h, x) \/ SoundInternal(h, x)
  BY DEF Sound
<1>2. b[c] = StemObject(s, vs) /\ \A x \in Id : x # c => b[x] = h[x]
  BY <1>1 DEF Put
<1>3. b = [x \in Id |-> b[x]]
  BY <1>1 DEF Put
<1> HIDE DEF b
<1>4. b[c] # Free
  <2>1. StemObject(s, vs).kind = "stem" /\ Free.kind = "free"
    BY DEF StemObject, Free
  <2>2. QED
    BY <1>2, <2>1
<1>5. Objects(b) = Objects(h) \cup {c} /\ Ref(h) \subseteq Ref(b)
  BY <1>2, <1>4 DEF Objects, Ref
<1>6. ASSUME NEW x \in Objects(b) PROVE SoundStem(b, x) \/ SoundInternal(b, x)
  <2>1. CASE x = c
    <3>1. b[x] = [kind |-> "stem", prefix |-> s, values |-> vs, cache |-> None]
      BY <1>2, <2>1 DEF StemObject
    <3>2. QED
      BY <2>1, <3>1 DEF SoundStem
  <2>2. CASE x # c
    <3>1. x \in Objects(h) /\ b[x] = h[x]
      BY <1>2, <1>5, <2>2 DEF Objects
    <3>2. CASE SoundStem(h, x)
      BY <3>1, <3>2 DEF SoundStem
    <3>3. CASE SoundInternal(h, x)
      BY <1>5, <3>1, <3>3 DEF SoundInternal
    <3>4. QED
      BY <1>1, <3>1, <3>2, <3>3
  <2>3. QED
    BY <2>1, <2>2
<1>7. QED
  BY <1>2, <1>3, <1>5, <1>6 DEF Sound, Objects, b

\* Every frame above the end of the path returns its own InternalNode.
Frames(h, r, s, c) ==
  [d \in 0..Stop(h, r, s) |-> IF d = Stop(h, r, s) THEN c ELSE Walk(h, r, s)[d]]

\* Nothing but the StemNode c of s differs in heap b.
Written(h, s, b, c) ==
  /\ Sound(b) /\ Objects(h) \subseteq Objects(b)
  /\ \A x \in Objects(h) : x[1] # s => b[x] = h[x]
  /\ c \in Objects(b) /\ c[1] = s /\ b[c].cache = None

LEMMA StemHangs ==
  ASSUME NEW h, Sound(h), NEW r, IsRoot(h, r), NEW s \in Stem, NEW b, NEW c,
         Written(h, s, b, c)
  PROVE  LET ret == Frames(h, r, s, c)
         IN  /\ Stepped(h, r, s, Risen(h, r, s, b, ret), ret[0])
             /\ Flat(Risen(h, r, s, b, ret), ret[0]) =
                  [Flat(h, r) EXCEPT ![Path(s, Stop(h, r, s))] = NodeOf(b, c)]
<1> DEFINE ret == Frames(h, r, s, c)
           k == Stop(h, r, s)
           f == Refs(h, r)
           g == Risen(h, r, s, b, ret)
<1> /\ Sound(b) /\ Objects(h) \subseteq Objects(b)
    /\ (\A x \in Objects(h) : x[1] # s => b[x] = h[x])
    /\ c \in Objects(b) /\ c[1] = s /\ b[c].cache = None
  BY DEF Written
<1>1. k \in 0..Depth /\ k \in Nat
  BY StopIs, DepthIsNat
<1>2. \A d \in 0..(k - 1) :
           /\ d \in 0..Depth /\ d + 1 \in 0..k /\ d \in 0..k /\ d # k
           /\ Walk(h, r, s)[d] = f[Path(s, d)]
           /\ f[Path(s, d)] \in Objects(h) /\ Inner(f[Path(s, d)])
           /\ f[Path(s, d)][1] = Path(s, d)
  BY <1>1, WalkIs
<1>3. ret[k] = c /\ \A d \in 0..(k - 1) : ret[d] = f[Path(s, d)]
  <2>1. k \in 0..k
    BY <1>1
  <2>2. QED
    BY <1>2, <2>1 DEF Frames
<1>4. \A d \in 0..k : d = k \/ d \in 0..(k - 1)
  BY <1>1
<1>5. ~ Inner(c) /\ c # Nil /\ c \in Ref(b)
  <2>1. c # Nil
    BY NamesAreApart DEF Objects
  <2>2. QED
    BY <2>1, NamesAssumption DEF Inner, Ref
<1>6. Fits(c, Path(s, k))
  BY <1>1, PathIs, ThroughIs DEF Fits
<1>7. \A d \in 0..(k - 1) : f[Path(s, d)] \in Ref(b) /\ Fits(f[Path(s, d)], Path(s, d))
  BY <1>2 DEF Ref, Fits
<1> HIDE DEF ret, k, f
<1>8. Rising(h, r, s, b, ret)
  BY <1>3, <1>4, <1>5, <1>6, <1>7 DEF Rising, k
<1>9. Hanging(h, r, s, b, ret)
  <2>1. \A d \in 0..(k - 1) : Inner(ret[d]) /\ ret[d] = f[Path(s, d)]
    BY <1>2, <1>3
  <2>2. \A d \in 0..k : ret[d] # Nil /\ ~ Inner(ret[d]) => ret[d][1] = s /\ b[ret[d]].cache = None
    BY <1>3, <1>4, <2>1
  <2>3. QED
    BY <1>3, <1>5, <2>1, <2>2 DEF Hanging, k, f
<1>10. ASSUME NEW p \in Position
       PROVE  Flat(g, ret[0])[p] = IF p = Path(s, k) THEN NodeOf(b, c) ELSE Flat(h, r)[p]
  <2>1. ~ Dropped(s, k, ret, p)
    <3>1. \A d \in 1..k : d - 1 \in 0..(k - 1)
      BY <1>1
    <3>2. QED
      BY <1>2, <1>3, <3>1 DEF Dropped
  <2>2. Flat(g, ret[0])[p] = IF Through(s, p) /\ Size(p) \in 0..k THEN NodeOf(b, ret[Size(p)])
                             ELSE Flat(h, r)[p]
    BY <1>8, <1>9, <2>1, RewiredFlat DEF k
  <2>3. CASE p = Path(s, k)
    <3>1. Through(s, p) /\ Size(p) = k /\ k \in 0..k
      BY <1>1, <2>3, ThroughIs
    <3>2. QED
      BY <1>3, <2>2, <2>3, <3>1
  <2>4. CASE p # Path(s, k) /\ Through(s, p) /\ Size(p) \in 0..k
    <3>1. p = Path(s, Size(p)) /\ Size(p) \in 0..(k - 1)
      BY <1>4, <2>4 DEF Through
    <3>2. f[p] \in Objects(h) /\ Inner(f[p]) /\ ret[Size(p)] = f[p]
      BY <1>2, <1>3, <3>1
    <3>3. NodeOf(b, f[p]) = Internal /\ NodeOf(h, f[p]) = Internal
      <4>1. f[p] \in Ref(h) /\ f[p] \in Ref(b) /\ f[p] # Nil
        BY <3>2 DEF Ref, Inner
      <4>2. QED
        BY <3>2, <4>1, NodeOfIs
    <3>4. Flat(h, r)[p] = NodeOf(h, f[p])
      BY DEF Flat, f
    <3>5. QED
      BY <2>2, <2>4, <3>2, <3>3, <3>4
  <2>5. CASE p # Path(s, k) /\ ~ (Through(s, p) /\ Size(p) \in 0..k)
    BY <2>2, <2>5
  <2>6. QED
    BY <2>3, <2>4, <2>5
<1>11. Flat(g, ret[0]) = [Flat(h, r) EXCEPT ![Path(s, k)] = NodeOf(b, c)]
  <2>1. Flat(g, ret[0]) = [p \in Position |-> Flat(g, ret[0])[p]]
    BY DEF Flat
  <2>2. Flat(h, r) = [p \in Position |-> Flat(h, r)[p]]
    BY DEF Flat
  <2> HIDE DEF g
  <2>3. QED
    BY <1>10, <2>1, <2>2
<1>12. Stepped(h, r, s, g, ret[0])
  BY <1>8, <1>9, RewiredStepped
<1>13. QED
  BY <1>11, <1>12 DEF ret, k
Raised(h, r, s, bot) ==
  [heap |-> Risen(h, r, s, bot.heap, Frames(h, r, s, bot.ref)),
   ref  |-> Frames(h, r, s, bot.ref)[0]]

LEMMA InsertedIs ==
  ASSUME NEW h, NEW r, NEW s, NEW i, NEW v
  PROVE  LET x == End(h, r, s)
         IN  /\ x = Nil => Inserted(h, r, s, i, v) = Raised(h, r, s, AtEmpty(h, s, i, v))
             /\ IsStemObj(h, x) /\ h[x].prefix = s =>
                  Inserted(h, r, s, i, v) = Raised(h, r, s, AtOwnStem(h, x, i, v))
             /\ IsStemObj(h, x) /\ h[x].prefix # s =>
                  Inserted(h, r, s, i, v) =
                    Raised(h, r, s, AtOtherStem(h, x, s, i, v, Stop(h, r, s)))
<1> DEFINE x == End(h, r, s)
           k == Stop(h, r, s)
           w == Walk(h, r, s)
           bot == CASE x = Nil                                  -> AtEmpty(h, s, i, v)
                    [] IsStemObj(h, x) /\ h[x].prefix = s       -> AtOwnStem(h, x, i, v)
                    [] IsStemObj(h, x) /\ h[x].prefix # s       -> AtOtherStem(h, x, s, i, v, k)
<1>1. Inserted(h, r, s, i, v) = Raised(h, r, s, bot)
  BY DEF Inserted, Raised, Risen, Frames
<1>2. x = Nil => bot = AtEmpty(h, s, i, v)
  <2> HIDE DEF x, k
  <2>1. SUFFICES ASSUME x = Nil PROVE bot = AtEmpty(h, s, i, v)
    OBVIOUS
  <2>2. ~ IsStemObj(h, x)
    BY <2>1, NilIsNoObject
  <2>3. QED
    BY <2>1, <2>2
<1>3. IsStemObj(h, x) /\ h[x].prefix = s => bot = AtOwnStem(h, x, i, v)
  <2> HIDE DEF x, k
  <2>1. SUFFICES ASSUME IsStemObj(h, x), h[x].prefix = s PROVE bot = AtOwnStem(h, x, i, v)
    OBVIOUS
  <2>2. x # Nil
    BY <2>1, NilIsNoObject
  <2>3. QED
    BY <2>1, <2>2
<1>4. IsStemObj(h, x) /\ h[x].prefix # s => bot = AtOtherStem(h, x, s, i, v, k)
  <2> HIDE DEF x, k
  <2>1. SUFFICES ASSUME IsStemObj(h, x), h[x].prefix # s
                 PROVE  bot = AtOtherStem(h, x, s, i, v, k)
    OBVIOUS
  <2>2. x # Nil
    BY <2>1, NilIsNoObject
  <2>3. QED
    BY <2>1, <2>2
<1> HIDE DEF bot
<1>5. QED
  BY <1>1, <1>2, <1>3, <1>4

\* What holds between the calls: the heap is sound, two roots are held, and
\* nothing else is kept.
HeapIs(h, r, o) ==
  /\ Sound(h) /\ IsRoot(h, r) /\ IsRoot(h, o)
  /\ Objects(h) = Reach(h, {r, o})

LEMMA PlaceIs ==
  ASSUME NEW h, NEW r, NEW o, HeapIs(h, r, o), NEW s \in Stem, NEW i \in Subindex,
         NEW v \in Value, End(h, r, s) = Nil
  PROVE  LET res == Inserted(h, r, s, i, v)
         IN  /\ Stepped(h, r, s, res.heap, res.ref)
             /\ Flat(res.heap, res.ref) =
                  [Flat(h, r) EXCEPT ![Path(s, Stop(h, r, s))] =
                                        StemNode(s, [NoLeaves EXCEPT ![i] = v])]
<1> DEFINE c == Fresh(h, s)
           vs == [NoLeaves EXCEPT ![i] = v]
           b == Put(h, c, s, vs)
<1>1. Sound(h) /\ IsRoot(h, r) /\ IsRoot(h, o) /\ Objects(h) = Reach(h, {r, o})
  BY DEF HeapIs
<1>2. c \in Id /\ c[1] = s /\ c # Nil /\ c \notin Objects(h)
  BY <1>1, FreshStem
<1>3. vs \in Leaves
  BY ConstantAssumption DEF NoLeaves, Leaves
<1>4. Inserted(h, r, s, i, v) = Raised(h, r, s, [heap |-> b, ref |-> c])
  <2>1. Inserted(h, r, s, i, v) = Raised(h, r, s, AtEmpty(h, s, i, v))
    BY InsertedIs
  <2>2. AtEmpty(h, s, i, v) = [heap |-> b, ref |-> c]
    BY DEF AtEmpty, NewStem, Put
  <2>3. QED
    BY <2>1, <2>2
<1> HIDE DEF c, vs
<1>5. /\ Sound(b) /\ Objects(b) = Objects(h) \cup {c}
      /\ b[c] = StemObject(s, vs)
      /\ \A x \in Objects(h) : x # c => b[x] = h[x]
  BY <1>1, <1>2, <1>3, PutStem
<1> HIDE DEF b
<1>6. /\ \A x \in Objects(h) : x[1] # s => b[x] = h[x]
      /\ Objects(h) \subseteq Objects(b) /\ c \in Objects(b)
  BY <1>2, <1>5
<1>7. b[c].cache = None /\ b[c].values = vs
  BY <1>5 DEF StemObject
<1>8. NodeOf(b, c) = StemNode(s, vs)
  BY <1>2, <1>5, <1>6, <1>7, NodeOfIs, NamesAssumption DEF Ref, Inner
<1>9. /\ Stepped(h, r, s, Risen(h, r, s, b, Frames(h, r, s, c)), Frames(h, r, s, c)[0])
      /\ Flat(Risen(h, r, s, b, Frames(h, r, s, c)), Frames(h, r, s, c)[0]) =
                  [Flat(h, r) EXCEPT ![Path(s, Stop(h, r, s))] = NodeOf(b, c)]
  <2>1. Written(h, s, b, c)
    BY <1>2, <1>5, <1>6, <1>7 DEF Written
  <2>2. QED
    BY <1>1, <2>1, StemHangs
<1>10. QED
  BY <1>4, <1>8, <1>9 DEF Raised, vs

LEMMA OverwriteIs ==
  ASSUME NEW h, NEW r, NEW o, HeapIs(h, r, o), NEW s \in Stem, NEW i \in Subindex,
         NEW v \in Value, End(h, r, s) # Nil, h[End(h, r, s)].prefix = s
  PROVE  LET res == Inserted(h, r, s, i, v)
         IN  /\ Stepped(h, r, s, res.heap, res.ref)
             /\ Flat(res.heap, res.ref) =
                  [Flat(h, r) EXCEPT ![Path(s, Stop(h, r, s))] =
                                        StemNode(s, [h[End(h, r, s)].values EXCEPT ![i] = v])]
<1> DEFINE c == End(h, r, s)
           vs == [h[c].values EXCEPT ![i] = v]
           b == Put(h, c, s, vs)
<1>1. Sound(h) /\ IsRoot(h, r)
  BY DEF HeapIs
<1>2. c \in Objects(h) /\ IsStemObj(h, c) /\ SoundStem(h, c)
  BY <1>1, EndIs
<1> HIDE DEF c
<1>3. /\ c \in Id /\ c # Nil /\ c[1] = s /\ h[c].values \in Leaves
      /\ h[c] = [kind |-> "stem", prefix |-> s, values |-> h[c].values, cache |-> h[c].cache]
  <2>1. h[c].prefix = s
    BY DEF c
  <2>2. /\ h[c] = [kind |-> "stem", prefix |-> c[1], values |-> h[c].values, cache |-> h[c].cache]
        /\ h[c].values \in Leaves
    BY <1>2 DEF SoundStem
  <2>3. h[c].prefix = c[1]
    BY <2>2
  <2>4. QED
    BY <1>2, <2>1, <2>2, <2>3, NamesAreApart DEF Objects
<1>4. vs \in Leaves
  BY <1>3 DEF Leaves
<1>5. Inserted(h, r, s, i, v) = Raised(h, r, s, [heap |-> b, ref |-> c])
  <2>1. Inserted(h, r, s, i, v) = Raised(h, r, s, AtOwnStem(h, c, i, v))
    BY <1>2, InsertedIs DEF c
  <2>2. [h EXCEPT ![c].values[i] = v, ![c].cache = None] = b
    <3> USE DEF Put
    <3>1. h = [x \in Id |-> h[x]]
      BY <1>1 DEF Sound
    <3> DEFINE e == [h EXCEPT ![c].values[i] = v, ![c].cache = None]
               y == [kind |-> "stem", prefix |-> s, values |-> h[c].values, cache |-> h[c].cache]
    <3>2. [h[c] EXCEPT !.values[i] = v, !.cache = None] = StemObject(s, vs)
      <4>1. [y EXCEPT !.values = [y.values EXCEPT ![i] = v]] =
            [kind |-> "stem", prefix |-> s, values |-> vs, cache |-> h[c].cache]
        OBVIOUS
      <4>2. [[y EXCEPT !.values = [y.values EXCEPT ![i] = v]] EXCEPT !.cache = None] = StemObject(s, vs)
        <5> DEFINE z == [kind |-> "stem", prefix |-> s, values |-> vs, cache |-> h[c].cache]
        <5>1. [z EXCEPT !.cache = None] = [kind |-> "stem", prefix |-> s, values |-> vs, cache |-> None]
          OBVIOUS
        <5> HIDE DEF vs
        <5>2. QED
          BY <4>1, <5>1 DEF StemObject
      <4>3. QED
        BY <1>3, <4>2
    <3>3. e = [h EXCEPT ![c] = [h[c] EXCEPT !.values[i] = v, !.cache = None]]
      BY <1>3, <3>1
    <3>4. QED
      BY <3>2, <3>3
  <2>3. QED
    BY <2>1, <2>2 DEF AtOwnStem
<1> HIDE DEF vs
<1>6. /\ Sound(b) /\ Objects(b) = Objects(h) \cup {c}
      /\ b[c] = StemObject(s, vs)
      /\ \A x \in Objects(h) : x # c => b[x] = h[x]
  BY <1>1, <1>3, <1>4, PutStem
<1> HIDE DEF b
<1>7. /\ \A x \in Objects(h) : x[1] # s => b[x] = h[x]
      /\ Objects(h) \subseteq Objects(b) /\ c \in Objects(b)
  BY <1>3, <1>6
<1>8. b[c].cache = None /\ b[c].values = vs
  BY <1>6 DEF StemObject
<1>9. NodeOf(b, c) = StemNode(s, vs)
  BY <1>3, <1>6, <1>7, <1>8, NodeOfIs, NamesAssumption DEF Ref, Inner
<1>10. /\ Stepped(h, r, s, Risen(h, r, s, b, Frames(h, r, s, c)), Frames(h, r, s, c)[0])
       /\ Flat(Risen(h, r, s, b, Frames(h, r, s, c)), Frames(h, r, s, c)[0]) =
                  [Flat(h, r) EXCEPT ![Path(s, Stop(h, r, s))] = NodeOf(b, c)]
  <2>1. Written(h, s, b, c)
    BY <1>3, <1>6, <1>7, <1>8 DEF Written
  <2>2. QED
    BY <1>1, <2>1, StemHangs
<1>11. QED
  BY <1>5, <1>9, <1>10 DEF Raised, vs, c
\* Where the paths of two stems part.
Parting(s, t, k) == Least({j \in k..(Depth - 1) : PathBit[s][j] # PathBit[t][j]})

LEMMA PartingIs ==
  ASSUME NEW s \in Stem, NEW t \in Stem, s # t, NEW k \in 0..Depth, Path(t, k) = Path(s, k)
  PROVE  LET e == Parting(s, t, k)
         IN  /\ e \in k..(Depth - 1) /\ e \in 0..(Depth - 1)
             /\ PathBit[s][e] # PathBit[t][e]
             /\ Path(t, e + 1) = Sibling(s, e + 1)
<1> DEFINE S == {j \in k..(Depth - 1) : PathBit[s][j] # PathBit[t][j]}
           e == Parting(s, t, k)
<1>0. Depth \in Nat /\ k \in Nat
  BY DepthIsNat
<1>1. \A j \in 0..(k - 1) : PathBit[t][j] = PathBit[s][j]
  <2>1. TAKE j \in 0..(k - 1)
  <2>2. Path(t, k)[j] = PathBit[t][j] /\ Path(s, k)[j] = PathBit[s][j]
    BY DEF Path
  <2>3. QED
    BY <2>2
<1>2. S # {}
  <2>1. PICK d \in 0..(Depth - 1) : PathBit[s][d] # PathBit[t][d]
    BY PathsDiverge
  <2>2. ~ (d \in 0..(k - 1))
    BY <1>1, <2>1
  <2>3. d \in k..(Depth - 1)
    BY <1>0, <2>1, <2>2
  <2>4. QED
    BY <2>1, <2>3
<1>3. e \in S /\ \A m \in S : e <= m
  <2>1. S \subseteq Nat
    BY <1>0
  <2>2. e = Least(S)
    BY DEF Parting
  <2> HIDE DEF S, e
  <2>3. QED
    BY <1>2, <2>1, <2>2, LeastIsLeast
<1> HIDE DEF e
<1>4. e \in k..(Depth - 1) /\ e \in 0..(Depth - 1) /\ PathBit[s][e] # PathBit[t][e] /\ e \in Nat
  BY <1>0, <1>3
<1>5. \A j \in 0..(e - 1) : PathBit[t][j] = PathBit[s][j]
  <2>1. TAKE j \in 0..(e - 1)
  <2>2. CASE j \in 0..(k - 1)
    BY <1>1, <2>2
  <2>3. CASE ~ (j \in 0..(k - 1))
    <3>1. j \in k..(Depth - 1) /\ ~ (e <= j)
      BY <1>0, <1>4, <2>3
    <3>2. QED
      BY <1>3, <3>1
  <2>4. QED
    BY <2>2, <2>3
<1>6. Path(t, e + 1) = Sibling(s, e + 1)
  <2>1. PathBit[s][e] \in {0, 1} /\ PathBit[t][e] \in {0, 1}
    BY <1>4, Bits
  <2>2. PathBit[t][e] = 1 - PathBit[s][e]
    BY <1>4, <2>1
  <2>3. \A j \in 0..((e + 1) - 1) :
          PathBit[t][j] = IF j = (e + 1) - 1 THEN 1 - PathBit[s][j] ELSE PathBit[s][j]
    <3>1. TAKE j \in 0..((e + 1) - 1)
    <3>2. j = e \/ j \in 0..(e - 1)
      BY <1>4
    <3>3. (e + 1) - 1 = e /\ ~ (e \in 0..(e - 1))
      BY <1>4
    <3>4. QED
      BY <1>5, <2>2, <3>2, <3>3
  <2>4. QED
    BY <2>3 DEF Path, Sibling
<1>7. QED
  BY <1>4, <1>6 DEF e

\* The heap that _split_stems leaves: InternalNodes of the path of s down to where
\* it parts from that of the StemNode x, and the two StemNodes below.
SplitHeap(h, x, s, i, v, k) == AtOtherStem(h, x, s, i, v, k).heap
ForkAt(h, s, j) == Fresh(h, Path(s, j))

LEMMA AtOtherStemIs ==
  ASSUME NEW h, NEW r, NEW o, HeapIs(h, r, o), NEW s \in Stem, NEW i \in Subindex,
         NEW v \in Value, End(h, r, s) # Nil, End(h, r, s)[1] # s
  PROVE  LET x == End(h, r, s)
             k == Stop(h, r, s)
             e == Parting(s, x[1], k)
             b == SplitHeap(h, x, s, i, v, k)
             stem == Fresh(h, s)
             fork(j) == ForkAt(h, s, j)
         IN  /\ AtOtherStem(h, x, s, i, v, k) = [heap |-> b, ref |-> fork(k)]
             /\ \A j \in k..e : /\ fork(j) \in Id /\ fork(j)[1] = Path(s, j)
                                /\ fork(j) # Nil /\ fork(j) \notin Objects(h)
             /\ stem \in Id /\ stem[1] = s /\ stem # Nil /\ stem \notin Objects(h)
             /\ b = [y \in Id |-> b[y]]
             /\ b[stem] = NewStem(s, i, v)
             /\ \A j \in k..e :
                  /\ b[fork(j)] = InternalObject(b[fork(j)].child[0], b[fork(j)].child[1])
                  /\ b[fork(j)].child \in [{0, 1} -> {Nil, x, stem} \cup {fork(n) : n \in k..e}]
                  /\ b[fork(j)].child[PathBit[s][j]] = IF j = e THEN stem ELSE fork(j + 1)
                  /\ b[fork(j)].child[1 - PathBit[s][j]] = IF j = e THEN x ELSE Nil
             /\ \A y \in Id : y # stem /\ (\A j \in k..e : y # fork(j)) => b[y] = h[y]
<1> DEFINE x == End(h, r, s)
           k == Stop(h, r, s)
           e == Parting(s, x[1], k)
           b == SplitHeap(h, x, s, i, v, k)
           stem == Fresh(h, s)
           fork(j) == ForkAt(h, s, j)
           toward(j, y) == IF PathBit[s][j] = 0 THEN InternalObject(y, Nil) ELSE InternalObject(Nil, y)
           node(j) == IF j < e THEN toward(j, fork(j + 1))
                      ELSE IF PathBit[s][e] = 0 THEN InternalObject(stem, x)
                      ELSE InternalObject(x, stem)
<1>1. Sound(h) /\ IsRoot(h, r) /\ IsRoot(h, o) /\ Objects(h) = Reach(h, {r, o})
  BY DEF HeapIs
<1>2. /\ SoundStem(h, x) /\ x[1] \in Stem /\ Path(x[1], k) = Path(s, k) /\ h[x].prefix = x[1]
      /\ k \in 0..Depth /\ k \in Nat
  <2>1. SoundStem(h, x) /\ x[1] \in Stem /\ Path(x[1], k) = Path(s, k)
    BY <1>1, EndIs
  <2>2. h[x].prefix = x[1]
    <3> HIDE DEF x, k
    <3>1. QED
      BY <2>1 DEF SoundStem
  <2>3. QED
    BY <1>1, <2>1, <2>2, StopIs, DepthIsNat
<1>3. e \in k..(Depth - 1) /\ e \in Nat
  <2> HIDE DEF x, k
  <2>1. QED
    BY <1>2, PartingIs, DepthIsNat DEF x
<1>4. stem \in Id /\ stem[1] = s /\ stem # Nil /\ stem \notin Objects(h)
  BY <1>1, FreshStem
<1>5. ASSUME NEW j \in k..e
      PROVE  /\ fork(j) \in Id /\ fork(j)[1] = Path(s, j) /\ fork(j) # Nil
             /\ fork(j) \notin Objects(h) /\ j \in 0..Depth /\ j \in 0..(Depth - 1)
             /\ Path(s, j) \in Position /\ Size(Path(s, j)) = j
  <2> HIDE DEF x, k, e
  <2>1. j \in 0..Depth /\ (j = k \/ k < j) /\ j \in 0..(Depth - 1)
    BY <1>2, <1>3, DepthIsNat
  <2>2. ~ IsInternal(h, Refs(h, r)[Path(s, j)])
    <3>1. CASE j = k
      BY <1>1, <3>1, StopIs DEF k
    <3>2. CASE k < j
      <4>1. Refs(h, r)[Path(s, j)] = Nil
        BY <1>1, <2>1, <3>2, Descent DEF k
      <4>2. QED
        BY <4>1, NilIsNoObject
    <3>3. QED
      BY <2>1, <3>1, <3>2
  <2>3. Path(s, j) \in Position /\ Size(Path(s, j)) = j
    BY <2>1, PathIs
  <2>4. QED
    BY <1>1, <2>1, <2>2, <2>3, FreshPosition DEF ForkAt
<1>6. \A j \in k..e : fork(j) # stem
  BY <1>4, <1>5, NamesAssumption
<1>7. /\ b = [y \in Id |-> IF y = stem THEN NewStem(s, i, v)
                           ELSE IF \E j \in k..e : y = fork(j)
                           THEN node(CHOOSE j \in k..e : y = fork(j))
                           ELSE h[y]]
      /\ AtOtherStem(h, x, s, i, v, k) = [heap |-> b, ref |-> fork(k)]
  <2> DEFINE c == [y \in Id |-> IF y = stem THEN NewStem(s, i, v)
                           ELSE IF \E j \in k..e : y = fork(j)
                           THEN node(CHOOSE j \in k..e : y = fork(j))
                           ELSE h[y]]
  <2>0. e = Least({j \in k..(Depth - 1) : PathBit[s][j] # PathBit[h[x].prefix][j]})
    BY <1>2 DEF Parting
  <2>1. AtOtherStem(h, x, s, i, v, k) = [heap |-> c, ref |-> fork(k)]
    <3> HIDE DEF x, k, e
    <3>1. QED
      BY <2>0 DEF AtOtherStem, ForkAt
  <2> HIDE DEF c
  <2>2. b = c
    BY <2>1 DEF SplitHeap
  <2>3. QED
    BY <2>1, <2>2 DEF c
<1> HIDE DEF b, x, k, e, stem
<1>8. /\ b = [y \in Id |-> b[y]] /\ b[stem] = NewStem(s, i, v)
      /\ \A y \in Id : y # stem /\ (\A j \in k..e : y # fork(j)) => b[y] = h[y]
  BY <1>4, <1>7
<1>9. ASSUME NEW j \in k..e
      PROVE  b[fork(j)] = node(j)
  <2>1. fork(j) \in Id /\ fork(j) # stem
    BY <1>5, <1>6
  <2>2. \A n \in k..e : fork(j) = fork(n) => n = j
    BY <1>5
  <2>3. (CHOOSE n \in k..e : fork(j) = fork(n)) = j
    BY <2>2
  <2> HIDE DEF node
  <2>4. QED
    BY <1>7, <2>1, <2>3
<1>10. ASSUME NEW y, NEW z
       PROVE  /\ InternalObject(y, z).child[0] = y /\ InternalObject(y, z).child[1] = z
              /\ InternalObject(y, z).child \in [{0, 1} -> {y, z}]
  BY DEF InternalObject
<1>11. ASSUME NEW j \in k..e
       PROVE  /\ b[fork(j)] = InternalObject(b[fork(j)].child[0], b[fork(j)].child[1])
              /\ b[fork(j)].child \in [{0, 1} -> {Nil, x, stem} \cup {fork(n) : n \in k..e}]
              /\ b[fork(j)].child[PathBit[s][j]] = IF j = e THEN stem ELSE fork(j + 1)
              /\ b[fork(j)].child[1 - PathBit[s][j]] = IF j = e THEN x ELSE Nil
  <2> DEFINE toBit == IF j = e THEN stem ELSE fork(j + 1)
             other == IF j = e THEN x ELSE Nil
  <2>1. PathBit[s][j] \in {0, 1}
    BY <1>5, Bits
  <2>2. j = e \/ (j < e /\ j # e /\ j + 1 \in k..e)
    BY <1>2, <1>3
  <2>3. toBit \in {Nil, x, stem} \cup {fork(n) : n \in k..e} /\ other \in {Nil, x}
    BY <2>2
  <2>4. b[fork(j)] = IF PathBit[s][j] = 0 THEN InternalObject(toBit, other)
                     ELSE InternalObject(other, toBit)
    <3>1. CASE j = e
      <4>1. ~ (j < e)
        BY <1>3, <3>1
      <4>2. QED
        BY <1>9, <3>1, <4>1
    <3>2. CASE j < e /\ j # e
      BY <1>9, <3>2
    <3>3. QED
      BY <2>2, <3>1, <3>2
  <2> HIDE DEF toBit, other, node, toward, fork
  <2>5. CASE PathBit[s][j] = 0
    <3>1. b[fork(j)] = InternalObject(toBit, other)
      BY <2>4, <2>5
    <3>2. b[fork(j)].child[0] = toBit /\ b[fork(j)].child[1] = other
      BY <1>10, <3>1
    <3>3. b[fork(j)].child \in [{0, 1} -> {toBit, other}]
      BY <1>10, <3>1
    <3>4. 1 - PathBit[s][j] = 1
      BY <2>5
    <3>5. QED
      BY <2>3, <2>5, <3>1, <3>2, <3>3, <3>4 DEF toBit, other
  <2>6. CASE PathBit[s][j] = 1
    <3>1. b[fork(j)] = InternalObject(other, toBit)
      BY <2>4, <2>6
    <3>2. b[fork(j)].child[1] = toBit /\ b[fork(j)].child[0] = other
      BY <1>10, <3>1
    <3>3. b[fork(j)].child \in [{0, 1} -> {other, toBit}]
      BY <1>10, <3>1
    <3>4. 1 - PathBit[s][j] = 0
      BY <2>6
    <3>5. QED
      BY <2>3, <2>6, <3>1, <3>2, <3>3, <3>4 DEF toBit, other
  <2>7. QED
    BY <2>1, <2>5, <2>6
<1>12. \A j \in k..e : /\ fork(j) \in Id /\ fork(j)[1] = Path(s, j)
                       /\ fork(j) # Nil /\ fork(j) \notin Objects(h)
  BY <1>5
<1> HIDE DEF fork
<1>13. QED
  BY <1>4, <1>7, <1>8, <1>11, <1>12 DEF x, k, e, b, stem, fork
\* The heap of a split is sound, and the references of the new tree are those of
\* the old one but for the fork.
Split(h, r, s, e, p) ==
  LET k == Stop(h, r, s)
  IN  IF p = Path(s, e + 1) THEN Fresh(h, s)
      ELSE IF p = Sibling(s, e + 1) THEN End(h, r, s)
      ELSE IF Through(s, p) /\ Size(p) \in k..e THEN ForkAt(h, s, Size(p))
      ELSE Refs(h, r)[p]

LEMMA SplitIsSound ==
  ASSUME NEW h, NEW r, NEW o, HeapIs(h, r, o), NEW s \in Stem, NEW i \in Subindex,
         NEW v \in Value, End(h, r, s) # Nil, End(h, r, s)[1] # s
  PROVE  LET x == End(h, r, s)
             k == Stop(h, r, s)
             e == Parting(s, x[1], k)
             b == SplitHeap(h, x, s, i, v, k)
         IN  /\ Rising(h, r, s, b, Frames(h, r, s, ForkAt(h, s, k)))
             /\ Objects(b) = Objects(h) \cup {Fresh(h, s)} \cup {ForkAt(h, s, j) : j \in k..e}
             /\ \A y \in Objects(h) : b[y] = h[y]
<1> DEFINE x == End(h, r, s)
           k == Stop(h, r, s)
           f == Refs(h, r)
           e == Parting(s, x[1], k)
           b == SplitHeap(h, x, s, i, v, k)
           stem == Fresh(h, s)
           fork(j) == ForkAt(h, s, j)
           ret == Frames(h, r, s, fork(k))
<1>1. Sound(h) /\ IsRoot(h, r)
  BY DEF HeapIs
<1>2. /\ x[1] \in Stem /\ Path(x[1], k) = Path(s, k) /\ x \in Objects(h) /\ k \in 0..Depth
  BY <1>1, EndIs, StopIs
<1>3. e \in k..(Depth - 1) /\ e \in 0..(Depth - 1) /\ Path(x[1], e + 1) = Sibling(s, e + 1)
  <2> HIDE DEF x, k
  <2>1. QED
    BY <1>2, PartingIs DEF x
<1>4. /\ \A j \in k..e : /\ fork(j) \in Id /\ fork(j)[1] = Path(s, j)
                         /\ fork(j) # Nil /\ fork(j) \notin Objects(h)
      /\ stem \in Id /\ stem[1] = s /\ stem # Nil /\ stem \notin Objects(h)
      /\ b = [y \in Id |-> b[y]]
      /\ b[stem] = NewStem(s, i, v)
      /\ \A j \in k..e :
           /\ b[fork(j)] = InternalObject(b[fork(j)].child[0], b[fork(j)].child[1])
           /\ b[fork(j)].child \in [{0, 1} -> {Nil, x, stem} \cup {fork(n) : n \in k..e}]
           /\ b[fork(j)].child[PathBit[s][j]] = IF j = e THEN stem ELSE fork(j + 1)
           /\ b[fork(j)].child[1 - PathBit[s][j]] = IF j = e THEN x ELSE Nil
      /\ \A y \in Id : y # stem /\ (\A j \in k..e : y # fork(j)) => b[y] = h[y]
  BY AtOtherStemIs
<1> HIDE DEF x, k, f, e, b, stem, fork
<1>5. \A y \in Objects(h) : b[y] = h[y]
  <2>1. \A y \in Objects(h) : y \in Id
    BY DEF Objects
  <2>2. QED
    BY <1>4, <2>1
<1>6. b[stem] = [kind |-> "stem", prefix |-> s, values |-> [NoLeaves EXCEPT ![i] = v], cache |-> None]
      /\ [NoLeaves EXCEPT ![i] = v] \in Leaves
  BY <1>4, ConstantAssumption DEF NewStem, StemObject, NoLeaves, Leaves
<1>7. \A j \in k..e : b[fork(j)] = [kind |-> "internal", child |-> b[fork(j)].child, cache |-> None]
  <2>1. TAKE j \in k..e
  <2>2. b[fork(j)] = InternalObject(b[fork(j)].child[0], b[fork(j)].child[1])
    BY <1>4
  <2> DEFINE y == b[fork(j)]
  <2>3. y = [kind |-> "internal",
             child |-> [c \in {0, 1} |-> IF c = 0 THEN y.child[0] ELSE y.child[1]], cache |-> None]
    BY <2>2 DEF InternalObject
  <2> HIDE DEF y
  <2>4. y = [kind |-> "internal", child |-> y.child, cache |-> None]
    BY <2>3
  <2>5. QED
    BY <2>4 DEF y
<1>8. Objects(b) = Objects(h) \cup {stem} \cup {fork(j) : j \in k..e}
  <2>1. b[stem] # Free
    <3>1. b[stem].kind = "stem" /\ Free.kind = "free"
      BY <1>6 DEF Free
    <3>2. QED
      BY <3>1
  <2>2. ASSUME NEW j \in k..e PROVE b[fork(j)] # Free
    <3> DEFINE y == b[fork(j)]
    <3>1. y = [kind |-> "internal", child |-> y.child, cache |-> None]
      BY <1>7
    <3> HIDE DEF y
    <3>2. y.kind = "internal" /\ Free.kind = "free"
      BY <3>1 DEF Free
    <3>3. QED
      BY <3>2 DEF y
  <2>3. \A y \in Objects(h) : y \in Id /\ h[y] # Free
    BY DEF Objects
  <2>4. ASSUME NEW y \in Id
        PROVE  b[y] # Free <=> y \in Objects(h) \cup {stem} \cup {fork(j) : j \in k..e}
    <3>1. CASE y = stem
      BY <2>1, <3>1
    <3>2. CASE \E j \in k..e : y = fork(j)
      BY <2>2, <3>2
    <3>3. CASE y # stem /\ (\A j \in k..e : y # fork(j))
      <4>1. b[y] = h[y]
        BY <1>4, <3>3
      <4>2. QED
        BY <3>3, <4>1 DEF Objects
    <3>4. QED
      BY <3>1, <3>2, <3>3
  <2>5. \A y \in Objects(h) \cup {stem} \cup {fork(j) : j \in k..e} : y \in Id
    BY <1>4, <2>3
  <2>6. QED
    BY <2>4, <2>5 DEF Objects
<1>9. Ref(h) \subseteq Ref(b) /\ x \in Ref(b) /\ stem \in Ref(b) /\ Nil \in Ref(b)
      /\ \A j \in k..e : fork(j) \in Ref(b)
  BY <1>2, <1>8 DEF Ref
<1>10. /\ x # Nil /\ Fits(x, Sibling(s, e + 1))
       /\ Fits(stem, Path(s, e + 1))
       /\ \A j \in k..e : Fits(fork(j), Path(s, j))
  <2>1. e + 1 \in 0..Depth /\ e + 1 \in 1..Depth /\ e \in Nat
    BY <1>3, DepthIsNat
  <2>2. Through(s, Path(s, e + 1))
    BY <2>1, PathIs, ThroughIs
  <2>3. Through(x[1], Sibling(s, e + 1))
    BY <1>3, <2>1, SiblingIs DEF Through
  <2>4. x # Nil
    BY <1>2, NamesAreApart DEF Objects
  <2>5. QED
    BY <1>2, <1>4, <2>2, <2>3, <2>4 DEF Fits
<1>11. \A j \in k..e : /\ j \in 0..(Depth - 1) /\ j \in 0..Depth /\ Path(s, j) \in Position
                       /\ Size(Path(s, j)) < Depth /\ (j # e => j + 1 \in k..e) /\ j \in Nat
  <2>1. TAKE j \in k..e
  <2>2. /\ j \in 0..(Depth - 1) /\ j \in 0..Depth /\ j < Depth /\ j \in Nat
        /\ (j # e => j + 1 \in k..e)
    BY <1>2, <1>3, DepthIsNat
  <2>3. QED
    BY <2>2, PathIs
<1>12. ASSUME NEW j \in k..e PROVE SoundInternal(b, fork(j))
  <2>1. /\ Path(s, j) \in Position /\ Size(Path(s, j)) < Depth /\ j \in 0..(Depth - 1)
        /\ (j # e => j + 1 \in k..e)
    BY <1>11
  <2>2. b[fork(j)].child \in [{0, 1} -> Ref(b)]
    <3>1. {Nil, x, stem} \cup {fork(n) : n \in k..e} \subseteq Ref(b)
      BY <1>9
    <3>2. b[fork(j)].child \in [{0, 1} -> {Nil, x, stem} \cup {fork(n) : n \in k..e}]
      BY <1>4
    <3>3. QED
      BY <3>1, <3>2
  <2>3. PathBit[s][j] \in {0, 1}
    BY <2>1, Bits
  <2>4. Fits(b[fork(j)].child[PathBit[s][j]], Child(Path(s, j), PathBit[s][j]))
    <3>1. Child(Path(s, j), PathBit[s][j]) = Path(s, j + 1)
      BY <2>1, PathChild
    <3>2. b[fork(j)].child[PathBit[s][j]] = IF j = e THEN stem ELSE fork(j + 1)
      BY <1>4
    <3>3. QED
      BY <1>10, <2>1, <3>1, <3>2
  <2>5. Fits(b[fork(j)].child[1 - PathBit[s][j]], Child(Path(s, j), 1 - PathBit[s][j]))
    <3>1. Child(Path(s, j), 1 - PathBit[s][j]) = Sibling(s, j + 1)
      BY <2>1, PathChild
    <3>2. b[fork(j)].child[1 - PathBit[s][j]] = IF j = e THEN x ELSE Nil
      BY <1>4
    <3>3. Fits(Nil, Sibling(s, j + 1))
      BY DEF Fits
    <3>4. QED
      BY <1>10, <3>1, <3>2, <3>3
  <2>6. \A c \in {0, 1} : c = PathBit[s][j] \/ c = 1 - PathBit[s][j]
    BY <2>3
  <2>7. /\ fork(j)[1] = Path(s, j)
        /\ b[fork(j)] = [kind |-> "internal", child |-> b[fork(j)].child, cache |-> None]
    BY <1>4, <1>7
  <2>8. \A c \in {0, 1} : Fits(b[fork(j)].child[c], Child(fork(j)[1], c))
    BY <2>4, <2>5, <2>6, <2>7
  <2> DEFINE y == b[fork(j)]
  <2>9. y = [kind |-> "internal", child |-> y.child, cache |-> y.cache]
    <3> HIDE DEF y
    <3>1. y = [kind |-> "internal", child |-> y.child, cache |-> None]
      BY <2>7 DEF y
    <3>2. QED
      BY <3>1
  <2>10. QED
    BY <2>1, <2>2, <2>7, <2>8, <2>9 DEF SoundInternal
<1>13. Sound(b)
  <2>1. ASSUME NEW y \in Objects(b) PROVE SoundStem(b, y) \/ SoundInternal(b, y)
    <3>1. CASE y = stem
      <4> DEFINE vs == [NoLeaves EXCEPT ![i] = v]
                 z == b[y]
      <4>1. /\ z = [kind |-> "stem", prefix |-> s, values |-> vs, cache |-> None]
            /\ vs \in Leaves /\ y[1] = s
        BY <1>4, <1>6, <3>1
      <4> HIDE DEF vs, z
      <4>2. z = [kind |-> "stem", prefix |-> s, values |-> z.values, cache |-> z.cache] /\ z.values = vs
        BY <4>1
      <4>3. QED
        BY <4>1, <4>2 DEF SoundStem, z
    <3>2. CASE \E j \in k..e : y = fork(j)
      BY <1>12, <3>2
    <3>3. CASE y \in Objects(h)
      <4>1. b[y] = h[y] /\ (SoundStem(h, y) \/ SoundInternal(h, y))
        BY <1>1, <1>5, <3>3 DEF Sound
      <4>2. QED
        BY <1>9, <4>1 DEF SoundStem, SoundInternal
    <3>4. QED
      BY <1>8, <3>1, <3>2, <3>3
  <2>2. QED
    BY <1>4, <2>1 DEF Sound
<1>14. ASSUME NEW d \in 0..k PROVE ret[d] \in Ref(b) /\ Fits(ret[d], Path(s, d))
  <2>1. CASE d = k
    <3>1. ret[d] = fork(k) /\ k \in k..e
      BY <1>2, <1>3, <2>1, DepthIsNat DEF Frames, k
    <3>2. QED
      BY <1>9, <1>10, <2>1, <3>1
  <2>2. CASE d # k
    <3>1. d \in 0..(k - 1)
      BY <1>2, <2>2, DepthIsNat
    <3>2. ret[d] = f[Path(s, d)]
      <4>1. ret[d] = Walk(h, r, s)[d]
        BY <2>2 DEF Frames, k
      <4>2. QED
        BY <1>1, <3>1, <4>1, WalkIs DEF k, f
    <3>3. f[Path(s, d)] \in Objects(h) /\ f[Path(s, d)][1] = Path(s, d)
      BY <1>1, <3>1, WalkIs DEF k, f
    <3> HIDE DEF ret
    <3>4. QED
      BY <1>9, <3>2, <3>3 DEF Ref, Fits
  <2>3. QED
    BY <2>1, <2>2
<1>15. Rising(h, r, s, b, ret)
  <2> HIDE DEF ret
  <2>1. Objects(h) \subseteq Objects(b)
    BY <1>8
  <2>2. QED
    BY <1>5, <1>13, <1>14, <2>1 DEF Rising, k
<1>16. QED
  BY <1>5, <1>8, <1>15 DEF x, k, e, b, stem, fork
LEMMA SplitIs ==
  ASSUME NEW h, NEW r, NEW o, HeapIs(h, r, o), NEW s \in Stem, NEW i \in Subindex,
         NEW v \in Value, End(h, r, s) # Nil, End(h, r, s)[1] # s
  PROVE  LET res == Inserted(h, r, s, i, v)
             x == End(h, r, s)
             k == Stop(h, r, s)
             e == Parting(s, x[1], k)
         IN  /\ Stepped(h, r, s, res.heap, res.ref)
             /\ \A p \in Position : Flat(res.heap, res.ref)[p] =
                  IF p = Path(s, e + 1) THEN StemNode(s, [NoLeaves EXCEPT ![i] = v])
                  ELSE IF p = Path(x[1], e + 1) THEN NodeOf(h, x)
                  ELSE IF \E j \in k..e : p = Path(s, j) THEN Internal
                  ELSE Flat(h, r)[p]
<1> DEFINE x == End(h, r, s)
           k == Stop(h, r, s)
           f == Refs(h, r)
           e == Parting(s, x[1], k)
           b == SplitHeap(h, x, s, i, v, k)
           stem == Fresh(h, s)
           fork(j) == ForkAt(h, s, j)
           ret == Frames(h, r, s, fork(k))
           g == Risen(h, r, s, b, ret)
           F == [p \in Position |-> Split(h, r, s, e, p)]
           vs == [NoLeaves EXCEPT ![i] = v]
<1>1. Sound(h) /\ IsRoot(h, r)
  BY DEF HeapIs
<1>2. /\ x[1] \in Stem /\ Path(x[1], k) = Path(s, k) /\ x \in Objects(h) /\ k \in 0..Depth
      /\ SoundStem(h, x) /\ h[x].prefix = x[1] /\ IsStemObj(h, x) /\ x = f[Path(s, k)]
      /\ k \in Nat /\ ~ IsInternal(h, f[Path(s, k)])
  <2>1. /\ x[1] \in Stem /\ Path(x[1], k) = Path(s, k) /\ x \in Objects(h) /\ k \in 0..Depth
        /\ SoundStem(h, x) /\ IsStemObj(h, x) /\ x = f[Path(s, k)]
        /\ ~ IsInternal(h, f[Path(s, k)])
    BY <1>1, EndIs, StopIs
  <2>2. h[x].prefix = x[1]
    <3> HIDE DEF x, k, f
    <3>1. QED
      BY <2>1 DEF SoundStem
  <2>3. QED
    BY <2>1, <2>2, DepthIsNat
<1>3. e \in k..(Depth - 1) /\ e \in 0..(Depth - 1) /\ Path(x[1], e + 1) = Sibling(s, e + 1) /\ e \in Nat
  <2> HIDE DEF x, k, f
  <2>1. QED
    BY <1>2, PartingIs DEF x
<1>4. /\ AtOtherStem(h, x, s, i, v, k) = [heap |-> b, ref |-> fork(k)]
      /\ \A j \in k..e : /\ fork(j) \in Id /\ fork(j)[1] = Path(s, j)
                         /\ fork(j) # Nil /\ fork(j) \notin Objects(h)
      /\ stem \in Id /\ stem[1] = s /\ stem # Nil /\ stem \notin Objects(h)
      /\ b[stem] = NewStem(s, i, v)
      /\ \A j \in k..e :
           /\ b[fork(j)] = InternalObject(b[fork(j)].child[0], b[fork(j)].child[1])
           /\ b[fork(j)].child[PathBit[s][j]] = IF j = e THEN stem ELSE fork(j + 1)
           /\ b[fork(j)].child[1 - PathBit[s][j]] = IF j = e THEN x ELSE Nil
  BY AtOtherStemIs
<1>5. /\ Rising(h, r, s, b, ret)
      /\ Objects(b) = Objects(h) \cup {stem} \cup {fork(j) : j \in k..e}
      /\ \A y \in Objects(h) : b[y] = h[y]
  BY SplitIsSound
<1>6. Inserted(h, r, s, i, v) = [heap |-> g, ref |-> ret[0]]
  <2>1. Inserted(h, r, s, i, v) = Raised(h, r, s, AtOtherStem(h, x, s, i, v, k))
    BY <1>2, InsertedIs
  <2> HIDE DEF x, k, b, fork
  <2>2. QED
    BY <1>4, <2>1 DEF Raised
<1>7. /\ Sound(g) /\ Objects(g) = Objects(b)
      /\ \A y \in Objects(b) : (\A d \in 0..(k - 1) : y # f[Path(s, d)]) => g[y] = b[y]
      /\ \A d \in 0..(k - 1) :
           /\ g[f[Path(s, d)]].child[PathBit[s][d]] = ret[d + 1]
           /\ g[f[Path(s, d)]].child[1 - PathBit[s][d]] = h[f[Path(s, d)]].child[1 - PathBit[s][d]]
           /\ g[f[Path(s, d)]].cache = None
  BY <1>1, <1>5, RelinkedIs
<1>8. \A d \in 0..(k - 1) :
           /\ d \in 0..(Depth - 1) /\ d \in 0..Depth /\ d + 1 \in 0..k
           /\ f[Path(s, d)] \in Objects(h) /\ Inner(f[Path(s, d)])
           /\ f[Path(s, d)][1] = Path(s, d)
           /\ f[Sibling(s, d + 1)] = h[f[Path(s, d)]].child[1 - PathBit[s][d]]
           /\ Walk(h, r, s)[d] = f[Path(s, d)]
  BY <1>1, WalkIs
<1>9. ret[k] = fork(k) /\ \A d \in 0..(k - 1) : ret[d] = f[Path(s, d)]
  <2>1. k \in 0..k /\ \A d \in 0..(k - 1) : d \in 0..k /\ d # k
    BY <1>2
  <2>2. QED
    BY <1>8, <2>1 DEF Frames
<1>10. \A d \in 0..k : ret[d] \in Ref(b) /\ Fits(ret[d], Path(s, d))
  BY <1>5 DEF Rising
<1>11. /\ \A p \in Position : f[p] \in Ref(h)
       /\ \A p \in Position : Size(p) # 0 /\ ~ IsInternal(h, f[Up(p)]) => f[p] = Nil
       /\ \A p \in Position : Size(p) # 0 /\ IsInternal(h, f[Up(p)]) =>
            f[p] = h[f[Up(p)]].child[Turn(p)]
       /\ \A p \in Position : IsInternal(h, f[p]) => f[p] \in Objects(h) /\ f[p][1] = p
  BY <1>1, RefsAreRefs, RefsStep, RefsInternal DEF IsRoot
<1>12. \A d \in 0..Depth : k < d => f[Path(s, d)] = Nil
  BY <1>1, Descent
<1>13. \A p \in Position :
         F[p] = IF p = Path(s, e + 1) THEN stem
                ELSE IF p = Sibling(s, e + 1) THEN x
                ELSE IF Through(s, p) /\ Size(p) \in k..e THEN fork(Size(p))
                ELSE f[p]
  BY DEF Split
<1>14. \A p \in Position : f[p] # Nil /\ On(s, f[p]) => p = Path(s, Size(p)) /\ Size(p) \in 0..k
  BY <1>1, OnPath
<1>15. Flat(h, r) = [p \in Position |-> NodeOf(h, f[p])]
       /\ Flat(g, ret[0]) = [p \in Position |-> NodeOf(g, Refs(g, ret[0])[p])]
  BY DEF Flat
<1>16. \A p \in Position : f[p] # Nil => f[p] \in Reach(h, {r})
  BY DEF Reach
<1>17. x # Nil /\ ~ Inner(x) /\ x[1] # s
  BY <1>2, NamesAssumption DEF Inner
<1> HIDE DEF x, k, f, e, b, stem, fork, ret, g, F, vs
<1>18. \A d \in 0..(Depth - 1) : /\ d \in 0..Depth /\ d \in Nat /\ d + 1 \in 0..Depth /\ d + 1 \in 1..Depth
                                /\ d + 1 # 0 /\ Path(s, d) \in Position /\ Path(s, d + 1) \in Position
                                /\ Size(Path(s, d + 1)) = d + 1 /\ Size(Path(s, d)) = d
                                /\ Sibling(s, d + 1) \in Position
                                /\ Size(Sibling(s, d + 1)) = d + 1
                                /\ Up(Sibling(s, d + 1)) = Path(s, d)
                                /\ ~ Through(s, Sibling(s, d + 1))
                                /\ Through(s, Path(s, d + 1)) /\ Through(s, Path(s, d))
  <2>1. TAKE d \in 0..(Depth - 1)
  <2>2. d \in 0..Depth /\ d \in Nat /\ d + 1 \in 0..Depth /\ d + 1 \in 1..Depth /\ d + 1 # 0
    BY DepthIsNat
  <2>3. QED
    BY <2>2, PathIs, SiblingIs, PathStep, SiblingOff, ThroughIs
<1>19. ASSUME NEW d \in 0..Depth
       PROVE  /\ d < k => F[Path(s, d)] = f[Path(s, d)]
              /\ d \in k..e => F[Path(s, d)] = fork(d)
              /\ d = e + 1 => F[Path(s, d)] = stem
              /\ e + 1 < d => F[Path(s, d)] = Nil
  <2>1. /\ Path(s, d) \in Position /\ Size(Path(s, d)) = d /\ Through(s, Path(s, d))
        /\ Path(s, d) # Sibling(s, e + 1) /\ (Path(s, d) = Path(s, e + 1) <=> d = e + 1)
    BY <1>3, <1>18, PathIs, ThroughIs
  <2>2. /\ d < k => ~ (d \in k..e) /\ d # e + 1
        /\ d \in k..e => d # e + 1
        /\ e + 1 < d => ~ (d \in k..e) /\ d # e + 1 /\ k < d
    BY <1>2, <1>3
  <2>3. QED
    BY <1>12, <1>13, <2>1, <2>2
<1>20. ASSUME NEW d \in 0..(Depth - 1)
       PROVE  F[Sibling(s, d + 1)] = IF d = e THEN x ELSE f[Sibling(s, d + 1)]
  <2>1. Sibling(s, d + 1) # Path(s, e + 1) /\ (Sibling(s, d + 1) = Sibling(s, e + 1) <=> d = e)
    BY <1>3, <1>18
  <2>2. QED
    BY <1>13, <1>18, <2>1
<1>21. /\ \A y \in Ref(b) : IsInternal(g, y) <=> Inner(y)
       /\ \A y \in Ref(h) : IsInternal(h, y) <=> Inner(y)
       /\ Ref(h) \subseteq Ref(b) /\ Ref(g) = Ref(b)
       /\ stem \in Ref(b) /\ x \in Ref(b) /\ Nil \in Ref(b) /\ ~ Inner(Nil) /\ ~ Inner(stem)
       /\ \A j \in k..e : fork(j) \in Ref(b) /\ Inner(fork(j)) /\ j \in 0..(Depth - 1)
  <2>1. Ref(h) \subseteq Ref(b) /\ Ref(g) = Ref(b)
    BY <1>5, <1>7 DEF Ref
  <2>2. \A y \in Ref(b) : IsInternal(g, y) <=> Inner(y)
    BY <1>7, <2>1, InnerIs
  <2>3. \A y \in Ref(h) : IsInternal(h, y) <=> Inner(y)
    BY <1>1, InnerIs
  <2>4. ~ Inner(stem) /\ ~ Inner(Nil)
    BY <1>4, NamesAssumption DEF Inner
  <2>5. ASSUME NEW j \in k..e PROVE fork(j) \in Ref(b) /\ Inner(fork(j)) /\ j \in 0..(Depth - 1)
    <3>1. j \in 0..(Depth - 1)
      BY <1>2, <1>3, DepthIsNat
    <3>2. QED
      BY <1>4, <1>5, <1>18, <3>1 DEF Ref, Inner
  <2>6. QED
    BY <1>2, <1>5, <2>1, <2>2, <2>3, <2>4, <2>5 DEF Ref
<1>22. \A y \in Ref(b) : y # Nil /\ (\A d \in 0..(k - 1) : y # f[Path(s, d)]) => g[y] = b[y]
  BY <1>7 DEF Ref
<1>23. ASSUME NEW j \in k..e PROVE g[fork(j)] = b[fork(j)] /\ g[fork(j)].cache = None
  <2>1. \A d \in 0..(k - 1) : fork(j) # f[Path(s, d)]
    BY <1>4, <1>8
  <2>2. g[fork(j)] = b[fork(j)]
    BY <1>4, <1>21, <1>22, <2>1
  <2>3. b[fork(j)] = InternalObject(b[fork(j)].child[0], b[fork(j)].child[1])
    BY <1>4
  <2>4. b[fork(j)].cache = None
    BY <2>3 DEF InternalObject
  <2>5. QED
    BY <2>2, <2>4
<1>24. g[stem] = NewStem(s, i, v) /\ g[stem].cache = None /\ g[stem].values = vs
  <2>1. g[stem] = b[stem]
    BY <1>4, <1>8, <1>21, <1>22
  <2>2. QED
    BY <1>4, <2>1 DEF NewStem, StemObject, vs
<1>25. ASSUME NEW p \in Position, Size(p) = 0 PROVE F[p] = ret[0]
  <2>1. 0 \in 0..(Depth - 1) /\ 0 \in 0..Depth
    BY <1>3, DepthIsNat
  <2>2. p = Path(s, 0)
    BY <1>18, <1>25, <2>1, NoBits
  <2>3. CASE k = 0
    <3>1. 0 \in k..e
      BY <1>3, <2>3
    <3>2. QED
      BY <1>9, <1>19, <2>1, <2>2, <2>3, <3>1
  <2>4. CASE k # 0
    <3>1. 0 < k /\ 0 \in 0..(k - 1)
      BY <1>2, <2>4
    <3>2. QED
      BY <1>9, <1>19, <2>1, <2>2, <3>1
  <2>5. QED
    BY <2>3, <2>4
<1>26. ASSUME NEW p \in Position, Size(p) # 0, Through(s, Up(p))
       PROVE  F[p] = IF IsInternal(g, F[Up(p)]) THEN g[F[Up(p)]].child[Turn(p)] ELSE Nil
  <2>1. PICK d \in 0..(Depth - 1) :
           /\ Up(p) = Path(s, d) /\ Size(p) = d + 1
           /\ \/ p = Path(s, d + 1) /\ Turn(p) = PathBit[s][d]
              \/ p = Sibling(s, d + 1) /\ Turn(p) = 1 - PathBit[s][d]
    BY <1>26, BesidePath
  <2>2. d \in 0..Depth /\ d + 1 \in 0..Depth /\ d \in Nat
    BY <1>18
  <2>3. CASE d < k
    <3>1. d \in 0..(k - 1) /\ d # e /\ d + 1 \in 0..k
      BY <1>2, <1>3, <2>2, <2>3
    <3>2. F[Up(p)] = f[Path(s, d)] /\ Inner(f[Path(s, d)]) /\ f[Path(s, d)] \in Ref(b)
      BY <1>8, <1>11, <1>18, <1>19, <1>21, <2>1, <2>2, <2>3, <3>1
    <3>3. CASE p = Path(s, d + 1) /\ Turn(p) = PathBit[s][d]
      <4>1. F[p] = ret[d + 1]
        <5>1. CASE d + 1 < k
          <6>1. d + 1 \in 0..(k - 1)
            BY <1>2, <2>2, <5>1
          <6>2. QED
            BY <1>9, <1>19, <2>2, <3>3, <5>1, <6>1
        <5>2. CASE d + 1 = k
          <6>1. d + 1 \in k..e
            BY <1>2, <1>3, <5>2
          <6>2. QED
            BY <1>9, <1>19, <2>2, <3>3, <5>2, <6>1
        <5>3. QED
          BY <1>2, <2>2, <2>3, <5>1, <5>2
      <4>2. QED
        BY <1>7, <1>21, <3>1, <3>2, <3>3, <4>1
    <3>4. CASE p = Sibling(s, d + 1) /\ Turn(p) = 1 - PathBit[s][d]
      <4>1. F[p] = f[Sibling(s, d + 1)]
        BY <1>20, <3>1, <3>4
      <4>2. QED
        BY <1>7, <1>8, <1>21, <3>1, <3>2, <3>4, <4>1
    <3>5. QED
      BY <2>1, <3>3, <3>4
  <2>4. CASE d \in k..e
    <3>1. F[Up(p)] = fork(d) /\ IsInternal(g, F[Up(p)]) /\ g[F[Up(p)]] = b[fork(d)]
      BY <1>19, <1>21, <1>23, <2>1, <2>2, <2>4
    <3>2. /\ b[fork(d)].child[PathBit[s][d]] = IF d = e THEN stem ELSE fork(d + 1)
          /\ b[fork(d)].child[1 - PathBit[s][d]] = IF d = e THEN x ELSE Nil
      BY <1>4, <2>4
    <3>3. CASE p = Path(s, d + 1) /\ Turn(p) = PathBit[s][d]
      <4>1. F[p] = IF d = e THEN stem ELSE fork(d + 1)
        <5>1. d # e => d + 1 \in k..e
          BY <1>2, <1>3, <2>2, <2>4
        <5>2. QED
          BY <1>19, <2>2, <3>3, <5>1
      <4>2. QED
        BY <3>1, <3>2, <3>3, <4>1
    <3>4. CASE p = Sibling(s, d + 1) /\ Turn(p) = 1 - PathBit[s][d]
      <4>1. d # e => f[Sibling(s, d + 1)] = Nil
        <5>1. d = k \/ k < d
          BY <1>2, <2>2, <2>4
        <5>2. ~ IsInternal(h, f[Path(s, d)])
          BY <1>2, <1>12, <2>2, <5>1, NilIsNoObject
        <5>3. QED
          BY <1>11, <1>26, <2>1, <3>4, <5>2
      <4>2. F[p] = IF d = e THEN x ELSE Nil
        BY <1>20, <3>4, <4>1
      <4>3. QED
        BY <3>1, <3>2, <3>4, <4>2
    <3>5. QED
      BY <2>1, <3>3, <3>4
  <2>5. CASE e < d
    <3>1. d = e + 1 \/ e + 1 < d
      BY <1>3, <2>2, <2>5
    <3>2. F[Up(p)] = stem \/ F[Up(p)] = Nil
      BY <1>19, <2>1, <2>2, <3>1
    <3>3. ~ IsInternal(g, F[Up(p)])
      BY <1>21, <3>2
    <3>4. e + 1 < d + 1 /\ d # e /\ k < d
      BY <1>2, <1>3, <2>2, <2>5
    <3>5. ~ IsInternal(h, f[Path(s, d)])
      BY <1>12, <2>2, <3>4, NilIsNoObject
    <3>6. f[p] = Nil
      BY <1>11, <1>26, <2>1, <3>5
    <3>7. F[p] = Nil
      BY <1>19, <1>20, <2>1, <2>2, <3>4, <3>6
    <3>8. QED
      BY <3>3, <3>7
  <2>6. QED
    BY <1>2, <1>3, <2>2, <2>3, <2>4, <2>5
<1>27. ASSUME NEW p \in Position, Size(p) # 0, ~ Through(s, Up(p))
       PROVE  F[p] = IF IsInternal(g, F[Up(p)]) THEN g[F[Up(p)]].child[Turn(p)] ELSE Nil
  <2>1. ~ Through(s, p) /\ Up(p) \in Position
    BY <1>27, ThroughUp, UpIs
  <2>2. p # Path(s, e + 1) /\ p # Sibling(s, e + 1) /\ Up(p) # Path(s, e + 1)
    BY <1>3, <1>18, <1>27, <2>1
  <2>3. F[p] = f[p]
    BY <1>13, <2>1, <2>2
  <2>4. CASE Up(p) = Sibling(s, e + 1)
    <3>1. F[Up(p)] = x
      BY <1>3, <1>20, <2>4
    <3>2. ~ IsInternal(h, f[Path(s, e)])
      <4>1. e = k \/ k < e
        BY <1>2, <1>3
      <4>2. QED
        BY <1>2, <1>3, <1>12, <1>18, <4>1, NilIsNoObject
    <3>3. f[Sibling(s, e + 1)] = Nil
      BY <1>3, <1>11, <1>18, <3>2
    <3>4. f[p] = Nil
      BY <1>11, <1>27, <2>4, <3>3, NilIsNoObject
    <3>5. QED
      BY <1>17, <1>21, <2>3, <3>1, <3>4
  <2>5. CASE Up(p) # Sibling(s, e + 1)
    <3>1. F[Up(p)] = f[Up(p)] /\ f[Up(p)] \in Ref(h) /\ f[Up(p)] \in Ref(b)
      BY <1>11, <1>13, <1>21, <1>27, <2>1, <2>2, <2>5
    <3>2. CASE Inner(f[Up(p)])
      <4>1. IsInternal(h, f[Up(p)]) /\ f[Up(p)] \in Objects(h) /\ f[Up(p)][1] = Up(p)
        BY <1>11, <1>21, <2>1, <3>1, <3>2
      <4>2. \A d \in 0..(k - 1) : f[Up(p)] # f[Path(s, d)]
        BY <1>8, <1>18, <1>27, <4>1
      <4>3. g[f[Up(p)]] = h[f[Up(p)]]
        BY <1>5, <1>22, <3>1, <3>2, <4>1, <4>2 DEF Inner
      <4>4. QED
        BY <1>11, <1>21, <1>27, <2>3, <3>1, <3>2, <4>1, <4>3
    <3>3. CASE ~ Inner(f[Up(p)])
      BY <1>11, <1>21, <1>27, <2>3, <3>1, <3>3
    <3>4. QED
      BY <3>2, <3>3
  <2>6. QED
    BY <2>4, <2>5
<1>28. \A p \in Position : Refs(g, ret[0])[p] = F[p]
  <2>1. \A p \in Position : F[p] = RefOver(g, ret[0], F, p)
    <3>1. ASSUME NEW p \in Position, Size(p) # 0 PROVE F[p] = RefOver(g, ret[0], F, p)
      <4>1. F[p] = IF IsInternal(g, F[Up(p)]) THEN g[F[Up(p)]].child[Turn(p)] ELSE Nil
        BY <1>26, <1>27, <3>1
      <4>2. QED
        BY <3>1, <4>1 DEF RefOver
    <3>2. ASSUME NEW p \in Position, Size(p) = 0 PROVE F[p] = RefOver(g, ret[0], F, p)
      BY <1>25, <3>2 DEF RefOver
    <3>3. QED
      BY <3>1, <3>2
  <2>2. QED
    BY <2>1, RefsUnique
<1>29. ASSUME NEW p \in Position
       PROVE  \/ p = Path(s, e + 1) /\ F[p] = stem
              \/ p = Sibling(s, e + 1) /\ p # Path(s, e + 1) /\ F[p] = x
              \/ \E j \in k..e : /\ p = Path(s, j) /\ p # Path(s, e + 1)
                                 /\ p # Sibling(s, e + 1) /\ F[p] = fork(j)
              \/ /\ p # Path(s, e + 1) /\ p # Sibling(s, e + 1)
                 /\ \A j \in k..e : p # Path(s, j)
                 /\ F[p] = f[p]
  <2>1. (\E j \in k..e : p = Path(s, j)) <=> Through(s, p) /\ Size(p) \in k..e
    BY <1>18, <1>21, ThroughIs
  <2>2. Through(s, p) => p = Path(s, Size(p))
    BY DEF Through
  <2>3. QED
    BY <1>13, <2>1, <2>2
<1>30. Stepped(h, r, s, g, ret[0])
  <2>1. IsRoot(g, ret[0])
    <3>0. 0 \in 0..k
      BY <1>2
    <3>1. ASSUME NEW p \in Position, Size(p) = 0 PROVE Fits(ret[0], p)
      <4>1. 0 \in 0..(Depth - 1)
        BY <1>3, DepthIsNat
      <4>2. p = Path(s, 0)
        BY <1>18, <3>1, <4>1, NoBits
      <4>3. QED
        BY <1>10, <3>0, <4>2
    <3>2. ret[0] \in Ref(g)
      BY <1>10, <1>21, <3>0
    <3>3. QED
      BY <3>1, <3>2 DEF IsRoot
  <2>2. ASSUME NEW y \in Objects(h), ~ On(s, y) PROVE g[y] = h[y]
    <3>1. \A d \in 0..(k - 1) : y # f[Path(s, d)]
      BY <1>8, <1>18, <2>2 DEF On
    <3>2. y \in Objects(b) /\ b[y] = h[y]
      BY <1>5
    <3>3. QED
      BY <1>7, <3>1, <3>2
  <2>3. ASSUME NEW p \in Position, F[p] # Nil
        PROVE  IF On(s, F[p]) THEN g[F[p]].cache = None ELSE F[p] \in Reach(h, {r})
    <3>1. CASE p = Path(s, e + 1) /\ F[p] = stem
      BY <1>4, <1>24, <3>1 DEF On
    <3>2. CASE F[p] = x
      <4>1. ~ On(s, x)
        BY <1>2, <1>17, NamesAssumption DEF On
      <4>2. Path(s, k) \in Position
        BY <1>2, PathIs
      <4>3. x \in Reach(h, {r})
        BY <1>2, <1>16, <1>17, <4>2
      <4>4. QED
        BY <3>2, <4>1, <4>3
    <3>3. CASE \E j \in k..e : F[p] = fork(j)
      <4>1. PICK j \in k..e : F[p] = fork(j)
        BY <3>3
      <4>2. On(s, fork(j))
        BY <1>4, <1>18, <1>21 DEF On
      <4>3. QED
        BY <1>23, <4>1, <4>2
    <3>4. CASE F[p] = f[p] /\ \A j \in k..e : p # Path(s, j)
      <4>1. CASE On(s, f[p])
        <5>1. p = Path(s, Size(p)) /\ Size(p) \in 0..k
          BY <1>14, <2>3, <3>4, <4>1
        <5>2. Size(p) # k
          <6>1. k \in k..e
            BY <1>2, <1>3
          <6>2. QED
            BY <3>4, <5>1, <6>1
        <5>3. Size(p) \in 0..(k - 1)
          BY <1>2, <5>1, <5>2
        <5>4. QED
          BY <1>7, <3>4, <4>1, <5>1, <5>3
      <4>2. CASE ~ On(s, f[p])
        BY <1>16, <2>3, <3>4, <4>2
      <4>3. QED
        BY <4>1, <4>2
    <3>5. QED
      BY <1>29, <3>1, <3>2, <3>3, <3>4
  <2>4. Objects(h) \subseteq Objects(g)
    BY <1>5, <1>7
  <2>5. QED
    BY <1>7, <1>28, <2>1, <2>2, <2>3, <2>4 DEF Stepped
<1>31. ASSUME NEW p \in Position
       PROVE  Flat(g, ret[0])[p] =
                  IF p = Path(s, e + 1) THEN StemNode(s, vs)
                  ELSE IF p = Path(x[1], e + 1) THEN NodeOf(h, x)
                  ELSE IF \E j \in k..e : p = Path(s, j) THEN Internal
                  ELSE Flat(h, r)[p]
  <2>1. Flat(g, ret[0])[p] = NodeOf(g, F[p]) /\ Flat(h, r)[p] = NodeOf(h, f[p])
    BY <1>15, <1>28
  <2>2. \A y \in Ref(g) : NodeOf(g, y) = IF y = Nil THEN Empty
                                         ELSE IF Inner(y) THEN Internal
                                         ELSE StemNode(y[1], g[y].values)
    BY <1>7, NodeOfIs
  <2>3. \A y \in Ref(h) : NodeOf(h, y) = IF y = Nil THEN Empty
                                         ELSE IF Inner(y) THEN Internal
                                         ELSE StemNode(y[1], h[y].values)
    BY <1>1, NodeOfIs
  <2>4. ASSUME NEW y \in Ref(h) PROVE NodeOf(g, y) = NodeOf(h, y)
    <3>1. ASSUME y # Nil, ~ Inner(y) PROVE g[y] = h[y]
      <4>1. y \in Objects(h) /\ y \in Ref(b) /\ \A d \in 0..(k - 1) : y # f[Path(s, d)]
        BY <1>8, <1>21, <3>1 DEF Ref
      <4>2. QED
        BY <1>5, <1>22, <3>1, <4>1
    <3>2. QED
      BY <1>21, <2>2, <2>3, <3>1
  <2>5. NodeOf(g, stem) = StemNode(s, vs)
    BY <1>4, <1>21, <1>24, <2>2
  <2>6. \A j \in k..e : NodeOf(g, fork(j)) = Internal
    BY <1>4, <1>21, <2>2
  <2>7. NodeOf(g, x) = NodeOf(h, x)
    BY <1>2, <2>4 DEF Ref
  <2>8. NodeOf(g, f[p]) = NodeOf(h, f[p])
    BY <1>11, <2>4
  <2>9. Path(x[1], e + 1) = Sibling(s, e + 1)
    BY <1>3
  <2>10. QED
    BY <1>29, <2>1, <2>5, <2>6, <2>7, <2>8, <2>9
<1>32. QED
  <2>1. Inserted(h, r, s, i, v).heap = g /\ Inserted(h, r, s, i, v).ref = ret[0]
    BY <1>6
  <2>2. QED
    BY <1>30, <1>31, <2>1 DEF x, k, e, vs
-----------------------------------------------------------------------------
(* delete *)

UpOver(h, b, w, s, k, c, u, n) ==
  IF n = 0 THEN c
  ELSE Collapsed(b, w[k - n], u[n - 1], h[w[k - n]].child[1 - PathBit[s][k - n]])

UpTo(h, b, w, s, k, c, n) == \E u : u = [m \in 0..n |-> UpOver(h, b, w, s, k, c, u, m)]

LEMMA UpExtend ==
  ASSUME NEW h, NEW b, NEW w, NEW s, NEW k, NEW c, NEW n \in Nat, UpTo(h, b, w, s, k, c, n)
  PROVE  UpTo(h, b, w, s, k, c, n + 1)
<1>0. PICK u : u = [m \in 0..n |-> UpOver(h, b, w, s, k, c, u, m)]
  BY DEF UpTo
<1> DEFINE y == [m \in 0..(n + 1) |-> UpOver(h, b, w, s, k, c, u, m)]
<1>1. \A m \in 0..n : y[m] = u[m]
  <2>1. \A m \in 0..n : m \in 0..(n + 1)
    OBVIOUS
  <2>2. \A m \in 0..n : y[m] = UpOver(h, b, w, s, k, c, u, m)
    BY <2>1
  <2> HIDE DEF y
  <2>3. \A m \in 0..n : u[m] = UpOver(h, b, w, s, k, c, u, m)
    BY <1>0
  <2>4. QED
    BY <2>2, <2>3
<1>2. ASSUME NEW m \in 0..(n + 1)
      PROVE  UpOver(h, b, w, s, k, c, u, m) = UpOver(h, b, w, s, k, c, y, m)
  <2> HIDE DEF y
  <2>1. m # 0 => m - 1 \in 0..n
    OBVIOUS
  <2>2. m # 0 => y[m - 1] = u[m - 1]
    BY <1>1, <2>1
  <2>3. QED
    BY <2>2 DEF UpOver
<1>3. y = [m \in 0..(n + 1) |-> UpOver(h, b, w, s, k, c, y, m)]
  BY <1>2
<1> HIDE DEF y
<1>4. QED
  BY <1>3 DEF UpTo

LEMMA UpExists ==
  ASSUME NEW h, NEW b, NEW w, NEW s, NEW k, NEW c
  PROVE  \A n \in Nat : UpTo(h, b, w, s, k, c, n)
<1> DEFINE S == {n \in Nat : UpTo(h, b, w, s, k, c, n)}
<1>1. 0 \in S
  <2> DEFINE u == [m \in 0..0 |-> c]
  <2>1. u = [m \in 0..0 |-> UpOver(h, b, w, s, k, c, u, m)]
    <3>1. \A m \in 0..0 : m = 0
      OBVIOUS
    <3>2. \A m \in 0..0 : UpOver(h, b, w, s, k, c, u, m) = c
      <4> HIDE DEF u
      <4>1. QED
        BY <3>1 DEF UpOver
    <3>3. QED
      BY <3>2
  <2> HIDE DEF u
  <2>2. QED
    BY <2>1 DEF UpTo
<1>2. ASSUME NEW n \in Nat, n \in S PROVE n + 1 \in S
  BY <1>2, UpExtend
<1>3. Nat \subseteq S
  <2> HIDE DEF S
  <2>1. QED
    BY <1>1, <1>2, InductionUp
<1>4. QED
  BY <1>3

\* What the frames of a delete return, from the end of the path up.
LEMMA DeletedIs ==
  ASSUME NEW h, Sound(h), NEW r, IsRoot(h, r), NEW s \in Stem, NEW i
  PROVE  LET k == Stop(h, r, s)
             bot == AtLeaf(h, End(h, r, s), s, i)
         IN  \E ret :
               /\ Deleted(h, r, s, i) = [heap |-> Risen(h, r, s, bot.heap, ret), ref |-> ret[0]]
               /\ ret[k] = bot.ref
               /\ \A d \in 0..(k - 1) :
                    ret[d] = Collapsed(bot.heap, Refs(h, r)[Path(s, d)], ret[d + 1],
                                       Refs(h, r)[Sibling(s, d + 1)])
<1> DEFINE k == Stop(h, r, s)
           w == Walk(h, r, s)
           bot == AtLeaf(h, End(h, r, s), s, i)
           b == bot.heap
           c == bot.ref
           up == CHOOSE u : u = [m \in 0..k |-> UpOver(h, b, w, s, k, c, u, m)]
           ret == [d \in 0..k |-> up[k - d]]
<1>1. k \in Nat
  BY StopIs, DepthIsNat
<1>2. Deleted(h, r, s, i) = [heap |-> Risen(h, r, s, b, ret), ref |-> ret[0]]
  BY DEF Deleted, Risen, UpOver
<1>3. \A d \in 0..(k - 1) :
           /\ Walk(h, r, s)[d] = Refs(h, r)[Path(s, d)]
           /\ Refs(h, r)[Sibling(s, d + 1)] = h[Refs(h, r)[Path(s, d)]].child[1 - PathBit[s][d]]
  BY WalkIs
<1> HIDE DEF b, c, k, w
<1>4. up = [m \in 0..k |-> UpOver(h, b, w, s, k, c, up, m)]
  BY <1>1, UpExists DEF UpTo
<1> HIDE DEF up
<1>5. \A m \in 0..k : up[m] = UpOver(h, b, w, s, k, c, up, m)
  BY <1>4
<1>6. ret[k] = c
  <2>1. k \in 0..k /\ k - k = 0 /\ 0 \in 0..k
    BY <1>1
  <2>2. up[0] = c
    BY <1>5, <2>1 DEF UpOver
  <2>3. QED
    BY <2>1, <2>2
<1>7. ASSUME NEW d \in 0..(k - 1)
      PROVE  ret[d] = Collapsed(b, Refs(h, r)[Path(s, d)], ret[d + 1], Refs(h, r)[Sibling(s, d + 1)])
  <2>1. /\ d \in 0..k /\ d + 1 \in 0..k /\ k - d \in 0..k /\ k - d # 0
        /\ (k - d) - 1 = k - (d + 1) /\ k - (k - d) = d
    BY <1>1
  <2>2. ret[d] = up[k - d] /\ ret[d + 1] = up[k - (d + 1)]
    BY <2>1
  <2>3. up[k - d] = Collapsed(b, w[k - (k - d)], up[(k - d) - 1],
                              h[w[k - (k - d)]].child[1 - PathBit[s][k - (k - d)]])
    BY <1>5, <2>1 DEF UpOver
  <2>4. up[k - d] = Collapsed(b, w[d], up[k - (d + 1)], h[w[d]].child[1 - PathBit[s][d]])
    BY <2>1, <2>3
  <2>5. w[d] = Refs(h, r)[Path(s, d)]
    BY <1>3 DEF k, w
  <2>6. h[w[d]].child[1 - PathBit[s][d]] = Refs(h, r)[Sibling(s, d + 1)]
    BY <1>3, <2>5 DEF k
  <2>7. QED
    BY <2>2, <2>4, <2>5, <2>6
<1> HIDE DEF ret
<1>8. QED
  BY <1>2, <1>6, <1>7 DEF b, c, k

\* AtLeaf writes at most the StemNode of s.
LEMMA AtLeafIs ==
  ASSUME NEW h, Sound(h), NEW r, IsRoot(h, r), NEW s \in Stem, NEW i \in Subindex
  PROVE  LET x == End(h, r, s)
             bot == AtLeaf(h, x, s, i)
         IN  /\ Sound(bot.heap) /\ Objects(bot.heap) = Objects(h)
             /\ \A y \in Objects(h) : y[1] # s => bot.heap[y] = h[y]
             /\ bot.ref \in {Nil, x}
             /\ x # Nil /\ x[1] # s => bot.ref = x
             /\ x # Nil /\ x[1] = s =>
                  /\ bot.heap[x].cache = None
                  /\ bot.heap[x].values = [h[x].values EXCEPT ![i] = EmptyValue]
                  /\ bot.ref = IF bot.heap[x].values = NoLeaves THEN Nil ELSE x
<1> DEFINE x == End(h, r, s)
           bot == AtLeaf(h, x, s, i)
           vs == [h[x].values EXCEPT ![i] = EmptyValue]
<1>1. CASE x = Nil
  <2>1. bot = [heap |-> h, ref |-> x]
    <3> HIDE DEF x
    <3>1. QED
      BY <1>1, NilIsNoObject DEF AtLeaf
  <2> HIDE DEF x, bot
  <2>2. bot.heap = h /\ bot.ref = x
    BY <2>1
  <2>3. QED
    BY <1>1, <2>2 DEF x, bot
<1>2. CASE x # Nil
  <2>1. x \in Objects(h) /\ IsStemObj(h, x) /\ SoundStem(h, x) /\ x[1] \in Stem
    BY <1>2, EndIs
  <2> HIDE DEF x
  <2>2. h[x].prefix = x[1] /\ h[x].values \in Leaves /\ x \in Id
    BY <2>1 DEF SoundStem, Objects
  <2>3. CASE x[1] # s
    <3>1. bot = [heap |-> h, ref |-> x]
      BY <2>2, <2>3 DEF AtLeaf
    <3> HIDE DEF bot
    <3>2. bot.heap = h /\ bot.ref = x
      BY <3>1
    <3>3. QED
      BY <2>3, <3>2 DEF x, bot
  <2>4. CASE x[1] = s
    <3>1. vs \in Leaves
      BY <2>2, ConstantAssumption DEF Leaves
    <3>2. bot = [heap |-> Put(h, x, s, vs), ref |-> IF vs = NoLeaves THEN Nil ELSE x]
      BY <2>1, <2>2, <2>4 DEF AtLeaf, Put
    <3> HIDE DEF bot, vs
    <3>3. bot.heap = Put(h, x, s, vs) /\ bot.ref = IF vs = NoLeaves THEN Nil ELSE x
      BY <3>2
    <3>4. /\ Sound(bot.heap) /\ Objects(bot.heap) = Objects(h) \cup {x}
          /\ bot.heap[x] = StemObject(s, vs)
          /\ \A y \in Objects(h) : y # x => bot.heap[y] = h[y]
      BY <2>2, <2>4, <3>1, <3>3, PutStem
    <3>5. bot.heap[x].cache = None /\ bot.heap[x].values = vs
      BY <3>4 DEF StemObject
    <3>6. Objects(bot.heap) = Objects(h)
      BY <2>1, <3>4
    <3>7. QED
      BY <2>4, <3>3, <3>4, <3>5, <3>6 DEF x, bot, vs
  <2>5. QED
    BY <2>3, <2>4
<1>3. QED
  BY <1>1, <1>2
LEMMA CollapsedIs ==
  ASSUME NEW b, Sound(b), NEW x, Inner(x), NEW c \in Ref(b), NEW o \in Ref(b)
  PROVE  Collapsed(b, x, c, o) = IF c = Nil /\ o = Nil THEN Nil
                                 ELSE IF c = Nil /\ ~ Inner(o) THEN o
                                 ELSE IF o = Nil /\ ~ Inner(c) THEN c
                                 ELSE x
<1>1. /\ IsStemObj(b, o) <=> o # Nil /\ ~ Inner(o)
      /\ IsStemObj(b, c) <=> c # Nil /\ ~ Inner(c)
  BY InnerIs
<1>2. CASE c = Nil /\ o = Nil
  <2>1. ~ IsStemObj(b, o) /\ ~ IsStemObj(b, c)
    BY <1>1, <1>2
  <2>2. Collapsed(b, x, c, o) = Nil
    BY <1>2, <2>1 DEF Collapsed
  <2>3. QED
    BY <1>2, <2>2
<1>3. CASE c = Nil /\ o # Nil /\ ~ Inner(o)
  <2>1. Collapsed(b, x, c, o) = o
    BY <1>1, <1>3 DEF Collapsed
  <2>2. QED
    BY <1>3, <2>1
<1>4. CASE c # Nil /\ o = Nil /\ ~ Inner(c)
  <2>1. Collapsed(b, x, c, o) = c
    BY <1>1, <1>4 DEF Collapsed
  <2>2. QED
    BY <1>4, <2>1
<1>5. CASE /\ ~ (c = Nil /\ o = Nil)
           /\ ~ (c = Nil /\ o # Nil /\ ~ Inner(o))
           /\ ~ (c # Nil /\ o = Nil /\ ~ Inner(c))
  <2>1. ~ (c = Nil /\ IsStemObj(b, o)) /\ ~ (o = Nil /\ IsStemObj(b, c))
    BY <1>1, <1>5
  <2>2. Collapsed(b, x, c, o) = x
    BY <1>5, <2>1 DEF Collapsed
  <2>3. QED
    BY <1>5, <2>2
<1>6. QED
  BY <1>2, <1>3, <1>4, <1>5

\* What is left beside the path below depth d, and whether it is one StemNode.
BesideRefs(h, r, s, d) == {j \in (d + 1)..Stop(h, r, s) : Refs(h, r)[Sibling(s, j)] # Nil}
LoneStem(h, r, s, d) ==
  \E j \in BesideRefs(h, r, s, d) :
    BesideRefs(h, r, s, d) = {j} /\ ~ Inner(Refs(h, r)[Sibling(s, j)])

\* The frame at depth d returns what the deepest one returned if there is nothing
\* beside the path below it, the one StemNode beside it if there is nothing else,
\* and its own InternalNode otherwise.
Returns(h, r, s, c, y, d) ==
  IF BesideRefs(h, r, s, d) = {} THEN y = c
  ELSE IF c = Nil /\ LoneStem(h, r, s, d)
       THEN /\ ~ Inner(y) /\ y # Nil
            /\ \E j \in BesideRefs(h, r, s, d) :
                 BesideRefs(h, r, s, d) = {j} /\ y = Refs(h, r)[Sibling(s, j)]
       ELSE d < Stop(h, r, s) /\ y = Refs(h, r)[Path(s, d)]

LEMMA BesideStep ==
  ASSUME NEW h, NEW r, NEW s, NEW d \in Nat, d < Stop(h, r, s), Stop(h, r, s) \in Nat
  PROVE  /\ BesideRefs(h, r, s, d) =
              IF Refs(h, r)[Sibling(s, d + 1)] = Nil THEN BesideRefs(h, r, s, d + 1)
              ELSE BesideRefs(h, r, s, d + 1) \cup {d + 1}
         /\ d + 1 \notin BesideRefs(h, r, s, d + 1)
<1> DEFINE k == Stop(h, r, s)
           f == Refs(h, r)
<1>1. (d + 1)..k = {d + 1} \cup ((d + 1) + 1)..k /\ ~ (d + 1 \in ((d + 1) + 1)..k)
  OBVIOUS
<1> HIDE DEF k, f
<1>2. QED
  BY <1>1 DEF BesideRefs, k, f

LEMMA ReturnsStep ==
  ASSUME NEW h, Sound(h), NEW r, IsRoot(h, r), NEW s \in Stem, NEW c, ~ Inner(c),
         NEW d \in Nat, d < Stop(h, r, s), NEW y, Returns(h, r, s, c, y, d + 1),
         NEW z, z = LET o == Refs(h, r)[Sibling(s, d + 1)]
                    IN  IF y = Nil /\ o = Nil THEN Nil
                        ELSE IF y = Nil /\ ~ Inner(o) THEN o
                        ELSE IF o = Nil /\ ~ Inner(y) THEN y
                        ELSE Refs(h, r)[Path(s, d)]
  PROVE  Returns(h, r, s, c, z, d)
<1> DEFINE k == Stop(h, r, s)
           f == Refs(h, r)
           o == f[Sibling(s, d + 1)]
           B == BesideRefs(h, r, s, d)
           A == BesideRefs(h, r, s, d + 1)
<1>1. k \in Nat
  BY StopIs, DepthIsNat
<1>2. B = (IF o = Nil THEN A ELSE A \cup {d + 1}) /\ d + 1 \notin A
  BY <1>1, BesideStep
<1>3. \/ A = {} /\ y = c
      \/ /\ A # {} /\ c = Nil /\ ~ Inner(y) /\ y # Nil
         /\ \E j \in A : A = {j} /\ y = f[Sibling(s, j)] /\ ~ Inner(f[Sibling(s, j)])
      \/ A # {} /\ ~ (c = Nil /\ LoneStem(h, r, s, d + 1)) /\ Inner(y)
  <2>1. CASE A = {}
    BY <2>1 DEF Returns
  <2>2. CASE A # {} /\ c = Nil /\ LoneStem(h, r, s, d + 1)
    BY <2>2 DEF Returns, LoneStem
  <2>3. CASE A # {} /\ ~ (c = Nil /\ LoneStem(h, r, s, d + 1))
    <3>1. d + 1 < k /\ y = f[Path(s, d + 1)]
      BY <2>3 DEF Returns
    <3>2. d + 1 \in 0..(k - 1)
      BY <1>1, <3>1
    <3>3. Inner(f[Path(s, d + 1)])
      BY <3>2, WalkIs
    <3>4. QED
      BY <2>3, <3>1, <3>3
  <2>4. QED
    BY <2>1, <2>2, <2>3
<1>4. z = IF y = Nil /\ o = Nil THEN Nil
          ELSE IF y = Nil /\ ~ Inner(o) THEN o
          ELSE IF o = Nil /\ ~ Inner(y) THEN y
          ELSE f[Path(s, d)]
  OBVIOUS
<1>5. LoneStem(h, r, s, d) <=> \E j \in B : B = {j} /\ ~ Inner(f[Sibling(s, j)])
  BY DEF LoneStem
<1>6. LoneStem(h, r, s, d + 1) <=> \E j \in A : A = {j} /\ ~ Inner(f[Sibling(s, j)])
  BY DEF LoneStem
<1>7. ~ Inner(Nil)
  BY DEF Inner
<1>8. o = f[Sibling(s, d + 1)]
  OBVIOUS
<1>9. Returns(h, r, s, c, z, d) <=>
        IF B = {} THEN z = c
        ELSE IF c = Nil /\ LoneStem(h, r, s, d)
             THEN ~ Inner(z) /\ z # Nil /\ \E j \in B : B = {j} /\ z = f[Sibling(s, j)]
             ELSE d < k /\ z = f[Path(s, d)]
  BY DEF Returns
<1> HIDE DEF k, f, o, A, B
<1>10. d < k
  BY DEF k
<1>11. CASE A = {} /\ y = c
  <2>1. CASE o = Nil
    BY <1>2, <1>4, <1>7, <1>9, <1>11, <2>1
  <2>2. CASE o # Nil
    <3>1. B = {d + 1}
      BY <1>2, <1>11, <2>2
    <3>2. LoneStem(h, r, s, d) <=> ~ Inner(o)
      BY <1>5, <1>8, <3>1
    <3>3. CASE c = Nil /\ ~ Inner(o)
      <4>1. z = o
        BY <1>4, <1>11, <2>2, <3>3
      <4>2. QED
        BY <1>8, <1>9, <2>2, <3>1, <3>2, <3>3, <4>1
    <3>4. CASE ~ (c = Nil /\ ~ Inner(o))
      <4>1. z = f[Path(s, d)]
        BY <1>4, <1>11, <2>2, <3>4
      <4>2. QED
        BY <1>9, <1>10, <3>1, <3>2, <3>4, <4>1
    <3>5. QED
      BY <3>3, <3>4
  <2>3. QED
    BY <2>1, <2>2
<1>12. CASE /\ A # {} /\ c = Nil /\ ~ Inner(y) /\ y # Nil
            /\ \E j \in A : A = {j} /\ y = f[Sibling(s, j)] /\ ~ Inner(f[Sibling(s, j)])
  <2>1. PICK j \in A : A = {j} /\ y = f[Sibling(s, j)] /\ ~ Inner(f[Sibling(s, j)])
    BY <1>12
  <2>2. CASE o = Nil
    <3>1. B = {j} /\ z = y /\ LoneStem(h, r, s, d)
      BY <1>2, <1>4, <1>5, <1>12, <2>1, <2>2
    <3>2. QED
      BY <1>9, <1>12, <2>1, <3>1
  <2>3. CASE o # Nil
    <3>1. B = {j, d + 1} /\ j # d + 1
      BY <1>2, <2>1, <2>3
    <3>2. ~ LoneStem(h, r, s, d)
      BY <1>5, <3>1
    <3>3. z = f[Path(s, d)]
      BY <1>4, <1>12, <2>3
    <3>4. QED
      BY <1>9, <1>10, <3>1, <3>2, <3>3
  <2>4. QED
    BY <2>2, <2>3
<1>13. CASE A # {} /\ ~ (c = Nil /\ LoneStem(h, r, s, d + 1)) /\ Inner(y)
  <2>1. z = f[Path(s, d)]
    BY <1>4, <1>7, <1>13
  <2>2. B # {} /\ ~ (c = Nil /\ LoneStem(h, r, s, d))
    <3>1. CASE o = Nil
      BY <1>2, <1>5, <1>6, <1>13, <3>1
    <3>2. CASE o # Nil
      <4>1. PICK j \in A : TRUE
        BY <1>13
      <4>2. j \in B /\ d + 1 \in B /\ j # d + 1
        BY <1>2, <3>2, <4>1
      <4>3. QED
        BY <1>5, <4>2
    <3>3. QED
      BY <3>1, <3>2
  <2>3. QED
    BY <1>9, <1>10, <2>1, <2>2
<1>14. QED
  BY <1>3, <1>11, <1>12, <1>13
\* The frames of a delete: heap b after the deepest one, which returned c.
Unwinds(h, r, s, b, c, ret) ==
  /\ Sound(b) /\ Objects(b) = Objects(h)
  /\ \A y \in Objects(h) : y[1] # s => b[y] = h[y]
  /\ c \in {Nil, End(h, r, s)} /\ (c # Nil /\ c[1] = s => b[c].cache = None)
  /\ ret[Stop(h, r, s)] = c
  /\ \A d \in 0..(Stop(h, r, s) - 1) :
       ret[d] = Collapsed(b, Refs(h, r)[Path(s, d)], ret[d + 1], Refs(h, r)[Sibling(s, d + 1)])

\* What every frame of a delete returns.
LEMMA FramesReturn ==
  ASSUME NEW h, Sound(h), NEW r, IsRoot(h, r), NEW s \in Stem, NEW b, NEW c, NEW ret,
         Unwinds(h, r, s, b, c, ret)
  PROVE  \A d \in 0..Stop(h, r, s) :
           /\ ret[d] \in Ref(h) /\ Fits(ret[d], Path(s, d)) /\ Returns(h, r, s, c, ret[d], d)
           /\ d < Stop(h, r, s) =>
                LET o == Refs(h, r)[Sibling(s, d + 1)]
                IN  ret[d] = IF ret[d + 1] = Nil /\ o = Nil THEN Nil
                             ELSE IF ret[d + 1] = Nil /\ ~ Inner(o) THEN o
                             ELSE IF o = Nil /\ ~ Inner(ret[d + 1]) THEN ret[d + 1]
                             ELSE Refs(h, r)[Path(s, d)]
<1> DEFINE k == Stop(h, r, s)
           f == Refs(h, r)
           Good(d) == /\ ret[d] \in Ref(h) /\ Fits(ret[d], Path(s, d))
                      /\ Returns(h, r, s, c, ret[d], d)
           Rule(d) == ret[d] = IF ret[d + 1] = Nil /\ f[Sibling(s, d + 1)] = Nil THEN Nil
                               ELSE IF ret[d + 1] = Nil /\ ~ Inner(f[Sibling(s, d + 1)])
                               THEN f[Sibling(s, d + 1)]
                               ELSE IF f[Sibling(s, d + 1)] = Nil /\ ~ Inner(ret[d + 1])
                               THEN ret[d + 1]
                               ELSE f[Path(s, d)]
<1>1. k \in 0..Depth /\ k \in Nat /\ k <= Depth /\ Depth \in Nat
  BY StopIs, DepthIsNat
<1>2. c \in Ref(h) /\ ~ Inner(c) /\ Fits(c, Path(s, k))
  <2>1. Path(s, k) \in Position
    BY <1>1, PathIs
  <2>2. f[Path(s, k)] \in Ref(h) /\ Fits(f[Path(s, k)], Path(s, k))
    BY <2>1, RefsFit
  <2>3. ~ IsInternal(h, f[Path(s, k)]) /\ End(h, r, s) = f[Path(s, k)]
    BY StopIs
  <2>4. ~ Inner(f[Path(s, k)])
    BY <2>2, <2>3, InnerIs
  <2>5. c \in {Nil, f[Path(s, k)]}
    BY <2>3 DEF Unwinds
  <2>6. QED
    BY <2>2, <2>4, <2>5 DEF Ref, Inner, Fits
<1>3. Good(k)
  <2>1. ret[k] = c
    BY DEF Unwinds
  <2>2. BesideRefs(h, r, s, k) = {}
    BY <1>1 DEF BesideRefs
  <2>3. QED
    BY <1>2, <2>1, <2>2 DEF Returns
<1>4. ASSUME NEW d \in 0..(k - 1), Good(d + 1)
      PROVE  Good(d) /\ Rule(d)
  <2>1. d \in 0..(Depth - 1) /\ d \in Nat /\ d < k
    BY <1>1
  <2>2. /\ Path(s, d) \in Position /\ Path(s, d + 1) \in Position /\ Sibling(s, d + 1) \in Position
        /\ Up(Path(s, d + 1)) = Path(s, d) /\ Up(Sibling(s, d + 1)) = Path(s, d)
        /\ Size(Path(s, d + 1)) # 0 /\ Size(Sibling(s, d + 1)) # 0
    BY <2>1, PathStep
  <2>3. /\ f[Path(s, d)] \in Ref(h) /\ Fits(f[Path(s, d)], Path(s, d))
        /\ f[Sibling(s, d + 1)] \in Ref(h) /\ Fits(f[Sibling(s, d + 1)], Sibling(s, d + 1))
    BY <2>2, RefsFit
  <2>4. Inner(f[Path(s, d)])
    BY WalkIs
  <2>5. Ref(b) = Ref(h) /\ Sound(b)
    BY DEF Unwinds, Ref
  <2>6. Rule(d)
    <3>1. ret[d] = Collapsed(b, f[Path(s, d)], ret[d + 1], f[Sibling(s, d + 1)])
      BY DEF Unwinds
    <3>2. QED
      BY <1>4, <2>3, <2>4, <2>5, <3>1, CollapsedIs
  <2>7. Returns(h, r, s, c, ret[d], d)
    BY <1>2, <1>4, <2>1, <2>6, ReturnsStep
  <2>8. ret[d] \in Ref(h) /\ Fits(ret[d], Path(s, d))
    <3>1. ~ Inner(ret[d + 1]) => Fits(ret[d + 1], Path(s, d))
      BY <1>4, <2>2, FitsAbove
    <3>2. ~ Inner(f[Sibling(s, d + 1)]) => Fits(f[Sibling(s, d + 1)], Path(s, d))
      BY <2>2, <2>3, FitsAbove
    <3>3. Nil \in Ref(h) /\ Fits(Nil, Path(s, d))
      BY DEF Ref, Fits
    <3> HIDE DEF f, k
    <3>4. QED
      BY <1>4, <2>3, <2>6, <3>1, <3>2, <3>3
  <2>9. QED
    BY <2>6, <2>7, <2>8
<1> HIDE DEF Good, Rule
<1>5. \A n \in Nat : n <= k => Good(k - n)
  <2> DEFINE S == {n \in Nat : n <= k => Good(k - n)}
  <2>1. 0 \in S
    BY <1>1, <1>3
  <2>2. ASSUME NEW n \in Nat, n \in S
        PROVE  n + 1 \in S
    <3>1. CASE n + 1 <= k
      <4>1. k - (n + 1) \in 0..(k - 1) /\ (k - (n + 1)) + 1 = k - n /\ n <= k
        BY <1>1, <3>1
      <4>2. Good(k - n)
        BY <2>2, <4>1
      <4>3. QED
        BY <1>4, <4>1, <4>2
    <3>2. CASE ~ (n + 1 <= k)
      BY <3>2
    <3>3. QED
      BY <3>1, <3>2
  <2> HIDE DEF S
  <2>3. Nat \subseteq S
    BY <2>1, <2>2, InductionUp
  <2>4. QED
    BY <2>3 DEF S
<1>6. ASSUME NEW d \in 0..k PROVE Good(d) /\ (d < k => Rule(d))
  <2>1. k - d \in Nat /\ k - d <= k /\ k - (k - d) = d
    BY <1>1
  <2>2. Good(d)
    BY <1>5, <2>1
  <2>3. ASSUME d < k PROVE Rule(d)
    <3>1. d \in 0..(k - 1) /\ k - (d + 1) \in Nat /\ k - (d + 1) <= k /\ k - (k - (d + 1)) = d + 1
      BY <1>1, <2>3
    <3>2. Good(d + 1)
      BY <1>5, <3>1
    <3>3. QED
      BY <1>4, <3>1, <3>2
  <2>4. QED
    BY <2>2, <2>3
<1>7. QED
  BY <1>6 DEF Good, Rule

\* So the frames make a sound heap, with the tree that RewiredFlat says.
LEMMA FramesRise ==
  ASSUME NEW h, Sound(h), NEW r, IsRoot(h, r), NEW s \in Stem, NEW b, NEW c, NEW ret,
         Unwinds(h, r, s, b, c, ret)
  PROVE  Rising(h, r, s, b, ret) /\ Hanging(h, r, s, b, ret)
<1> DEFINE k == Stop(h, r, s)
           f == Refs(h, r)
<1>1. k \in 0..Depth /\ k \in Nat /\ k <= Depth /\ Depth \in Nat
  BY StopIs, DepthIsNat
<1>2. \A d \in 0..k :
         /\ ret[d] \in Ref(h) /\ Fits(ret[d], Path(s, d)) /\ Returns(h, r, s, c, ret[d], d)
         /\ d < k => ret[d] = IF ret[d + 1] = Nil /\ f[Sibling(s, d + 1)] = Nil THEN Nil
                              ELSE IF ret[d + 1] = Nil /\ ~ Inner(f[Sibling(s, d + 1)])
                              THEN f[Sibling(s, d + 1)]
                              ELSE IF f[Sibling(s, d + 1)] = Nil /\ ~ Inner(ret[d + 1])
                              THEN ret[d + 1]
                              ELSE f[Path(s, d)]
  BY FramesReturn
<1>3. Rising(h, r, s, b, ret)
  <2>1. Ref(b) = Ref(h)
    BY DEF Unwinds, Ref
  <2>2. QED
    BY <1>2, <2>1 DEF Rising, Unwinds
<1>4. c = Nil \/ (c = f[Path(s, k)] /\ ~ Inner(c))
  <2>1. Path(s, k) \in Position
    BY <1>1, PathIs
  <2>2. f[Path(s, k)] \in Ref(h)
    BY <2>1, RefsFit
  <2>3. ~ IsInternal(h, f[Path(s, k)]) /\ End(h, r, s) = f[Path(s, k)]
    BY StopIs
  <2>4. ~ Inner(f[Path(s, k)])
    BY <2>2, <2>3, InnerIs
  <2>5. QED
    BY <2>3, <2>4 DEF Unwinds
<1>5. ~ Inner(ret[k])
  BY <1>4 DEF Unwinds, Inner
<1>6. ASSUME NEW d \in 0..(k - 1)
      PROVE  IF Inner(ret[d]) THEN ret[d] = f[Path(s, d)]
             ELSE ~ Inner(ret[d + 1]) /\ ~ Inner(f[Sibling(s, d + 1)])
  <2>1. d \in 0..k /\ d < k
    BY <1>1
  <2>2. Inner(f[Path(s, d)])
    BY WalkIs
  <2>3. ~ Inner(Nil)
    BY DEF Inner
  <2>4. ret[d] = IF ret[d + 1] = Nil /\ f[Sibling(s, d + 1)] = Nil THEN Nil
                 ELSE IF ret[d + 1] = Nil /\ ~ Inner(f[Sibling(s, d + 1)])
                 THEN f[Sibling(s, d + 1)]
                 ELSE IF f[Sibling(s, d + 1)] = Nil /\ ~ Inner(ret[d + 1])
                 THEN ret[d + 1]
                 ELSE f[Path(s, d)]
    BY <1>2, <2>1
  <2> HIDE DEF k, f
  <2>5. QED
    BY <2>2, <2>3, <2>4
<1>7. ASSUME NEW d \in 0..k, ret[d] # Nil, ~ Inner(ret[d])
      PROVE  IF ret[d][1] = s THEN b[ret[d]].cache = None ELSE ret[d] \in Reach(h, {r})
  <2>1. Returns(h, r, s, c, ret[d], d)
    BY <1>2
  <2>2. CASE ret[d] = c
    <3>1. c = f[Path(s, k)] /\ Path(s, k) \in Position
      BY <1>1, <1>4, <1>7, <2>2, PathIs
    <3>2. c \in Reach(h, {r})
      BY <1>7, <2>2, <3>1 DEF Reach
    <3>3. QED
      BY <1>7, <2>2, <3>2 DEF Unwinds
  <2>3. CASE \E j \in BesideRefs(h, r, s, d) : ret[d] = f[Sibling(s, j)]
    <3>1. PICK j \in BesideRefs(h, r, s, d) : ret[d] = f[Sibling(s, j)]
      BY <2>3
    <3>2. j \in 1..k /\ j \in 1..Depth /\ j - 1 \in 0..(Depth - 1) /\ (j - 1) + 1 = j
      BY <1>1 DEF BesideRefs
    <3>3. Sibling(s, j) \in Position /\ Size(Sibling(s, j)) = j
      BY <3>2, SiblingIs
    <3>4. ret[d][1] # s
      <4>1. SUFFICES ASSUME ret[d][1] = s PROVE FALSE
        OBVIOUS
      <4>2. Sibling(s, j) = Path(s, k)
        BY <1>7, <3>1, <3>3, <4>1, StemIsEnd
      <4>3. j = k
        BY <1>1, <3>3, <4>2, PathIs
      <4>4. Path(s, j) # Sibling(s, j)
        BY <3>2, PathChild
      <4>5. QED
        BY <4>2, <4>3, <4>4
    <3>5. ret[d] \in Reach(h, {r})
      BY <1>7, <3>1, <3>3 DEF Reach
    <3>6. QED
      BY <3>4, <3>5
  <2>4. CASE d < k /\ ret[d] = f[Path(s, d)]
    <3>1. d \in 0..(k - 1)
      BY <1>1, <2>4
    <3>2. Inner(f[Path(s, d)])
      BY <3>1, WalkIs
    <3>3. QED
      BY <1>7, <2>4, <3>2
  <2>5. QED
    BY <2>1, <2>2, <2>3, <2>4 DEF Returns
<1>8. QED
  BY <1>3, <1>5, <1>6, <1>7 DEF Hanging

\* delete: a step on the path of s.
LEMMA DeletedUnwinds ==
  ASSUME NEW h, Sound(h), NEW r, IsRoot(h, r), NEW s \in Stem, NEW i \in Subindex
  PROVE  LET b == AtLeaf(h, End(h, r, s), s, i).heap
             c == AtLeaf(h, End(h, r, s), s, i).ref
         IN  \E ret : /\ Deleted(h, r, s, i) = [heap |-> Risen(h, r, s, b, ret), ref |-> ret[0]]
                      /\ Unwinds(h, r, s, b, c, ret)
<1> DEFINE x == End(h, r, s)
           b == AtLeaf(h, x, s, i).heap
           c == AtLeaf(h, x, s, i).ref
           k == Stop(h, r, s)
<1>1. PICK ret :
        /\ Deleted(h, r, s, i) = [heap |-> Risen(h, r, s, b, ret), ref |-> ret[0]]
        /\ ret[k] = c
        /\ \A d \in 0..(k - 1) :
             ret[d] = Collapsed(b, Refs(h, r)[Path(s, d)], ret[d + 1],
                                Refs(h, r)[Sibling(s, d + 1)])
  BY DeletedIs
<1>2. /\ Sound(b) /\ Objects(b) = Objects(h)
      /\ \A y \in Objects(h) : y[1] # s => b[y] = h[y]
      /\ c \in {Nil, x}
      /\ x # Nil /\ x[1] = s => b[x].cache = None
  <2> DEFINE bot == AtLeaf(h, x, s, i)
  <2>1. /\ Sound(bot.heap) /\ Objects(bot.heap) = Objects(h)
        /\ \A y \in Objects(h) : y[1] # s => bot.heap[y] = h[y]
        /\ bot.ref \in {Nil, x}
        /\ x # Nil /\ x[1] # s => bot.ref = x
        /\ x # Nil /\ x[1] = s =>
             /\ bot.heap[x].cache = None
             /\ bot.heap[x].values = [h[x].values EXCEPT ![i] = EmptyValue]
             /\ bot.ref = IF bot.heap[x].values = NoLeaves THEN Nil ELSE x
    BY AtLeafIs
  <2>2. b = bot.heap /\ c = bot.ref
    OBVIOUS
  <2> HIDE DEF x, b, c, bot
  <2>3. QED
    BY <2>1, <2>2
<1> HIDE DEF x, b, c
<1>3. c # Nil /\ c[1] = s => b[c].cache = None
  BY <1>2
<1>4. Unwinds(h, r, s, b, c, ret)
  BY <1>1, <1>2, <1>3 DEF Unwinds, x
<1>5. QED
  BY <1>1, <1>4 DEF x, b, c
-----------------------------------------------------------------------------
(* The operators of PBTree on the tree that a root object stands for *)

LEMMA TreeOperators ==
  /\ Tree!Position = Position /\ Tree!NoLeaves = NoLeaves
  /\ Tree!Empty = Empty /\ Tree!Internal = Internal
  /\ \A s, d : Tree!Path(s, d) = Path(s, d) /\ Tree!Sibling(s, d) = Sibling(s, d)
  /\ \A s, vs : Tree!StemNode(s, vs) = StemNode(s, vs)
  /\ \A S : Tree!Least(S) = Least(S)
BY DEF Tree!Position, Position, Tree!NoLeaves, NoLeaves, Tree!Empty, Empty, Tree!Internal,
       Internal, Tree!Path, Path, Tree!Sibling, Sibling, Tree!StemNode, StemNode,
       Tree!Least, Least

LEMMA NodesDiffer ==
  /\ Empty # Internal
  /\ ~ Tree!IsStem(Empty) /\ ~ Tree!IsStem(Internal)
  /\ \A s, vs : /\ StemNode(s, vs) # Empty /\ StemNode(s, vs) # Internal
                /\ Tree!IsStem(StemNode(s, vs)) /\ StemNode(s, vs).prefix = s
                /\ StemNode(s, vs).values = vs
                /\ \A t : Tree!Holds(StemNode(s, vs), t) <=> s = t
  /\ \A t : ~ Tree!Holds(Empty, t)
<1>1. Empty.kind = "empty" /\ Internal.kind = "internal"
  BY DEF Empty, Internal
<1>2. \A s, vs : /\ StemNode(s, vs).kind = "stem" /\ StemNode(s, vs).prefix = s
                 /\ StemNode(s, vs).values = vs
  BY DEF StemNode
<1>3. QED
  BY <1>1, <1>2 DEF Tree!IsStem, Tree!Holds

\* The node a reference stands for.
LEMMA FlatNode ==
  ASSUME NEW h, Sound(h), NEW r, IsRoot(h, r), NEW p \in Position
  PROVE  LET x == Refs(h, r)[p]
         IN  /\ Flat(h, r)[p] = IF x = Nil THEN Empty
                                ELSE IF Inner(x) THEN Internal
                                ELSE StemNode(x[1], h[x].values)
             /\ Flat(h, r)[p] = NodeOf(h, x)
             /\ Flat(h, r)[p] = Empty <=> x = Nil
             /\ Flat(h, r)[p] = Internal <=> Inner(x)
             /\ Tree!IsStem(Flat(h, r)[p]) <=> x # Nil /\ ~ Inner(x)
<1> DEFINE x == Refs(h, r)[p]
<1>1. x \in Ref(h)
  BY RefsFit
<1>2. Flat(h, r)[p] = NodeOf(h, x)
  BY DEF Flat
<1>3. ~ Inner(Nil)
  BY DEF Inner
<1> HIDE DEF x
<1>4. NodeOf(h, x) = IF x = Nil THEN Empty
                     ELSE IF Inner(x) THEN Internal
                     ELSE StemNode(x[1], h[x].values)
  BY <1>1, NodeOfIs
<1>5. QED
  BY <1>2, <1>3, <1>4, NodesDiffer DEF x

\* The descent ends at the same place.
LEMMA FlatDescent ==
  ASSUME NEW h, Sound(h), NEW r, IsRoot(h, r), NEW s \in Stem
  PROVE  /\ Tree!StopDepth(Flat(h, r), s) = Stop(h, r, s)
         /\ Tree!Reached(Flat(h, r), s) = NodeOf(h, End(h, r, s))
         /\ NodeOf(h, End(h, r, s)) =
              IF End(h, r, s) = Nil THEN Empty
              ELSE StemNode(End(h, r, s)[1], h[End(h, r, s)].values)
<1> DEFINE t == Flat(h, r)
           k == Stop(h, r, s)
           f == Refs(h, r)
<1>1. ASSUME NEW d \in 0..Depth
      PROVE  t[Path(s, d)] # Internal <=> ~ IsInternal(h, Walk(h, r, s)[d])
  <2>1. Path(s, d) \in Position /\ f[Path(s, d)] \in Ref(h)
    BY PathIs, RefsFit
  <2>2. t[Path(s, d)] = Internal <=> Inner(f[Path(s, d)])
    BY <2>1, FlatNode
  <2>3. Walk(h, r, s)[d] = f[Path(s, d)]
    BY DEF Walk
  <2>4. QED
    BY <2>1, <2>2, <2>3, InnerIs
<1>2. {d \in 0..Depth : t[Path(s, d)] # Internal} =
      {d \in 0..Depth : ~ IsInternal(h, Walk(h, r, s)[d])}
  BY <1>1
<1>3. Tree!StopDepth(t, s) = k
  <2>1. Tree!StopDepth(t, s) = Tree!Least({d \in 0..Depth : t[Tree!Path(s, d)] # Tree!Internal})
    BY DEF Tree!StopDepth
  <2>2. {d \in 0..Depth : t[Tree!Path(s, d)] # Tree!Internal} =
        {d \in 0..Depth : t[Path(s, d)] # Internal}
    BY TreeOperators
  <2>3. k = Least({d \in 0..Depth : ~ IsInternal(h, Walk(h, r, s)[d])})
    BY DEF Stop
  <2>4. QED
    BY <1>2, <2>1, <2>2, <2>3, TreeOperators
<1>4. k \in 0..Depth /\ ~ IsInternal(h, f[Path(s, k)]) /\ End(h, r, s) = f[Path(s, k)]
  BY StopIs
<1>5. Path(s, k) \in Position /\ f[Path(s, k)] \in Ref(h)
  BY <1>4, PathIs, RefsFit
<1>6. ~ Inner(f[Path(s, k)])
  BY <1>4, <1>5, InnerIs
<1>7. Tree!Reached(t, s) = t[Path(s, k)]
  BY <1>3, TreeOperators DEF Tree!Reached
<1> HIDE DEF t, k, f
<1>8. t[Path(s, k)] = NodeOf(h, f[Path(s, k)])
  BY <1>5, FlatNode DEF t, f
<1>9. NodeOf(h, f[Path(s, k)]) = IF f[Path(s, k)] = Nil THEN Empty
                                 ELSE StemNode(f[Path(s, k)][1], h[f[Path(s, k)]].values)
  BY <1>5, <1>6, NodeOfIs
<1>10. QED
  BY <1>3, <1>4, <1>7, <1>8, <1>9 DEF t, k
\* A StemNode beside the path of s is another stem's.
LEMMA BesideOther ==
  ASSUME NEW h, Sound(h), NEW r, IsRoot(h, r), NEW s \in Stem,
         NEW j \in 1..Stop(h, r, s), Refs(h, r)[Sibling(s, j)] # Nil
  PROVE  Refs(h, r)[Sibling(s, j)][1] # s
<1> DEFINE k == Stop(h, r, s)
<1>1. k \in 0..Depth /\ k <= Depth /\ Depth \in Nat
  BY StopIs, DepthIsNat
<1>2. j \in 1..Depth /\ j - 1 \in 0..(Depth - 1) /\ (j - 1) + 1 = j
  BY <1>1
<1>3. Sibling(s, j) \in Position /\ Size(Sibling(s, j)) = j
  BY <1>2, SiblingIs
<1>4. SUFFICES ASSUME Refs(h, r)[Sibling(s, j)][1] = s PROVE FALSE
  OBVIOUS
<1>5. Sibling(s, j) = Path(s, k)
  BY <1>3, <1>4, StemIsEnd
<1>6. j = k
  BY <1>1, <1>3, <1>5, PathIs
<1>7. Path(s, j) # Sibling(s, j)
  BY <1>2, PathChild
<1>8. QED
  BY <1>5, <1>6, <1>7

\* The nodes that the frames of a delete return.
LEMMA FramesAreNodes ==
  ASSUME NEW h, Sound(h), NEW r, IsRoot(h, r), NEW s \in Stem, NEW b, NEW c, NEW ret,
         Unwinds(h, r, s, b, c, ret), NEW d \in 0..Stop(h, r, s)
  PROVE  /\ NodeOf(b, ret[d]) = Tree!Frame(Flat(h, r), s, NodeOf(b, c), Stop(h, r, s), d)
         /\ NodeOf(b, ret[d]) = Internal <=> Inner(ret[d])
<1> DEFINE k == Stop(h, r, s)
           f == Refs(h, r)
           t == Flat(h, r)
           n == NodeOf(b, c)
           B == BesideRefs(h, r, s, d)
<1>1. /\ k \in 0..Depth /\ k \in Nat /\ k <= Depth /\ Depth \in Nat /\ d \in Nat
      /\ \A j \in (d + 1)..k : j \in 1..k /\ j \in 1..Depth /\ j \in Nat
  BY StopIs, DepthIsNat
<1>2. /\ Sound(b) /\ Ref(b) = Ref(h) /\ c \in {Nil, End(h, r, s)}
      /\ \A y \in Objects(h) : y[1] # s => b[y] = h[y]
  BY DEF Unwinds, Ref
<1>3. ret[d] \in Ref(h) /\ Returns(h, r, s, c, ret[d], d)
  BY FramesReturn
<1>4. NodeOf(b, ret[d]) = IF ret[d] = Nil THEN Empty
                          ELSE IF Inner(ret[d]) THEN Internal
                          ELSE StemNode(ret[d][1], b[ret[d]].values)
  BY <1>2, <1>3, NodeOfIs
<1>5. NodeOf(b, ret[d]) = Internal <=> Inner(ret[d])
  BY <1>4, NodesDiffer DEF Inner
<1>6. n = Empty <=> c = Nil
  <2>1. Path(s, k) \in Position
    BY <1>1, PathIs
  <2>2. End(h, r, s) \in Ref(h) /\ ~ Inner(End(h, r, s))
    BY <2>1, RefsFit, StopIs, InnerIs
  <2>3. c \in Ref(b)
    BY <1>2, <2>2 DEF Ref
  <2>4. n = IF c = Nil THEN Empty ELSE IF Inner(c) THEN Internal
            ELSE StemNode(c[1], b[c].values)
    BY <1>2, <2>3, NodeOfIs
  <2> HIDE DEF n
  <2>5. QED
    BY <2>4, NodesDiffer
<1>7. ASSUME NEW j \in (d + 1)..k
      PROVE  /\ Sibling(s, j) \in Position /\ f[Sibling(s, j)] \in Ref(h)
             /\ t[Sibling(s, j)] = Empty <=> f[Sibling(s, j)] = Nil
             /\ Tree!IsStem(t[Sibling(s, j)]) <=>
                  f[Sibling(s, j)] # Nil /\ ~ Inner(f[Sibling(s, j)])
             /\ f[Sibling(s, j)] # Nil => NodeOf(b, f[Sibling(s, j)]) = t[Sibling(s, j)]
  <2>1. Sibling(s, j) \in Position
    BY <1>1, SiblingIs
  <2>2. f[Sibling(s, j)] \in Ref(h)
    BY <2>1, RefsFit
  <2>3. /\ t[Sibling(s, j)] = Empty <=> f[Sibling(s, j)] = Nil
        /\ Tree!IsStem(t[Sibling(s, j)]) <=>
                  f[Sibling(s, j)] # Nil /\ ~ Inner(f[Sibling(s, j)])
        /\ t[Sibling(s, j)] = IF f[Sibling(s, j)] = Nil THEN Empty
                              ELSE IF Inner(f[Sibling(s, j)]) THEN Internal
                              ELSE StemNode(f[Sibling(s, j)][1], h[f[Sibling(s, j)]].values)
    BY <2>1, FlatNode
  <2>4. ASSUME f[Sibling(s, j)] # Nil
        PROVE  NodeOf(b, f[Sibling(s, j)]) = t[Sibling(s, j)]
    <3>1. f[Sibling(s, j)][1] # s
      BY <1>1, <2>4, BesideOther
    <3>2. f[Sibling(s, j)] \in Objects(h)
      BY <2>2, <2>4 DEF Ref
    <3> HIDE DEF f, t
    <3>3. b[f[Sibling(s, j)]] = h[f[Sibling(s, j)]]
      BY <1>2, <3>1, <3>2
    <3>4. NodeOf(b, f[Sibling(s, j)]) =
            IF f[Sibling(s, j)] = Nil THEN Empty
            ELSE IF Inner(f[Sibling(s, j)]) THEN Internal
            ELSE StemNode(f[Sibling(s, j)][1], b[f[Sibling(s, j)]].values)
      BY <1>2, <2>2, NodeOfIs
    <3>5. QED
      BY <2>3, <3>3, <3>4
  <2>5. QED
    BY <2>1, <2>2, <2>3, <2>4
<1>8. B = {j \in (d + 1)..k : f[Sibling(s, j)] # Nil}
  BY DEF BesideRefs
<1>9. Tree!Beside(t, s, d, k) = B
  <2>1. Tree!Beside(t, s, d, k) = {j \in (d + 1)..k : t[Tree!Sibling(s, j)] # Tree!Empty}
    BY DEF Tree!Beside
  <2>2. Tree!Beside(t, s, d, k) = {j \in (d + 1)..k : t[Sibling(s, j)] # Empty}
    BY <2>1, TreeOperators
  <2> HIDE DEF t, f, k, B
  <2>3. QED
    BY <1>7, <1>8, <2>2
<1>10. Tree!Frame(t, s, n, k, d) =
         IF B = {} THEN n
         ELSE IF n = Empty /\ \E j \in B : B = {j} /\ Tree!IsStem(t[Sibling(s, j)])
         THEN t[Sibling(s, Least(B))] ELSE Internal
  <2> HIDE DEF t, n, k, B
  <2>1. Tree!Frame(t, s, n, k, d) =
          IF B = {} THEN n
          ELSE IF n = Tree!Empty /\ \E j \in B : B = {j} /\ Tree!IsStem(t[Tree!Sibling(s, j)])
          THEN t[Tree!Sibling(s, Tree!Least(B))] ELSE Tree!Internal
    BY <1>9 DEF Tree!Frame
  <2>2. QED
    BY <2>1, TreeOperators
<1>11. LoneStem(h, r, s, d) <=> \E j \in B : B = {j} /\ Tree!IsStem(t[Sibling(s, j)])
  <2>1. LoneStem(h, r, s, d) <=> \E j \in B : B = {j} /\ ~ Inner(f[Sibling(s, j)])
    BY DEF LoneStem
  <2> HIDE DEF t, f, k, B
  <2>2. QED
    BY <1>7, <1>8, <2>1
<1>12. CASE B = {}
  <2>1. ret[d] = c
    BY <1>3, <1>12 DEF Returns
  <2>2. QED
    BY <1>5, <1>10, <1>12, <2>1
<1>13. CASE B # {} /\ c = Nil /\ LoneStem(h, r, s, d)
  <2>1. /\ ~ Inner(ret[d]) /\ ret[d] # Nil
        /\ \E j \in B : B = {j} /\ ret[d] = f[Sibling(s, j)]
    BY <1>3, <1>13 DEF Returns
  <2>2. PICK j \in B : B = {j} /\ ret[d] = f[Sibling(s, j)]
    BY <2>1
  <2> HIDE DEF t, f, k, B, n
  <2>3. j \in (d + 1)..k /\ j \in Nat
    BY <1>1, <1>8
  <2>4. Least(B) = j
    BY <2>2, <2>3, LeastIsLeast
  <2>5. Tree!Frame(t, s, n, k, d) = t[Sibling(s, j)]
    BY <1>6, <1>10, <1>11, <1>13, <2>4
  <2>6. NodeOf(b, ret[d]) = t[Sibling(s, j)]
    BY <1>7, <2>1, <2>2, <2>3
  <2>7. QED
    BY <1>5, <2>5, <2>6 DEF t, n, k
<1>14. CASE B # {} /\ ~ (c = Nil /\ LoneStem(h, r, s, d))
  <2>1. d < k /\ ret[d] = f[Path(s, d)]
    BY <1>3, <1>14 DEF Returns
  <2>2. d \in 0..(k - 1)
    BY <1>1, <2>1
  <2>3. Inner(ret[d])
    BY <2>1, <2>2, WalkIs
  <2> HIDE DEF t, f, k, B, n
  <2>4. QED
    BY <1>5, <1>6, <1>10, <1>11, <1>14, <2>3 DEF t, n, k
<1>15. QED
  BY <1>12, <1>13, <1>14
LEMMA ClearedIs ==
  ASSUME NEW h, Sound(h), NEW r, IsRoot(h, r), NEW s \in Stem, NEW i \in Subindex
  PROVE  LET bot == AtLeaf(h, End(h, r, s), s, i)
         IN  NodeOf(bot.heap, bot.ref) = Tree!Cleared(Tree!Reached(Flat(h, r), s), s, i)
<1> DEFINE x == End(h, r, s)
           bot == AtLeaf(h, x, s, i)
           b == bot.heap
           c == bot.ref
           n == Tree!Reached(Flat(h, r), s)
           vs == [n.values EXCEPT ![i] = EmptyValue]
<1>1. /\ Sound(b) /\ Objects(b) = Objects(h)
      /\ \A y \in Objects(h) : y[1] # s => b[y] = h[y]
      /\ c \in {Nil, x}
      /\ x # Nil /\ x[1] # s => c = x
      /\ x # Nil /\ x[1] = s =>
           /\ b[x].cache = None
           /\ b[x].values = [h[x].values EXCEPT ![i] = EmptyValue]
           /\ c = IF b[x].values = NoLeaves THEN Nil ELSE x
  <2>1. /\ Sound(bot.heap) /\ Objects(bot.heap) = Objects(h)
        /\ \A y \in Objects(h) : y[1] # s => bot.heap[y] = h[y]
        /\ bot.ref \in {Nil, x}
        /\ x # Nil /\ x[1] # s => bot.ref = x
        /\ x # Nil /\ x[1] = s =>
             /\ bot.heap[x].cache = None
             /\ bot.heap[x].values = [h[x].values EXCEPT ![i] = EmptyValue]
             /\ bot.ref = IF bot.heap[x].values = NoLeaves THEN Nil ELSE x
    BY AtLeafIs
  <2>2. b = bot.heap /\ c = bot.ref
    OBVIOUS
  <2> HIDE DEF x, b, c, bot
  <2>3. QED
    BY <2>1, <2>2
<1>2. n = IF x = Nil THEN Empty ELSE StemNode(x[1], h[x].values)
  BY FlatDescent
<1>3. x # Nil => x \in Objects(h) /\ x[1] \in Stem /\ ~ Inner(x)
  BY EndIs, NamesAssumption DEF Inner
<1>4. Tree!Cleared(n, s, i) =
        IF ~ Tree!Holds(n, s) THEN n
        ELSE IF vs = NoLeaves THEN Empty ELSE StemNode(s, vs)
  <2>1. /\ ~ Tree!Holds(n, s) => Tree!Cleared(n, s, i) = n
        /\ Tree!Holds(n, s) /\ vs = Tree!NoLeaves => Tree!Cleared(n, s, i) = Tree!Empty
        /\ Tree!Holds(n, s) /\ vs # Tree!NoLeaves =>
             Tree!Cleared(n, s, i) = Tree!StemNode(s, vs)
    <3> HIDE DEF n
    <3>1. CASE ~ Tree!Holds(n, s)
      BY <3>1 DEF Tree!Cleared
    <3>2. CASE Tree!Holds(n, s) /\ vs = Tree!NoLeaves
      BY <3>2 DEF Tree!Cleared
    <3>3. CASE Tree!Holds(n, s) /\ vs # Tree!NoLeaves
      BY <3>3 DEF Tree!Cleared
    <3>4. QED
      BY <3>1, <3>2, <3>3
  <2> HIDE DEF n, vs
  <2>2. QED
    BY <2>1, TreeOperators
<1> HIDE DEF x, bot, n, vs
<1>5. CASE x = Nil
  <2>1. n = Empty /\ ~ Tree!Holds(n, s) /\ c = Nil
    BY <1>1, <1>2, <1>5, NodesDiffer
  <2>2. NodeOf(b, Nil) = Empty
    BY <1>1, NodeOfIs DEF Ref
  <2>3. QED
    BY <1>4, <2>1, <2>2 DEF bot, x, n
<1>6. CASE x # Nil /\ x[1] # s
  <2>1. n = StemNode(x[1], h[x].values) /\ ~ Tree!Holds(n, s) /\ c = x
    BY <1>1, <1>2, <1>6, NodesDiffer
  <2>2. b[x] = h[x]
    BY <1>1, <1>3, <1>6
  <2>3. NodeOf(b, x) = StemNode(x[1], b[x].values)
    BY <1>1, <1>3, <1>6, NodeOfIs DEF Ref
  <2>4. QED
    BY <1>4, <2>1, <2>2, <2>3 DEF bot, x, n
<1>7. CASE x # Nil /\ x[1] = s
  <2>1. n = StemNode(s, h[x].values)
    BY <1>2, <1>7
  <2>2. n.values = h[x].values /\ Tree!Holds(n, s)
    BY <2>1, NodesDiffer
  <2>3. b[x].values = vs /\ c = (IF vs = NoLeaves THEN Nil ELSE x)
    BY <1>1, <1>7, <2>2 DEF vs
  <2>4. NodeOf(b, Nil) = Empty /\ NodeOf(b, x) = StemNode(x[1], b[x].values)
    BY <1>1, <1>3, <1>7, NodeOfIs DEF Ref
  <2>5. QED
    BY <1>4, <1>7, <2>2, <2>3, <2>4 DEF bot, x, n
<1>8. QED
  BY <1>5, <1>6, <1>7

\* delete makes the tree that PBTree says, by a step on the path of s.
LEMMA DeleteIs ==
  ASSUME NEW h, Sound(h), NEW r, IsRoot(h, r), NEW s \in Stem, NEW i \in Subindex
  PROVE  LET res == Deleted(h, r, s, i)
             t == Flat(h, r)
         IN  /\ Stepped(h, r, s, res.heap, res.ref)
             /\ Flat(res.heap, res.ref) =
                  Tree!Unwound(t, s, Tree!Cleared(Tree!Reached(t, s), s, i), Tree!StopDepth(t, s))
<1> DEFINE b == AtLeaf(h, End(h, r, s), s, i).heap
           c == AtLeaf(h, End(h, r, s), s, i).ref
           t == Flat(h, r)
           k == Stop(h, r, s)
           n == NodeOf(b, c)
<1>1. PICK ret : /\ Deleted(h, r, s, i) = [heap |-> Risen(h, r, s, b, ret), ref |-> ret[0]]
                 /\ Unwinds(h, r, s, b, c, ret)
  BY DeletedUnwinds
<1>2. n = Tree!Cleared(Tree!Reached(t, s), s, i)
  BY ClearedIs
<1>3. Tree!StopDepth(t, s) = k /\ k \in 0..Depth /\ k \in Nat /\ k <= Depth /\ Depth \in Nat
  BY FlatDescent, StopIs, DepthIsNat
<1> HIDE DEF b, c, t, k, n
<1> DEFINE u == Flat(Risen(h, r, s, b, ret), ret[0])
<1>4. Rising(h, r, s, b, ret) /\ Hanging(h, r, s, b, ret)
  BY <1>1, FramesRise
<1>5. Stepped(h, r, s, Risen(h, r, s, b, ret), ret[0])
  BY <1>4, RewiredStepped
<1>6. \A d \in 0..k : /\ NodeOf(b, ret[d]) = Tree!Frame(t, s, n, k, d)
                      /\ Tree!Frame(t, s, n, k, d) = Internal <=> Inner(ret[d])
  <2>1. TAKE d \in 0..k
  <2>2. /\ NodeOf(b, ret[d]) = Tree!Frame(t, s, n, k, d)
        /\ NodeOf(b, ret[d]) = Internal <=> Inner(ret[d])
    BY <1>1, FramesAreNodes DEF t, n, k
  <2>3. QED
    BY <2>2
<1>7. ASSUME NEW p \in Position
      PROVE  u[p] = Tree!Unwound(t, s, n, k)[p]
  <2>1. u[p] = IF Dropped(s, k, ret, p) THEN Empty
               ELSE IF Through(s, p) /\ Size(p) \in 0..k THEN NodeOf(b, ret[Size(p)])
               ELSE t[p]
    BY <1>4, RewiredFlat DEF t, k
  <2>2. Tree!Unwound(t, s, n, k)[p] =
          IF \E d \in 1..k : /\ p \in {Path(s, d), Sibling(s, d)}
                             /\ Tree!Frame(t, s, n, k, d - 1) # Internal
          THEN Empty
          ELSE IF \E d \in 0..k : p = Path(s, d)
          THEN Tree!Frame(t, s, n, k, CHOOSE d \in 0..k : p = Path(s, d))
          ELSE t[p]
    BY TreeOperators DEF Tree!Unwound
  <2>3. Dropped(s, k, ret, p) <=> \E d \in 1..k : /\ p \in {Path(s, d), Sibling(s, d)}
                                                  /\ Tree!Frame(t, s, n, k, d - 1) # Internal
    <3>1. \A d \in 1..k : Tree!Frame(t, s, n, k, d - 1) # Internal <=> ~ Inner(ret[d - 1])
      <4>1. TAKE d \in 1..k
      <4>2. d - 1 \in 0..k
        BY <1>3
      <4>3. QED
        BY <1>6, <4>2
    <3>2. QED
      BY <3>1 DEF Dropped
  <2>4. /\ Through(s, p) /\ Size(p) \in 0..k <=> \E d \in 0..k : p = Path(s, d)
        /\ \A d \in 0..k : p = Path(s, d) => d = Size(p)
    <3>1. \A d \in 0..k : d \in 0..Depth
      BY <1>3
    <3>2. /\ Through(s, p) => p = Path(s, Size(p))
          /\ \A d \in 0..Depth : p = Path(s, d) => Through(s, p) /\ Size(p) = d
      BY ThroughIs
    <3>3. QED
      BY <3>1, <3>2
  <2>5. ASSUME \E d \in 0..k : p = Path(s, d)
        PROVE  /\ (CHOOSE d \in 0..k : p = Path(s, d)) = Size(p) /\ Size(p) \in 0..k
               /\ Tree!Frame(t, s, n, k, Size(p)) = NodeOf(b, ret[Size(p)])
    <3>1. (CHOOSE d \in 0..k : p = Path(s, d)) = Size(p) /\ Size(p) \in 0..k
      BY <2>4, <2>5
    <3>2. QED
      BY <1>6, <3>1
  <2> HIDE DEF u
  <2>6. QED
    BY <2>1, <2>2, <2>3, <2>4, <2>5
<1>8. u = Tree!Unwound(t, s, n, k)
  <2>1. u = [p \in Position |-> u[p]]
    BY DEF Flat
  <2>2. Tree!Unwound(t, s, n, k) = [p \in Position |-> Tree!Unwound(t, s, n, k)[p]]
    BY TreeOperators DEF Tree!Unwound
  <2> HIDE DEF u
  <2>3. QED
    BY <1>7, <2>1, <2>2
<1>9. QED
  BY <1>1, <1>2, <1>3, <1>5, <1>8 DEF t
\* insert: the same, in each of its three cases.
Grown(t, u, s, i, v) ==
  LET n == Tree!Reached(t, s)
      k == Tree!StopDepth(t, s)
  IN  \/ /\ n = Tree!Empty
         /\ u = [t EXCEPT ![Tree!Path(s, k)] = Tree!NewStem(s, i, v)]
      \/ /\ Tree!Holds(n, s)
         /\ u = [t EXCEPT ![Tree!Path(s, k)] = Tree!StemNode(s, [n.values EXCEPT ![i] = v])]
      \/ /\ Tree!IsStem(n) /\ n.prefix # s
         /\ u = Tree!Fork(t, n, s, i, v, k)

LEMMA InsertIs ==
  ASSUME NEW h, NEW r, NEW o, HeapIs(h, r, o), NEW s \in Stem, NEW i \in Subindex,
         NEW v \in Value
  PROVE  LET res == Inserted(h, r, s, i, v)
         IN  /\ Stepped(h, r, s, res.heap, res.ref)
             /\ Grown(Flat(h, r), Flat(res.heap, res.ref), s, i, v)
<1> DEFINE res == Inserted(h, r, s, i, v)
           t == Flat(h, r)
           u == Flat(res.heap, res.ref)
           x == End(h, r, s)
           k == Stop(h, r, s)
           n == Tree!Reached(t, s)
<1>1. Sound(h) /\ IsRoot(h, r)
  BY DEF HeapIs
<1>2. /\ Tree!StopDepth(t, s) = k
      /\ n = IF x = Nil THEN Empty ELSE StemNode(x[1], h[x].values)
      /\ n = NodeOf(h, x)
  BY <1>1, FlatDescent
<1>3. Tree!Path(s, k) = Path(s, k) /\ Tree!NewStem(s, i, v) = StemNode(s, [NoLeaves EXCEPT ![i] = v])
  BY TreeOperators DEF Tree!NewStem
<1>4. x # Nil => h[x].prefix = x[1] /\ x[1] \in Stem /\ Path(x[1], k) = Path(s, k)
  <2>1. SUFFICES ASSUME x # Nil PROVE h[x].prefix = x[1] /\ x[1] \in Stem /\ Path(x[1], k) = Path(s, k)
    OBVIOUS
  <2>2. SoundStem(h, x) /\ x[1] \in Stem /\ Path(x[1], k) = Path(s, k)
    BY <1>1, <2>1, EndIs
  <2>3. h[x] = [kind |-> "stem", prefix |-> x[1], values |-> h[x].values, cache |-> h[x].cache]
    BY <2>2 DEF SoundStem
  <2>4. QED
    BY <2>2, <2>3
<1>5. CASE x = Nil
  <2>1. Stepped(h, r, s, res.heap, res.ref) /\
        u = [t EXCEPT ![Path(s, k)] = StemNode(s, [NoLeaves EXCEPT ![i] = v])]
    BY <1>5, PlaceIs
  <2>2. n = Tree!Empty
    BY <1>2, <1>5, TreeOperators
  <2> HIDE DEF t, u, res, k, n
  <2>3. Grown(t, u, s, i, v)
    BY <1>2, <1>3, <2>1, <2>2 DEF Grown, n
  <2>4. QED
    BY <2>1, <2>3 DEF t, u, res
<1>6. CASE x # Nil /\ x[1] = s
  <2>1. /\ Stepped(h, r, s, res.heap, res.ref)
        /\ u = [t EXCEPT ![Path(s, k)] = StemNode(s, [h[x].values EXCEPT ![i] = v])]
    BY <1>4, <1>6, OverwriteIs
  <2>2. Tree!Holds(n, s) /\ n.values = h[x].values
    <3> HIDE DEF x, n
    <3>1. QED
      BY <1>2, <1>6, NodesDiffer
  <2> HIDE DEF t, u, res, k, n, x
  <2>3. Grown(t, u, s, i, v)
    BY <1>2, <1>3, <2>1, <2>2, TreeOperators DEF Grown, n
  <2>4. QED
    BY <2>1, <2>3 DEF t, u, res
<1>7. CASE x # Nil /\ x[1] # s
  <2> DEFINE e == Parting(s, x[1], k)
  <2>1. /\ Stepped(h, r, s, res.heap, res.ref)
        /\ \A p \in Position : u[p] =
             IF p = Path(s, e + 1) THEN StemNode(s, [NoLeaves EXCEPT ![i] = v])
             ELSE IF p = Path(x[1], e + 1) THEN NodeOf(h, x)
             ELSE IF \E j \in k..e : p = Path(s, j) THEN Internal
             ELSE t[p]
    BY <1>7, SplitIs
  <2>2. k \in 0..Depth /\ Depth \in Nat
    BY <1>1, StopIs, DepthIsNat
  <2>3. e \in k..(Depth - 1) /\ e \in 0..(Depth - 1) /\ Path(x[1], e + 1) = Sibling(s, e + 1)
    BY <1>4, <1>7, <2>2, PartingIs
  <2>4. Tree!IsStem(n) /\ n.prefix = x[1]
    <3> HIDE DEF x, n
    <3>1. QED
      BY <1>2, <1>7, NodesDiffer
  <2>5. Tree!ForkDepth(s, n.prefix, k) = e
    BY <2>4, TreeOperators DEF Tree!ForkDepth, Parting
  <2>6. /\ Path(s, e + 1) # Path(x[1], e + 1)
        /\ \A j \in k..e : Path(s, j) # Path(s, e + 1) /\ Path(s, j) # Path(x[1], e + 1)
    <3>1. /\ Path(s, e + 1) # Sibling(s, e + 1) /\ e + 1 \in 1..Depth /\ e + 1 \in 0..Depth
      BY <2>2, <2>3, PathChild
    <3>2. Size(Path(s, e + 1)) = e + 1 /\ Size(Sibling(s, e + 1)) = e + 1
      BY <3>1, PathIs, SiblingIs
    <3>3. \A j \in k..e : j \in 0..Depth /\ j # e + 1
      BY <2>2, <2>3
    <3>4. \A j \in k..e : Size(Path(s, j)) = j
      BY <3>3, PathIs
    <3>5. QED
      BY <2>3, <3>1, <3>2, <3>3, <3>4
  <2> HIDE DEF t, u, res, k, n, x, e
  <2> DEFINE w == Tree!Fork(t, n, s, i, v, k)
  <2>7. w = [p \in Position |->
               CASE p = Path(s, e + 1)             -> StemNode(s, [NoLeaves EXCEPT ![i] = v])
                 [] p = Path(x[1], e + 1)          -> n
                 [] \E j \in k..e : p = Path(s, j) -> Internal
                 [] OTHER                          -> t[p]]
    BY <1>3, <2>4, <2>5, TreeOperators DEF Tree!Fork
  <2>8. ASSUME NEW p \in Position PROVE u[p] = w[p]
    <3>1. CASE p = Path(s, e + 1)
      BY <2>1, <2>6, <2>7, <3>1
    <3>2. CASE p = Path(x[1], e + 1)
      BY <1>2, <2>1, <2>6, <2>7, <3>2
    <3>3. CASE \E j \in k..e : p = Path(s, j)
      BY <2>1, <2>6, <2>7, <3>3
    <3>4. CASE /\ p # Path(s, e + 1) /\ p # Path(x[1], e + 1)
               /\ ~ \E j \in k..e : p = Path(s, j)
      BY <2>1, <2>7, <3>4
    <3>5. QED
      BY <3>1, <3>2, <3>3, <3>4
  <2>9. u = w
    <3>1. u = [p \in Position |-> u[p]]
      BY DEF Flat, u
    <3>2. w = [p \in Position |-> w[p]]
      BY <2>7
    <3> HIDE DEF w
    <3>3. QED
      BY <2>8, <3>1, <3>2
  <2>10. Grown(t, u, s, i, v)
    BY <1>2, <1>7, <2>4, <2>9 DEF Grown, n
  <2>11. QED
    BY <2>1, <2>10 DEF t, u, res
<1>8. QED
  BY <1>5, <1>6, <1>7
-----------------------------------------------------------------------------
(* What every operation leaves *)

\* What is cached below root r is the hash of what is there.
Coherent(f, h, r) ==
  \A x \in Reach(h, {r}) : h[x].cache # None => h[x].cache = TrueHash(f, h, x)

LEMMA ReachIsClosedSet ==
  ASSUME NEW h, Sound(h), NEW r, IsRoot(h, r)
  PROVE  Closed(h, Reach(h, {r}))
<1>1. {r} \subseteq Ref(h) /\ \A q \in {r} : IsRoot(h, q)
  BY DEF IsRoot
<1>2. Reach(h, {r}) \subseteq Objects(h)
  BY <1>1, ReachIsObjects
<1>3. \A x \in Reach(h, {r}) : IsInternal(h, x) =>
        \A b \in {0, 1} : h[x].child[b] \in {Nil} \cup Reach(h, {r})
  BY <1>1, ReachIsClosed
<1>4. QED
  BY <1>2, <1>3 DEF Closed

\* A root keeps its tree and its hashes when what no handle reaches is reclaimed.
LEMMA ReclaimedKeeps ==
  ASSUME NEW h, Sound(h), NEW R, \A q \in R : IsRoot(h, q), NEW r \in R
  PROVE  LET z == Reclaimed(h, R)
         IN  /\ Flat(z, r) = Flat(h, r)
             /\ \A f : Coherent(f, h, r) => Coherent(f, z, r)
<1> DEFINE z == Reclaimed(h, R)
           C == Reach(h, {r})
<1>1. /\ Sound(z)
      /\ Objects(z) = Reach(h, R) /\ Objects(z) \subseteq Objects(h)
      /\ \A x \in Objects(z) : z[x] = h[x]
      /\ IsRoot(z, r) /\ Refs(z, r) = Refs(h, r)
  BY ReclaimedIsSound
<1> HIDE DEF z
<1>2. IsRoot(h, r)
  OBVIOUS
<1>3. Flat(z, r) = Flat(h, r)
  <2>1. ASSUME NEW p \in Position
        PROVE  NodeOf(z, Refs(z, r)[p]) = NodeOf(h, Refs(h, r)[p])
    <3> DEFINE x == Refs(h, r)[p]
    <3>1. Refs(z, r)[p] = x /\ Refs(z, r)[p] \in Ref(z) /\ x \in Ref(h)
      BY <1>1, <1>2, RefsFit
    <3> HIDE DEF x
    <3>2. x # Nil => z[x] = h[x]
      BY <1>1, <3>1 DEF Ref
    <3>3. NodeOf(z, x) = IF x = Nil THEN Empty ELSE IF Inner(x) THEN Internal
                         ELSE StemNode(x[1], z[x].values)
      BY <1>1, <3>1, NodeOfIs
    <3>4. NodeOf(h, x) = IF x = Nil THEN Empty ELSE IF Inner(x) THEN Internal
                         ELSE StemNode(x[1], h[x].values)
      BY <3>1, NodeOfIs
    <3>5. NodeOf(z, x) = NodeOf(h, x)
      BY <3>2, <3>3, <3>4
    <3>6. QED
      BY <3>1, <3>5 DEF x
  <2>2. QED
    BY <2>1 DEF Flat
<1>4. C \subseteq Objects(z) /\ Reach(z, {r}) = C /\ Closed(h, C)
  BY <1>1, <1>2, ReachIsClosedSet DEF Reach
<1> HIDE DEF C
<1>5. ASSUME NEW f, Coherent(f, h, r)
      PROVE  Coherent(f, z, r)
  <2>1. \A x \in C : z[x] = h[x]
    BY <1>1, <1>4
  <2>2. \A x \in C : /\ IsInternal(z, x) <=> IsInternal(h, x)
                     /\ IsInternal(h, x) => z[x].child = h[x].child
                     /\ IsStemObj(h, x) => z[x].prefix = h[x].prefix /\ z[x].values = h[x].values
    BY <2>1 DEF IsInternal, IsStemObj
  <2>3. \A x \in {Nil} \cup C : TrueHash(f, z, x) = TrueHash(f, h, x)
    BY <1>1, <1>4, <2>2, SameTrueHash
  <2>4. \A x \in C : h[x].cache # None => h[x].cache = TrueHash(f, h, x)
    BY <1>5 DEF Coherent, C
  <2>5. \A x \in C : z[x].cache # None => z[x].cache = TrueHash(f, z, x)
    BY <2>1, <2>3, <2>4
  <2>6. QED
    BY <1>4, <2>5 DEF Coherent
<1>6. QED
  BY <1>3, <1>5 DEF z

\* A step on the path of s: the objects off the path keep their hashes, those on
\* it have none.
LEMMA SteppedIsCoherent ==
  ASSUME NEW h, Sound(h), NEW r, IsRoot(h, r), NEW s \in Stem, NEW g, NEW q,
         Stepped(h, r, s, g, q), NEW f, Coherent(f, h, r)
  PROVE  Coherent(f, g, q)
<1> DEFINE C == {x \in Reach(h, {r}) : ~ On(s, x)}
<1>1. /\ Sound(g) /\ Objects(h) \subseteq Objects(g) /\ IsRoot(g, q)
      /\ \A x \in Objects(h) : ~ On(s, x) => g[x] = h[x]
      /\ \A p \in Position : Refs(g, q)[p] # Nil =>
           IF On(s, Refs(g, q)[p]) THEN g[Refs(g, q)[p]].cache = None
           ELSE Refs(g, q)[p] \in Reach(h, {r})
  BY DEF Stepped
<1>2. Closed(h, Reach(h, {r}))
  BY ReachIsClosedSet
<1>3. Closed(h, C)
  <2>1. C \subseteq Objects(h)
    BY <1>2 DEF Closed
  <2>2. ASSUME NEW x \in C, IsInternal(h, x), NEW b \in {0, 1}
        PROVE  h[x].child[b] \in {Nil} \cup C
    <3>1. h[x].child[b] \in {Nil} \cup Reach(h, {r})
      BY <1>2, <2>2 DEF Closed
    <3>2. h[x].child[b] # Nil => ~ On(s, h[x].child[b])
      BY <2>1, <2>2, OffPath
    <3>3. QED
      BY <3>1, <3>2
  <2> HIDE DEF C
  <2>3. QED
    BY <2>1, <2>2 DEF Closed
<1>4. \A x \in C : g[x] = h[x]
  BY <1>1, <1>3 DEF Closed
<1>5. \A x \in {Nil} \cup C : TrueHash(f, g, x) = TrueHash(f, h, x)
  <2>1. C \subseteq Objects(g)
    BY <1>1, <1>3 DEF Closed
  <2> HIDE DEF C
  <2>2. \A x \in C : /\ IsInternal(g, x) <=> IsInternal(h, x)
                     /\ IsInternal(h, x) => g[x].child = h[x].child
                     /\ IsStemObj(h, x) => g[x].prefix = h[x].prefix /\ g[x].values = h[x].values
    BY <1>4 DEF IsInternal, IsStemObj
  <2>3. QED
    BY <1>1, <1>3, <2>1, <2>2, SameTrueHash
<1>6. ASSUME NEW x \in Reach(g, {q}), g[x].cache # None
      PROVE  g[x].cache = TrueHash(f, g, x)
  <2>1. PICK p \in Position : x = Refs(g, q)[p] /\ x # Nil
    BY DEF Reach
  <2>2. x \in C
    BY <1>1, <1>6, <2>1
  <2>3. h[x].cache # None => h[x].cache = TrueHash(f, h, x)
    BY <2>2 DEF Coherent
  <2> HIDE DEF C
  <2>4. QED
    BY <1>4, <1>5, <1>6, <2>2, <2>3
<1>7. QED
  BY <1>6 DEF Coherent

\* insert and delete keep the other root that is held.
LEMMA SteppedIsHeap ==
  ASSUME NEW h, NEW r, NEW o, HeapIs(h, r, o), NEW s \in Stem, NEW g, NEW q,
         Stepped(h, r, s, g, q)
  PROVE  LET z == Reclaimed(g, {q, o})
         IN  /\ HeapIs(z, q, o)
             /\ Flat(z, q) = Flat(g, q)
             /\ \A f : Coherent(f, h, r) => Coherent(f, z, q)
<1> DEFINE z == Reclaimed(g, {q, o})
           R == {q, o}
<1>1. Sound(h) /\ IsRoot(h, r) /\ IsRoot(h, o)
  BY DEF HeapIs
<1>2. Sound(g) /\ Objects(h) \subseteq Objects(g) /\ IsRoot(g, q)
  BY DEF Stepped
<1>3. IsRoot(g, o)
  BY <1>1, <1>2 DEF IsRoot, Ref
<1>4. \A x \in R : IsRoot(g, x)
  BY <1>2, <1>3
<1> HIDE DEF R
<1>5. LET y == Reclaimed(g, R)
      IN  /\ Sound(y) /\ Reach(y, R) = Objects(y)
          /\ \A x \in R : IsRoot(y, x)
  BY <1>2, <1>4, ReclaimedIsSound
<1>6. HeapIs(z, q, o)
  BY <1>5 DEF HeapIs, R
<1>7. q \in R
  BY DEF R
<1>8. LET y == Reclaimed(g, R)
      IN  Flat(y, q) = Flat(g, q) /\ \A f : Coherent(f, g, q) => Coherent(f, y, q)
  BY <1>2, <1>4, <1>7, ReclaimedKeeps
<1>9. \A f : Coherent(f, h, r) => Coherent(f, g, q)
  BY <1>1, SteppedIsCoherent
<1>10. QED
  BY <1>6, <1>8, <1>9 DEF R
\* Caching hashes changes no tree.
LEMMA OnlyCachesKeeps ==
  ASSUME NEW h, NEW r, NEW o, HeapIs(h, r, o), NEW g, OnlyCaches(h, g)
  PROVE  /\ HeapIs(g, r, o) /\ Reach(g, {r}) = Reach(h, {r})
         /\ Flat(g, r) = Flat(h, r)
<1>1. Sound(h) /\ IsRoot(h, r) /\ IsRoot(h, o) /\ Objects(h) = Reach(h, {r, o})
  BY DEF HeapIs
<1>2. /\ Sound(g) /\ Objects(g) = Objects(h)
      /\ \A x \in Objects(h) :
           /\ IsInternal(g, x) <=> IsInternal(h, x)
           /\ IsStemObj(h, x) => g[x].prefix = h[x].prefix /\ g[x].values = h[x].values
           /\ IsInternal(h, x) => g[x].child = h[x].child
  BY <1>1, OnlyCachesIs
<1>3. Ref(g) = Ref(h)
  BY <1>2 DEF Ref
<1>4. ASSUME NEW q, IsRoot(h, q)
      PROVE  IsRoot(g, q) /\ Refs(g, q) = Refs(h, q)
  <2>1. IsRoot(g, q)
    BY <1>3, <1>4 DEF IsRoot
  <2>2. ASSUME NEW p \in Position
        PROVE  /\ IsInternal(g, Refs(h, q)[p]) <=> IsInternal(h, Refs(h, q)[p])
               /\ IsInternal(h, Refs(h, q)[p]) => g[Refs(h, q)[p]].child = h[Refs(h, q)[p]].child
    <3> DEFINE x == Refs(h, q)[p]
    <3>1. x = Nil \/ x \in Objects(h)
      BY <1>1, <1>4, RefsFit DEF Ref
    <3> HIDE DEF x
    <3>2. /\ IsInternal(g, x) <=> IsInternal(h, x)
          /\ IsInternal(h, x) => g[x].child = h[x].child
      BY <1>2, <3>1, NilIsNoObject
    <3>3. QED
      BY <3>2 DEF x
  <2>3. QED
    BY <2>1, <2>2, SameRefs
<1>5. IsRoot(g, r) /\ IsRoot(g, o) /\ Refs(g, r) = Refs(h, r) /\ Refs(g, o) = Refs(h, o)
  BY <1>1, <1>4
<1>6. Reach(g, {r, o}) = Reach(h, {r, o}) /\ Reach(g, {r}) = Reach(h, {r})
  <2>1. \A q \in {r, o} : \A p \in Position : Refs(g, q)[p] = Refs(h, q)[p]
    BY <1>5
  <2>2. QED
    BY <2>1 DEF Reach
<1>7. HeapIs(g, r, o)
  BY <1>1, <1>2, <1>5, <1>6 DEF HeapIs
<1>8. ASSUME NEW p \in Position
      PROVE  NodeOf(g, Refs(g, r)[p]) = NodeOf(h, Refs(h, r)[p])
  <2> DEFINE x == Refs(h, r)[p]
  <2>1. Refs(g, r)[p] = x /\ x \in Ref(h) /\ x \in Ref(g)
    BY <1>1, <1>3, <1>5, RefsFit
  <2> HIDE DEF x
  <2>2. x # Nil /\ ~ Inner(x) => g[x].values = h[x].values
    <3>1. x # Nil /\ ~ Inner(x) => IsStemObj(h, x) /\ x \in Objects(h)
      BY <1>1, <2>1, InnerIs
    <3>2. QED
      BY <1>2, <3>1
  <2>3. NodeOf(g, x) = IF x = Nil THEN Empty ELSE IF Inner(x) THEN Internal
                       ELSE StemNode(x[1], g[x].values)
    BY <1>2, <2>1, NodeOfIs
  <2>4. NodeOf(h, x) = IF x = Nil THEN Empty ELSE IF Inner(x) THEN Internal
                       ELSE StemNode(x[1], h[x].values)
    BY <1>1, <2>1, NodeOfIs
  <2>5. NodeOf(g, x) = NodeOf(h, x)
    BY <2>2, <2>3, <2>4
  <2>6. QED
    BY <2>1, <2>5 DEF x
<1>9. Flat(g, r) = Flat(h, r)
  BY <1>8 DEF Flat
<1>10. QED
  BY <1>6, <1>7, <1>9

\* The heap when node_hash has filled the caches of the objects in N.
Hashed(f, h, e, N) ==
  [x \in Id |-> IF x \in N THEN [h[x] EXCEPT !.cache = NodeHashes(f, h, e)[x]] ELSE h[x]]

LEMMA HashedIs ==
  ASSUME NEW h, NEW r, NEW o, HeapIs(h, r, o), NEW N, N \subseteq Objects(h), NEW f, NEW e
  PROVE  LET g == Hashed(f, h, e, N)
         IN  /\ HeapIs(g, r, o) /\ Flat(g, r) = Flat(h, r)
             /\ e = HashEmpty(f) /\ Coherent(f, h, r) => Coherent(f, g, r)
<1> DEFINE g == Hashed(f, h, e, N)
           H == NodeHashes(f, h, e)
<1>1. Sound(h) /\ IsRoot(h, r)
  BY DEF HeapIs
<1>2. /\ g = [x \in Id |-> g[x]]
      /\ \A x \in N : g[x] = [h[x] EXCEPT !.cache = H[x]]
      /\ \A x \in Id : x \notin N => g[x] = h[x]
  <2>1. N \subseteq Id
    BY DEF Objects
  <2>2. QED
    BY <2>1 DEF Hashed
<1> HIDE DEF g, H
<1>3. ASSUME NEW x \in N PROVE g[x].cache = H[x]
  <2>1. x \in Objects(h)
    OBVIOUS
  <2>2. [h[x] EXCEPT !.cache = H[x]].cache = H[x]
    BY <1>1, <2>1, CacheIs
  <2>3. QED
    BY <1>2, <2>2
<1>4. OnlyCaches(h, g)
  <2>1. \A x \in Id : h[x] = Free => g[x] = Free
    BY <1>2 DEF Objects
  <2>2. ASSUME NEW x \in Objects(h)
        PROVE  g[x] = [h[x] EXCEPT !.cache = g[x].cache]
    <3>1. CASE x \in N
      BY <1>2, <1>3, <3>1
    <3>2. CASE x \notin N
      <4>1. g[x] = h[x]
        BY <1>2, <3>2 DEF Objects
      <4> DEFINE y == h[x]
                 vs == h[x].values
                 ch == h[x].child
                 c == h[x].cache
      <4>2. \/ y = [kind |-> "stem", prefix |-> x[1], values |-> vs, cache |-> c]
            \/ y = [kind |-> "internal", child |-> ch, cache |-> c]
        BY <1>1 DEF Sound, SoundStem, SoundInternal
      <4>3. c = y.cache
        OBVIOUS
      <4> HIDE DEF y, vs, ch, c
      <4>4. y = [y EXCEPT !.cache = y.cache]
        BY <4>2, <4>3
      <4>5. QED
        BY <4>1, <4>4 DEF y
    <3>3. QED
      BY <3>1, <3>2
  <2>3. QED
    BY <1>2, <2>1, <2>2 DEF OnlyCaches
<1>5. HeapIs(g, r, o) /\ Reach(g, {r}) = Reach(h, {r}) /\ Flat(g, r) = Flat(h, r)
  BY <1>4, OnlyCachesKeeps
<1>6. ASSUME e = HashEmpty(f), Coherent(f, h, r)
      PROVE  Coherent(f, g, r)
  <2> DEFINE C == Reach(h, {r})
  <2>1. Closed(h, C)
    BY <1>1, ReachIsClosedSet
  <2>2. \A x \in C : h[x].cache # None => h[x].cache = TrueHash(f, h, x)
    BY <1>6 DEF Coherent
  <2>3. Reach(g, {r}) = C
    BY <1>5
  <2> HIDE DEF C
  <2>4. \A x \in {Nil} \cup C : NodeHashes(f, h, HashEmpty(f))[x] = TrueHash(f, h, x)
    BY <1>1, <2>1, <2>2, CoherentHashes
  <2>5. \A x \in C : H[x] = TrueHash(f, h, x)
    BY <1>6, <2>4 DEF H
  <2>6. /\ Sound(g) /\ Objects(g) = Objects(h)
        /\ \A x \in Objects(h) :
             /\ IsInternal(g, x) <=> IsInternal(h, x)
             /\ IsStemObj(h, x) => g[x].prefix = h[x].prefix /\ g[x].values = h[x].values
             /\ IsInternal(h, x) => g[x].child = h[x].child
    BY <1>1, <1>4, OnlyCachesIs
  <2>7. C \subseteq Objects(g) /\ C \subseteq Objects(h) /\ C \subseteq Id
    BY <2>1, <2>6 DEF Closed, Objects
  <2>8. \A x \in {Nil} \cup C : TrueHash(f, g, x) = TrueHash(f, h, x)
    BY <1>1, <2>1, <2>6, <2>7, SameTrueHash
  <2>9. \A x \in C : g[x].cache # None => g[x].cache = TrueHash(f, g, x)
    BY <1>2, <1>3, <2>2, <2>5, <2>7, <2>8
  <2>10. QED
    BY <2>3, <2>9 DEF Coherent
<1>7. QED
  BY <1>5, <1>6 DEF g
-----------------------------------------------------------------------------
(* The steps *)

\* The inductive invariant.  Two names for each object are enough because at most
\* two roots are held and each tree has at most one object of a name.
HeapInv == HeapIs(heap, root, old)

\* What is cached is true of the function that is installed.
HashesTrue ==
  /\ Coherent(active, heap, root)
  /\ emptyHash # None => emptyHash = HashEmpty(active)

LEMMA InsertStep ==
  ASSUME HeapInv, NEW s \in Stem, NEW i \in Subindex, NEW v \in InsertValue, Insert(s, i, v)
  PROVE  /\ HeapInv'
         /\ Tree!Insert(s, i, v)
         /\ HashesTrue => HashesTrue'
<1> DEFINE res == Inserted(heap, root, s, i, v)
           t == Flat(heap, root)
<1>1. HeapIs(heap, root, old) /\ v \in Value
  BY ConstantAssumption DEF HeapInv
<1>2. Stepped(heap, root, s, res.heap, res.ref) /\ Grown(t, Flat(res.heap, res.ref), s, i, v)
  BY <1>1, InsertIs
<1>3. /\ root' = res.ref /\ heap' = Reclaimed(res.heap, {res.ref, old})
      /\ old' = old /\ active' = active /\ emptyHash' = emptyHash
  BY DEF Insert
<1> HIDE DEF res
<1>4. /\ HeapIs(heap', root', old) /\ Flat(heap', root') = Flat(res.heap, res.ref)
      /\ Coherent(active, heap, root) => Coherent(active, heap', root')
  <2> DEFINE g == res.heap
             q == res.ref
             z == Reclaimed(g, {q, old})
  <2>1. Stepped(heap, root, s, g, q)
    BY <1>2
  <2> HIDE DEF g, q
  <2>2. /\ HeapIs(z, q, old) /\ Flat(z, q) = Flat(g, q)
        /\ \A f : Coherent(f, heap, root) => Coherent(f, z, q)
    <3>1. HeapIs(z, q, old)
      BY <1>1, <2>1, SteppedIsHeap
    <3>2. Flat(z, q) = Flat(g, q)
      BY <1>1, <2>1, SteppedIsHeap
    <3>3. \A f : Coherent(f, heap, root) => Coherent(f, z, q)
      BY <1>1, <2>1, SteppedIsHeap
    <3>4. QED
      BY <3>1, <3>2, <3>3
  <2>3. root' = q /\ heap' = z
    BY <1>3 DEF q, g
  <2> HIDE DEF z
  <2>4. Flat(g, q) = Flat(res.heap, res.ref)
    BY DEF g, q
  <2>5. QED
    BY <2>2, <2>3, <2>4
<1>5. HeapInv'
  BY <1>3, <1>4 DEF HeapInv
<1>6. Grown(t, Flat(heap', root'), s, i, v)
  BY <1>2, <1>4
<1>7. Tree!Insert(s, i, v)
  BY <1>6 DEF Grown, Tree!Insert, Tree!Place, Tree!Overwrite, Tree!Split
<1>8. HashesTrue => HashesTrue'
  BY <1>3, <1>4 DEF HashesTrue
<1>9. QED
  BY <1>5, <1>7, <1>8

LEMMA DeleteStep ==
  ASSUME HeapInv, NEW s \in Stem, NEW i \in Subindex, Delete(s, i)
  PROVE  /\ HeapInv'
         /\ Tree!Delete(s, i)
         /\ HashesTrue => HashesTrue'
<1> DEFINE res == Deleted(heap, root, s, i)
           t == Flat(heap, root)
<1>1. HeapIs(heap, root, old)
  BY DEF HeapInv
<1>2. /\ Stepped(heap, root, s, res.heap, res.ref)
      /\ Flat(res.heap, res.ref) =
           Tree!Unwound(t, s, Tree!Cleared(Tree!Reached(t, s), s, i), Tree!StopDepth(t, s))
  BY <1>1, DeleteIs DEF HeapIs
<1>3. /\ root' = res.ref /\ heap' = Reclaimed(res.heap, {res.ref, old})
      /\ old' = old /\ active' = active /\ emptyHash' = emptyHash
  BY DEF Delete
<1> HIDE DEF res
<1>4. /\ HeapIs(heap', root', old) /\ Flat(heap', root') = Flat(res.heap, res.ref)
      /\ Coherent(active, heap, root) => Coherent(active, heap', root')
  <2> DEFINE g == res.heap
             q == res.ref
             z == Reclaimed(g, {q, old})
  <2>1. Stepped(heap, root, s, g, q)
    BY <1>2
  <2> HIDE DEF g, q
  <2>2. /\ HeapIs(z, q, old) /\ Flat(z, q) = Flat(g, q)
        /\ \A f : Coherent(f, heap, root) => Coherent(f, z, q)
    <3>1. HeapIs(z, q, old)
      BY <1>1, <2>1, SteppedIsHeap
    <3>2. Flat(z, q) = Flat(g, q)
      BY <1>1, <2>1, SteppedIsHeap
    <3>3. \A f : Coherent(f, heap, root) => Coherent(f, z, q)
      BY <1>1, <2>1, SteppedIsHeap
    <3>4. QED
      BY <3>1, <3>2, <3>3
  <2>3. root' = q /\ heap' = z
    BY <1>3 DEF q, g
  <2> HIDE DEF z
  <2>4. Flat(g, q) = Flat(res.heap, res.ref)
    BY DEF g, q
  <2>5. QED
    BY <2>2, <2>3, <2>4
<1>5. HeapInv'
  BY <1>3, <1>4 DEF HeapInv
<1>6. Flat(heap', root') =
        Tree!Unwound(t, s, Tree!Cleared(Tree!Reached(t, s), s, i), Tree!StopDepth(t, s))
  BY <1>2, <1>4
<1>7. Tree!Delete(s, i)
  BY <1>6 DEF Tree!Delete
<1>8. HashesTrue => HashesTrue'
  BY <1>3, <1>4 DEF HashesTrue
<1>9. QED
  BY <1>5, <1>7, <1>8

LEMMA KeepRootStep ==
  ASSUME HeapInv, KeepRoot
  PROVE  /\ HeapInv'
         /\ Flat(heap, root)' = Flat(heap, root)
         /\ HashesTrue => HashesTrue'
<1>1. Sound(heap) /\ IsRoot(heap, root)
  BY DEF HeapInv, HeapIs
<1>2. /\ root' = root /\ old' = root /\ heap' = Reclaimed(heap, {root})
      /\ active' = active /\ emptyHash' = emptyHash
  BY DEF KeepRoot
<1> DEFINE z == Reclaimed(heap, {root})
<1>3. \A q \in {root} : IsRoot(heap, q)
  BY <1>1
<1>4. /\ Sound(z) /\ Reach(z, {root}) = Objects(z) /\ \A q \in {root} : IsRoot(z, q)
  BY <1>1, <1>3, ReclaimedIsSound
<1>5. Flat(z, root) = Flat(heap, root) /\ \A f : Coherent(f, heap, root) => Coherent(f, z, root)
  BY <1>1, <1>3, ReclaimedKeeps
<1>6. {root, root} = {root}
  OBVIOUS
<1> HIDE DEF z
<1>7. HeapIs(z, root, root)
  BY <1>4, <1>6 DEF HeapIs
<1>8. heap' = z
  BY <1>2 DEF z
<1>9. HeapInv'
  BY <1>2, <1>7, <1>8 DEF HeapInv
<1>10. Flat(heap', root') = Flat(heap, root)
  BY <1>2, <1>5, <1>8
<1>11. HashesTrue => HashesTrue'
  BY <1>2, <1>5, <1>8 DEF HashesTrue
<1>12. QED
  BY <1>9, <1>10, <1>11

LEMMA TakeHashesStep ==
  ASSUME HeapInv, NEW R, R \subseteq Ref(heap), TakeHashes(R)
  PROVE  /\ HeapInv'
         /\ Flat(heap, root)' = Flat(heap, root)
         /\ HashesTrue => HashesTrue'
<1> DEFINE N == Computed(heap, R)
           e == EmptyHashNow
           g == Hashed(active, heap, e, N)
<1>1. HeapIs(heap, root, old) /\ Sound(heap)
  BY DEF HeapInv, HeapIs
<1>2. N \subseteq Objects(heap)
  BY <1>1, ReachIsObjects DEF Computed
<1>3. heap' = g
  BY DEF TakeHashes, Hashed, NodeHash
<1>4. /\ root' = root /\ old' = old /\ active' = active
      /\ emptyHash' \in {e, emptyHash}
  BY DEF TakeHashes
<1> HIDE DEF N, e, g
<1>5. /\ HeapIs(g, root, old) /\ Flat(g, root) = Flat(heap, root)
      /\ e = HashEmpty(active) /\ Coherent(active, heap, root) => Coherent(active, g, root)
  BY <1>1, <1>2, HashedIs DEF g
<1>6. HeapInv'
  BY <1>3, <1>4, <1>5 DEF HeapInv
<1>7. Flat(heap', root') = Flat(heap, root)
  BY <1>3, <1>4, <1>5
<1>8. ASSUME HashesTrue PROVE HashesTrue'
  <2>1. e = HashEmpty(active)
    BY <1>8 DEF HashesTrue, EmptyHashNow, e
  <2>2. Coherent(active, g, root)
    BY <1>5, <1>8, <2>1 DEF HashesTrue
  <2>3. emptyHash' # None => emptyHash' = HashEmpty(active')
    BY <1>4, <1>8, <2>1 DEF HashesTrue
  <2>4. QED
    BY <1>3, <1>4, <2>2, <2>3 DEF HashesTrue
<1>9. QED
  BY <1>6, <1>7, <1>8

\* get_proof hashes references that are held: the siblings along the path.
LEMMA GetProofStep ==
  ASSUME HeapInv, NEW s \in Stem, GetProof(s)
  PROVE  /\ HeapInv'
         /\ Flat(heap, root)' = Flat(heap, root)
         /\ HashesTrue => HashesTrue'
<1> DEFINE R == {heap[Walk(heap, root, s)[d]].child[1 - PathBit[s][d]] :
                   d \in 0..(Stop(heap, root, s) - 1)}
<1>1. Sound(heap) /\ IsRoot(heap, root)
  BY DEF HeapInv, HeapIs
<1>2. ASSUME NEW d \in 0..(Stop(heap, root, s) - 1)
      PROVE  heap[Walk(heap, root, s)[d]].child[1 - PathBit[s][d]] \in Ref(heap)
  <2>1. /\ d \in 0..(Depth - 1)
        /\ Walk(heap, root, s)[d] = Refs(heap, root)[Path(s, d)]
        /\ Refs(heap, root)[Sibling(s, d + 1)] =
             heap[Refs(heap, root)[Path(s, d)]].child[1 - PathBit[s][d]]
    BY <1>1, WalkIs
  <2>2. Sibling(s, d + 1) \in Position
    BY <2>1, PathStep
  <2>3. Refs(heap, root)[Sibling(s, d + 1)] \in Ref(heap)
    BY <1>1, <2>2, RefsFit
  <2>4. QED
    BY <2>1, <2>3
<1>3. R \subseteq Ref(heap)
  BY <1>2
<1>4. TakeHashes(R)
  BY DEF GetProof
<1> HIDE DEF R
<1>5. QED
  BY <1>3, <1>4, TakeHashesStep
-----------------------------------------------------------------------------
(* The theorems *)

\* Init makes the empty tree.
LEMMA InitIs ==
  ASSUME Init
  PROVE  /\ HeapInv /\ HashesTrue
         /\ Flat(heap, root) = [p \in Position |-> Empty]
<1>1. heap = [x \in Id |-> Free] /\ root = Nil /\ old = Nil /\ emptyHash = None
  BY DEF Init
<1>2. Objects(heap) = {}
  BY <1>1 DEF Objects
<1>3. heap = [x \in Id |-> heap[x]]
  BY <1>1
<1>4. Sound(heap)
  BY <1>2, <1>3 DEF Sound
<1>5. IsRoot(heap, Nil)
  BY DEF IsRoot, Ref, Fits
<1>6. \A p \in Position : Refs(heap, Nil)[p] = Nil
  BY <1>2, <1>4, <1>5, RefsFit DEF Ref
<1>7. \A R : R = {Nil} => Reach(heap, R) = {}
  BY <1>6 DEF Reach
<1>8. Reach(heap, {root, old}) = {} /\ Reach(heap, {root}) = {}
  <2>1. {root, old} = {Nil} /\ {root} = {Nil}
    BY <1>1
  <2>2. QED
    BY <1>7, <2>1
<1>9. HeapInv
  BY <1>1, <1>2, <1>4, <1>5, <1>8 DEF HeapInv, HeapIs
<1>10. HashesTrue
  BY <1>1, <1>8 DEF HashesTrue, Coherent
<1>11. \A p \in Position : NodeOf(heap, Refs(heap, root)[p]) = Empty
  BY <1>1, <1>4, <1>6, NodeOfIs DEF Ref
<1>12. QED
  BY <1>9, <1>10, <1>11 DEF Flat

\* Every step keeps the invariant and the cached hashes, and is a step of the tree.
LEMMA StepIs ==
  ASSUME HeapInv, [Next]_vars
  PROVE  /\ HeapInv'
         /\ \/ \E s \in Stem, i \in Subindex :
                 (\E v \in InsertValue : Tree!Insert(s, i, v)) \/ Tree!Delete(s, i)
            \/ Flat(heap, root)' = Flat(heap, root)
         /\ HashesTrue /\ active' = active => HashesTrue'
<1>1. ASSUME NEW s \in Stem, NEW i \in Subindex, NEW v \in InsertValue, Insert(s, i, v)
      PROVE  HeapInv' /\ Tree!Insert(s, i, v) /\ (HashesTrue => HashesTrue')
  BY <1>1, InsertStep
<1>2. ASSUME NEW s \in Stem, NEW i \in Subindex, Delete(s, i)
      PROVE  HeapInv' /\ Tree!Delete(s, i) /\ (HashesTrue => HashesTrue')
  BY <1>2, DeleteStep
<1>3. ASSUME NEW s \in Stem, GetProof(s)
      PROVE  HeapInv' /\ Flat(heap, root)' = Flat(heap, root) /\ (HashesTrue => HashesTrue')
  BY <1>3, GetProofStep
<1>4. ASSUME KeepRoot
      PROVE  HeapInv' /\ Flat(heap, root)' = Flat(heap, root) /\ (HashesTrue => HashesTrue')
  BY <1>4, KeepRootStep
<1>5. {root} \subseteq Ref(heap) /\ {old} \subseteq Ref(heap)
  BY DEF HeapInv, HeapIs, IsRoot
<1>6. ASSUME RootHash
      PROVE  HeapInv' /\ Flat(heap, root)' = Flat(heap, root) /\ (HashesTrue => HashesTrue')
  BY <1>5, <1>6, TakeHashesStep DEF RootHash
<1>7. ASSUME OldRootHash
      PROVE  HeapInv' /\ Flat(heap, root)' = Flat(heap, root) /\ (HashesTrue => HashesTrue')
  BY <1>5, <1>7, TakeHashesStep DEF OldRootHash
<1>8. ASSUME heap' = heap, root' = root, old' = old, emptyHash' = emptyHash
      PROVE  /\ HeapInv' /\ Flat(heap, root)' = Flat(heap, root)
             /\ HashesTrue /\ active' = active => HashesTrue'
  BY <1>8 DEF HeapInv, HashesTrue
<1>9. CASE Next
  <2>1. CASE \E s \in Stem : \/ \E i \in Subindex : \/ \E v \in InsertValue : Insert(s, i, v)
                                                    \/ Delete(s, i)
                             \/ GetProof(s)
    BY <1>1, <1>2, <1>3, <2>1
  <2>2. CASE KeepRoot
    BY <1>4, <2>2
  <2>3. CASE RootHash
    BY <1>6, <2>3
  <2>4. CASE OldRootHash
    BY <1>7, <2>4
  <2>5. CASE \E f \in HashFunction : SetHashFunction(f)
    BY <1>8, <2>5 DEF SetHashFunction
  <2>6. QED
    BY <1>9, <2>1, <2>2, <2>3, <2>4, <2>5 DEF Next
<1>10. CASE UNCHANGED vars
  BY <1>8, <1>10 DEF vars
<1>11. QED
  BY <1>9, <1>10

\* The invariant of the heap: every object is of the class its name says, refers to
\* objects that fit below it, and is reached from one of the two roots.
THEOREM HeapInvariant == Spec => []HeapInv
<1>1. Init => HeapInv
  BY InitIs
<1>2. HeapInv /\ [Next]_vars => HeapInv'
  BY StepIs
<1>3. QED
  BY <1>1, <1>2, PTL DEF Spec

\* Whatever calls are made, in whatever order and with any sharing between the
\* current tree and a root that is kept: objects are InternalNodes or StemNodes that
\* refer to objects, and what no handle reaches is gone.
THEOREM HeapTypeCorrect == Spec => []HeapTypeOK
<1>1. HeapInv => HeapTypeOK
  <2>1. SUFFICES ASSUME HeapInv PROVE HeapTypeOK
    OBVIOUS
  <2>2. /\ Sound(heap) /\ IsRoot(heap, root) /\ IsRoot(heap, old)
        /\ Objects(heap) = Reach(heap, {root, old})
    BY <2>1 DEF HeapInv, HeapIs
  <2>3. Ref(heap) \subseteq {Nil} \cup Id /\ root \in Ref(heap) /\ old \in Ref(heap)
    BY <2>2 DEF Ref, Objects, IsRoot
  <2>4. ASSUME NEW x \in Id, heap[x] # Free
        PROVE  \/ /\ IsStemObj(heap, x) /\ heap[x].prefix \in Stem
                  /\ heap[x].values \in Leaves
               \/ IsInternal(heap, x) /\ heap[x].child \in [{0, 1} -> {Nil} \cup Id]
    <3>1. x \in Objects(heap) /\ x # Nil
      BY <2>4, NamesAreApart DEF Objects
    <3>2. CASE SoundStem(heap, x)
      <4>1. heap[x].kind = "stem" /\ heap[x].prefix = x[1]
        BY <3>2 DEF SoundStem
      <4>2. QED
        BY <3>1, <3>2, <4>1 DEF SoundStem, IsStemObj
    <3>3. CASE SoundInternal(heap, x)
      <4>1. heap[x].kind = "internal" /\ heap[x].child \in [{0, 1} -> Ref(heap)]
        BY <3>3 DEF SoundInternal
      <4>2. heap[x].child \in [{0, 1} -> {Nil} \cup Id]
        BY <2>3, <4>1
      <4>3. QED
        BY <3>1, <4>1, <4>2 DEF IsInternal
    <3>4. QED
      BY <2>2, <3>1, <3>2, <3>3 DEF Sound
  <2>5. QED
    BY <2>2, <2>3, <2>4 DEF HeapTypeOK
<1>2. QED
  BY <1>1, HeapInvariant, PTL

\* The objects implement the tree of PBTree: updating in place, sharing objects with
\* a root that is kept and filling caches change nothing of what callers see.
THEOREM HeapRefinesTree == Spec => RefinesTree
<1>1. Init => Tree!Init
  BY InitIs, TreeOperators DEF Tree!Init
<1>2. HeapInv /\ [Next]_vars => [Tree!Next]_(Flat(heap, root))
  BY StepIs DEF Tree!Next
<1>3. QED
  BY <1>1, <1>2, HeapInvariant, PTL DEF Spec, RefinesTree, Tree!Spec

\* As long as nobody installs another hash function, a hash that is cached in the
\* current tree is the hash of what is below it: insert and delete reset what they
\* pass, a hoisted, split or shared stem brings no stale hash along, and hashing an
\* earlier root does no harm.
THEOREM CachesAreCoherent ==
  Spec /\ [][active' = active]_vars => []CachesCoherent
<1>1. Init => HashesTrue
  BY InitIs
<1>2. HeapInv /\ HashesTrue /\ [Next]_vars /\ [active' = active]_vars => HashesTrue'
  BY StepIs DEF vars
<1>3. HashesTrue => CachesCoherent
  BY DEF HashesTrue, Coherent, CachesCoherent
<1>4. QED
  BY <1>1, <1>2, <1>3, HeapInvariant, PTL DEF Spec
=============================================================================
