------------------------------- MODULE PBTree -------------------------------
(***************************************************************************)
(* The partitioned binary tree of pbt/tree.py: insert, delete and get on a *)
(* tree of EmptyNode, InternalNode and StemNode.                           *)
(*                                                                         *)
(* A tree is a function from positions to nodes; a position no node        *)
(* occupies holds Empty, like the EmptyNode child the code keeps there.    *)
(* Node hashes are in Merkle.tla, object identity in NodeHeap.tla.         *)
(***************************************************************************)
EXTENDS PBTNodes

VARIABLE tree

-----------------------------------------------------------------------------
(* Descent: every operation walks down to the first node that is not an    *)
(* InternalNode.                                                           *)

StopDepth(t, s) == Least({d \in 0..Depth : t[Path(s, d)] # Internal})
Reached(t, s)   == t[Path(s, StopDepth(t, s))]

Get(t, s, i) ==
  IF Holds(Reached(t, s), s) THEN Reached(t, s).values[i] ELSE EmptyValue

-----------------------------------------------------------------------------
(* insert *)

\* Mutant: the value list of a new stem is not padded to full width.
NewStemUnpadded(s, i, v) == StemNode(s, [j \in {i} |-> v])

\* _insert at an EmptyNode: a new stem holding the single value.
NewStem(s, i, v) == StemNode(s, [NoLeaves EXCEPT ![i] = v])

Place(s, i, v) ==
  /\ Reached(tree, s) = Empty
  /\ tree' = [tree EXCEPT ![Path(s, StopDepth(tree, s))] = NewStem(s, i, v)]

\* _insert at the StemNode of s.
Overwrite(s, i, v) ==
  LET n == Reached(tree, s) IN
  /\ Holds(n, s)
  /\ tree' = [tree EXCEPT ![Path(s, StopDepth(tree, s))] =
                            StemNode(s, [n.values EXCEPT ![i] = v])]

\* _split_stems: InternalNodes down to the first bit where the stems differ.
ForkDepth(s, r, d) == Least({j \in d..(Depth - 1) : PathBit[s][j] # PathBit[r][j]})

\* Mutant: the existing stem is not put back beside the new one.
ForkDropsStem(t, n, s, i, v, d) ==
  LET e == ForkDepth(s, n.prefix, d) IN
  [p \in Position |->
     CASE p = Path(s, e + 1)             -> NewStem(s, i, v)
       [] \E j \in d..e : p = Path(s, j) -> Internal
       [] OTHER                          -> t[p]]

Fork(t, n, s, i, v, d) ==
  LET e == ForkDepth(s, n.prefix, d) IN
  [p \in Position |->
     CASE p = Path(s, e + 1)             -> NewStem(s, i, v)
       [] p = Path(n.prefix, e + 1)      -> n
       [] \E j \in d..e : p = Path(s, j) -> Internal
       [] OTHER                          -> t[p]]

Split(s, i, v) ==
  LET n == Reached(tree, s) IN
  /\ IsStem(n)
  /\ n.prefix # s
  /\ tree' = Fork(tree, n, s, i, v, StopDepth(tree, s))

Insert(s, i, v) == Place(s, i, v) \/ Overwrite(s, i, v) \/ Split(s, i, v)

-----------------------------------------------------------------------------
(* delete *)

\* Mutant: no is_empty check after a leaf is cleared.
ClearedKeepsStem(n, s, i) ==
  IF Holds(n, s) THEN StemNode(s, [n.values EXCEPT ![i] = EmptyValue]) ELSE n

\* What the deepest frame of _delete returns for the node n it reached.
Cleared(n, s, i) ==
  LET vs == [n.values EXCEPT ![i] = EmptyValue]
  IN  CASE ~ Holds(n, s) -> n
        [] Holds(n, s) /\ vs = NoLeaves -> Empty
        [] Holds(n, s) /\ vs # NoLeaves -> StemNode(s, vs)

\* What the frame at depth d returns when the deepest one, at depth k,
\* returned n.  Unwinding drops an InternalNode with two EmptyNodes or with
\* an EmptyNode and a StemNode, and keeps every other: so a frame returns n,
\* or the one StemNode beside the path, if there is nothing else below it.
Beside(t, s, d, k) == {j \in (d + 1)..k : t[Sibling(s, j)] # Empty}

\* Mutants: a surviving StemNode is not hoisted; it is, whatever the child on
\* the path became.
FrameKeepsParent(t, s, n, k, d) == IF Beside(t, s, d, k) = {} THEN n ELSE Internal
FrameForgetsChild(t, s, n, k, d) ==
  LET B == Beside(t, s, d, k)
  IN  IF B = {} THEN n
      ELSE IF \E j \in B : B = {j} /\ IsStem(t[Sibling(s, j)]) THEN t[Sibling(s, Least(B))]
      ELSE Internal

Frame(t, s, n, k, d) ==
  LET B == Beside(t, s, d, k)
  IN  IF B = {} THEN n
      ELSE IF n = Empty /\ \E j \in B : B = {j} /\ IsStem(t[Sibling(s, j)])
      THEN t[Sibling(s, Least(B))]
      ELSE Internal

\* The collapse rules of _delete, one frame at a time, from the deepest one up:
\* what Frame stands for.
Collapse(child, other) ==
  CASE child = Empty /\ other = Empty -> Empty
    [] child = Empty /\ IsStem(other) -> other
    [] IsStem(child) /\ other = Empty -> child
    [] OTHER -> Internal

FrameByFrame(t, s, n, k) ==
  LET ret[j \in 0..k] ==
        IF j = 0 THEN n ELSE Collapse(ret[j - 1], t[Sibling(s, k - j + 1)])
  IN  [j \in 0..k |-> ret[k - j]]

\* A child stays where it is only below a frame that returns an InternalNode.
Unwound(t, s, n, k) ==
  [p \in Position |->
     IF \E d \in 1..k : /\ p \in {Path(s, d), Sibling(s, d)}
                        /\ Frame(t, s, n, k, d - 1) # Internal
     THEN Empty
     ELSE IF \E d \in 0..k : p = Path(s, d)
     THEN Frame(t, s, n, k, CHOOSE d \in 0..k : p = Path(s, d))
     ELSE t[p]]

Delete(s, i) ==
  LET n == Reached(tree, s)
  IN  tree' = Unwound(tree, s, Cleared(n, s, i), StopDepth(tree, s))

-----------------------------------------------------------------------------
(* Behaviours: the calls one owner of the root makes, in any order. *)

Init == tree = [p \in Position |-> Empty]

Next == \E s \in Stem, i \in Subindex :
          \/ \E v \in InsertValue : Insert(s, i, v)
          \/ Delete(s, i)

Spec == Init /\ [][Next]_tree

-----------------------------------------------------------------------------
(* The canonical tree of a set of stems with their leaves *)

Below(s, p) == \E d \in 0..Depth : p = Path(s, d)

Crowded(L, p) == \E s, t \in {r \in L : Below(r, p)} : s # t

\* Stem s hangs at the first position that it has for itself.
Hangs(L, s, p) ==
  \E d \in 0..Depth : /\ p = Path(s, d)
                      /\ ~ Crowded(L, p)
                      /\ d = 0 \/ Crowded(L, Path(s, d - 1))

CanonicalTree(L, leaves) ==
  [p \in Position |->
     IF Crowded(L, p) THEN Internal
     ELSE IF \E s \in L : Hangs(L, s, p)
     THEN LET s == CHOOSE s \in L : Hangs(L, s, p) IN StemNode(s, leaves[s])
     ELSE Empty]

LiveStems(t) == {s \in Stem : \E p \in Position : Holds(t[p], s)}
Content(t)   == [s \in Stem |-> [i \in Subindex |-> Get(t, s, i)]]

-----------------------------------------------------------------------------
(* Properties *)

\* The tree only holds nodes of the three types the code allows (nodes.py).
TypeOK == tree \in [Position -> Node]

\* Whatever the history of inserts and deletes, the tree is the minimal one of
\* the stems it holds: an InternalNode exactly where two stems share a path,
\* each stem at the first position it has for itself, found by get.  Breaks
\* when a split goes one level too deep or a collapse hoists too little.
Canonical == tree = CanonicalTree(LiveStems(tree), Content(tree))

\* The tree, hence its root hash, is a function of the (key, value) set alone:
\* no order of operations and no deleted key leaves a trace (README.md:86).
\* Holds when no caller inserts EmptyValue.
RootIsFunctionOfMap ==
  tree = CanonicalTree({s \in Stem : Content(tree)[s] # NoLeaves}, Content(tree))

\* Unwinding as it is stated here in one formula is what the recursion of _delete
\* returns frame by frame (tree.py:212-235), for every key and every tree reached.
UnwindIsFrameByFrame ==
  \A s \in Stem, i \in Subindex :
    LET k == StopDepth(tree, s)
        n == Cleared(Reached(tree, s), s, i)
    IN  [j \in 0..k |-> Frame(tree, s, n, k, j)] = FrameByFrame(tree, s, n, k)

\* The tree implements the map from keys to values of PBTMap: a write changes
\* one key and no split, hoist or removal of a stem loses or moves another.
Map == INSTANCE PBTMap WITH
         map <- [k \in Stem \X Subindex |-> Get(tree, k[1], k[2])]
RefinesMap == Map!Spec
=============================================================================
