------------------------------ MODULE NodeHeap ------------------------------
(***************************************************************************)
(* The node objects behind the tree of PBTree (pbt/nodes.py, pbt/tree.py): *)
(* insert and delete update InternalNodes and StemNodes in place, each     *)
(* object caches its hash, and a caller may go on reading the root object  *)
(* of an earlier tree.                                                     *)
(*                                                                         *)
(* An EmptyNode has no state, so all of them are Nil here.  tree_hash is   *)
(* collision free: a hash is the record of what was hashed and with which  *)
(* function.  An object no handle reaches is reclaimed at once.            *)
(***************************************************************************)
EXTENDS PBTNodes, FiniteSets

CONSTANTS
  HashFunction,  \* the functions set_hash_function installs
  None           \* no cached hash

\* Objects are named by the stem or the position they are created for.
ASSUME NamesAssumption == Stem \cap Position = {}

VARIABLES
  heap,       \* the objects
  root,       \* the root the last insert or delete returned
  old,        \* a root object some caller still holds
  active,     \* _active_hash
  emptyHash   \* _EMPTY_HASH_CACHE

vars == <<heap, root, old, active, emptyHash>>

\* An object keeps the stem or the position it was created for, and two roots
\* are held, so two names for each are enough.
Nil  == <<>>
Id   == (Stem \cup Position) \X {1, 2}
Free == [kind |-> "free"]

InternalObject(l, r) == [kind |-> "internal", child |-> [b \in {0, 1} |-> IF b = 0 THEN l ELSE r],
                         cache |-> None]
StemObject(s, vs)    == [kind |-> "stem", prefix |-> s, values |-> vs, cache |-> None]

IsInternal(h, x) == x # Nil /\ h[x].kind = "internal"
IsStemObj(h, x)  == x # Nil /\ h[x].kind = "stem"

\* The objects that exist.
Objects(h) == {x \in Id : h[x] # Free}

\* The bits of a position: how many, all but the last, the last.
Size(p)     == Cardinality(DOMAIN p)
Upper(p, d) == [j \in 0..(d - 1) |-> p[j]]
Up(p)       == Upper(p, Size(p) - 1)
Turn(p)     == p[Size(p) - 1]

\* What the references lead to, from reference r, at each position below it.
Refs(h, r) ==
  LET ref[p \in Position] ==
        IF Size(p) = 0 THEN r
        ELSE LET x == ref[Up(p)] IN IF IsInternal(h, x) THEN h[x].child[Turn(p)] ELSE Nil
  IN  ref

\* The objects reached from the references in R.
Reach(h, R) == {Refs(h, r)[p] : r \in R, p \in Position} \ {Nil}

Reclaimed(h, R) ==
  LET used == Reach(h, R) IN [x \in Id |-> IF x \in used THEN h[x] ELSE Free]

\* The name of a new object for the stem or position m.
Fresh(h, m) == IF h[<<m, 1>>] = Free THEN <<m, 1>> ELSE <<m, 2>>

-----------------------------------------------------------------------------
(* Hashes *)

HashEmpty(f)       == [fn |-> f, tag |-> "empty"]
HashStem(f, s, vs) == [fn |-> f, tag |-> "stem", prefix |-> s, values |-> vs]
HashPair(f, l, r)  == [fn |-> f, tag |-> "pair", left |-> l, right |-> r]

\* _empty_hash
EmptyHashNow == IF emptyHash = None THEN HashEmpty(active) ELSE emptyHash

\* node_hash of each reference, e for an EmptyNode: the cached hash of an object,
\* or a new one, with function f.
NodeHashes(f, h, e) ==
  LET hash[y \in {Nil} \cup Objects(h)] ==
        IF y = Nil THEN e
        ELSE IF h[y].cache # None THEN h[y].cache
        ELSE IF IsStemObj(h, y) THEN HashStem(f, h[y].prefix, h[y].values)
        ELSE HashPair(f, hash[h[y].child[0]], hash[h[y].child[1]])
  IN  hash

NodeHash(h, x) == NodeHashes(active, h, EmptyHashNow)[x]

\* The hash of a reference computed with function f and no cache at all.
Uncached(h) == [x \in Id |-> IF h[x] = Free THEN Free ELSE [h[x] EXCEPT !.cache = None]]

TrueHash(f, h, x) == NodeHashes(f, Uncached(h), HashEmpty(f))[x]

\* The objects whose hash node_hash computes, and caches, when called on R: it
\* does not look below an object that has its hash.
Computed(h, R) ==
  {x \in Reach(h, R) :
     \E r \in R, p \in Position :
       /\ x = Refs(h, r)[p]
       /\ \A d \in 0..Size(p) : h[Refs(h, r)[Upper(p, d)]].cache = None}

MeetsEmpty(h, R) ==
  Nil \in R \/ \E x \in Computed(h, R) : IsInternal(h, x) /\ Nil \in {h[x].child[0], h[x].child[1]}

-----------------------------------------------------------------------------
(* Descent *)

\* The references the descent for s from r goes through, and where it ends.
Walk(h, r, s) == [d \in 0..Depth |-> Refs(h, r)[Path(s, d)]]
Stop(h, r, s) == Least({d \in 0..Depth : ~ IsInternal(h, Walk(h, r, s)[d])})
End(h, r, s)  == Walk(h, r, s)[Stop(h, r, s)]

\* Mutant: ancestors keep their cached hash.
RelinkedKeepsHash(h, w, k, s, ret) ==
  [x \in Id |->
     IF \E d \in 0..(k - 1) : x = w[d]
     THEN LET d == CHOOSE d \in 0..(k - 1) : x = w[d]
          IN  [h[x] EXCEPT !.child[PathBit[s][d]] = ret[d + 1]]
     ELSE h[x]]
\* What the frames of a recursive insert or delete do on their way back from depth
\* k: each InternalNode w[d] of the path takes the child that the frame below
\* returned, ret[d + 1], and drops its cached hash.
Relinked(h, w, k, s, ret) ==
  [x \in Id |->
     IF \E d \in 0..(k - 1) : x = w[d]
     THEN LET d == CHOOSE d \in 0..(k - 1) : x = w[d]
          IN  [h[x] EXCEPT !.child[PathBit[s][d]] = ret[d + 1], !.cache = None]
     ELSE h[x]]

-----------------------------------------------------------------------------
(* insert(r, (s, i), v): the heap it leaves and the reference it returns *)

NewStem(s, i, v) == StemObject(s, [NoLeaves EXCEPT ![i] = v])

\* _insert below the InternalNodes of the path: [heap, ref] at the end of it.
AtEmpty(h, s, i, v) ==
  [heap |-> [h EXCEPT ![Fresh(h, s)] = NewStem(s, i, v)], ref |-> Fresh(h, s)]

AtOwnStem(h, x, i, v) ==
  [heap |-> [h EXCEPT ![x].values[i] = v, ![x].cache = None], ref |-> x]

\* _split_stems: the existing StemNode object moves down beside a new one.
AtOtherStem(h, x, s, i, v, d) ==
  LET q == h[x].prefix
      e == Least({j \in d..(Depth - 1) : PathBit[s][j] # PathBit[q][j]})
      stem == Fresh(h, s)
      fork(j) == Fresh(h, Path(s, j))
      toward(j, y) == IF PathBit[s][j] = 0 THEN InternalObject(y, Nil) ELSE InternalObject(Nil, y)
      node(j) == IF j < e THEN toward(j, fork(j + 1))
                 ELSE IF PathBit[s][e] = 0 THEN InternalObject(stem, x)
                 ELSE InternalObject(x, stem)
  IN  [heap |-> [y \in Id |->
                   IF y = stem THEN NewStem(s, i, v)
                   ELSE IF \E j \in d..e : y = fork(j)
                   THEN node(CHOOSE j \in d..e : y = fork(j))
                   ELSE h[y]],
       ref  |-> fork(d)]

Inserted(h, r, s, i, v) ==
  LET w   == Walk(h, r, s)
      k   == Stop(h, r, s)
      x   == End(h, r, s)
      bot == CASE x = Nil                                  -> AtEmpty(h, s, i, v)
               [] IsStemObj(h, x) /\ h[x].prefix = s       -> AtOwnStem(h, x, i, v)
               [] IsStemObj(h, x) /\ h[x].prefix # s       -> AtOtherStem(h, x, s, i, v, k)
      ret == [d \in 0..k |-> IF d = k THEN bot.ref ELSE w[d]]
  IN  [heap |-> Relinked(bot.heap, w, k, s, ret), ref |-> ret[0]]

-----------------------------------------------------------------------------
(* delete(r, (s, i)) *)

\* Mutant: a deleted leaf becomes None instead of EMPTY_VALUE.
AtLeafNone(h, x, s, i) ==
  IF IsStemObj(h, x) /\ h[x].prefix = s
  THEN [heap |-> [h EXCEPT ![x] = StemObject(s, [h[x].values EXCEPT ![i] = None])], ref |-> x]
  ELSE [heap |-> h, ref |-> x]

AtLeaf(h, x, s, i) ==
  IF IsStemObj(h, x) /\ h[x].prefix = s
  THEN LET vs == [h[x].values EXCEPT ![i] = EmptyValue]
       IN  [heap |-> [h EXCEPT ![x] = StemObject(s, vs)],
            ref  |-> IF vs = NoLeaves THEN Nil ELSE x]
  ELSE [heap |-> h, ref |-> x]

\* Mutant: a surviving InternalNode is hoisted like a StemNode.
CollapsedHoistsAny(h, x, c, o) ==
  CASE c = Nil              -> o
    [] c # Nil /\ o = Nil   -> c
    [] c # Nil /\ o # Nil   -> x

\* The reference a frame returns whose child on the path is now c, beside o.
Collapsed(h, x, c, o) ==
  CASE c = Nil /\ o = Nil                     -> Nil
    [] c = Nil /\ IsStemObj(h, o)             -> o
    [] o = Nil /\ IsStemObj(h, c)             -> c
    [] OTHER                                  -> x

Deleted(h, r, s, i) ==
  LET w   == Walk(h, r, s)
      k   == Stop(h, r, s)
      bot == AtLeaf(h, End(h, r, s), s, i)
      up[n \in 0..k] ==
        IF n = 0 THEN bot.ref
        ELSE Collapsed(bot.heap, w[k - n], up[n - 1], h[w[k - n]].child[1 - PathBit[s][k - n]])
      ret == [d \in 0..k |-> up[k - d]]
  IN  [heap |-> Relinked(bot.heap, w, k, s, ret), ref |-> ret[0]]

-----------------------------------------------------------------------------
(* Behaviours *)

Init == /\ heap = [x \in Id |-> Free]
        /\ root = Nil
        /\ old = Nil
        /\ active \in HashFunction
        /\ emptyHash = None

\* The caller replaces its root by what the call returned.
Insert(s, i, v) ==
  LET res == Inserted(heap, root, s, i, v) IN
  /\ root' = res.ref
  /\ heap' = Reclaimed(res.heap, {res.ref, old})
  /\ UNCHANGED <<old, active, emptyHash>>

Delete(s, i) ==
  LET res == Deleted(heap, root, s, i) IN
  /\ root' = res.ref
  /\ heap' = Reclaimed(res.heap, {res.ref, old})
  /\ UNCHANGED <<old, active, emptyHash>>

\* A caller remembers the present root object: a snapshot, or so it thinks.
KeepRoot ==
  /\ old' = root
  /\ heap' = Reclaimed(heap, {root})
  /\ UNCHANGED <<root, active, emptyHash>>

\* node_hash on the references in R.
TakeHashes(R) ==
  /\ LET new == Computed(heap, R)
     IN  heap' = [x \in Id |-> IF x \in new THEN [heap[x] EXCEPT !.cache = NodeHash(heap, x)]
                                             ELSE heap[x]]
  /\ emptyHash' = IF MeetsEmpty(heap, R) THEN EmptyHashNow ELSE emptyHash
  /\ UNCHANGED <<root, old, active>>

RootHash    == TakeHashes({root})
OldRootHash == TakeHashes({old})

\* get_proof hashes the siblings along the path, not the path itself.
GetProof(s) ==
  TakeHashes({heap[Walk(heap, root, s)[d]].child[1 - PathBit[s][d]] :
                d \in 0..(Stop(heap, root, s) - 1)})

SetHashFunction(f) == active' = f /\ UNCHANGED <<heap, root, old, emptyHash>>

Next ==
  \/ \E s \in Stem : \/ \E i \in Subindex : \/ \E v \in InsertValue : Insert(s, i, v)
                                            \/ Delete(s, i)
                     \/ GetProof(s)
  \/ KeepRoot
  \/ RootHash
  \/ OldRootHash
  \/ \E f \in HashFunction : SetHashFunction(f)

Spec == Init /\ [][Next]_vars

-----------------------------------------------------------------------------
(* The tree that a root object stands for *)

NodeOf(h, x) ==
  CASE x = Nil          -> Empty
    [] IsStemObj(h, x)  -> StemNode(h[x].prefix, h[x].values)
    [] IsInternal(h, x) -> Internal

Flat(h, r) == [p \in Position |-> NodeOf(h, Refs(h, r)[p])]

Tree == INSTANCE PBTree WITH tree <- Flat(heap, root)

-----------------------------------------------------------------------------
(* Properties *)

\* Objects are of the two classes with state, unreached ones are reclaimed.
HeapTypeOK ==
  /\ root \in {Nil} \cup Id /\ old \in {Nil} \cup Id
  /\ \A x \in Id :
       \/ heap[x] = Free
       \/ IsStemObj(heap, x) /\ heap[x].prefix \in Stem /\ heap[x].values \in Leaves
       \/ IsInternal(heap, x) /\ heap[x].child \in [{0, 1} -> {Nil} \cup Id]
  /\ Objects(heap) = Reach(heap, {root, old})

\* Every hash that is cached in the current tree is the hash of what is below
\* it now: no in-place update forgets to invalidate an ancestor, no hoisted or
\* split stem brings a stale hash along, and hashing an earlier root does no
\* harm.  Holds as long as the hash function stays.
CachesCoherent ==
  \A x \in Reach(heap, {root}) : heap[x].cache # None => heap[x].cache = TrueHash(active, heap, x)

\* The objects implement the tree of PBTree: updating in place, sharing stems
\* with an old root and filling caches change nothing of what callers see.
RefinesTree == Tree!Spec

\* tree.py:80-82: "The input root is not modified in-place for
\* InternalNode/EmptyNode cases": whoever keeps such a root keeps its contents
\* when the tree is inserted into.
KeptRootIsUnchanged ==
  [][ \A s \in Stem, i \in Subindex, v \in InsertValue :
        Insert(s, i, v) /\ ~ IsStemObj(heap, old) =>
          Tree!Content(Flat(heap', old')) = Tree!Content(Flat(heap, old)) ]_vars

\* nodes.py:22-23: the sentinel for an EmptyNode is "Defined as tree_hash(b"")",
\* whatever hash function is installed.
EmptyHashIsTreeHashOfEmpty == emptyHash # None => emptyHash = HashEmpty(active)
=============================================================================
