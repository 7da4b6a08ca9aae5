------------------------------- MODULE Merkle -------------------------------
(***************************************************************************)
(* Root hashes and proofs of the tree (pbt/tree.py:238-425), and a session *)
(* that keeps proofs while the tree goes on changing (cli.py PBTSession).  *)
(*                                                                         *)
(* tree_hash is taken to be collision free: a hash is represented by what  *)
(* was hashed, so two hashes are equal exactly if their preimages are.     *)
(* The order of 32-byte hashes is left out: the sorted list of distinct    *)
(* siblings of a batch proof is a set here, and that it is sorted is not   *)
(* checked again.                                                          *)
(***************************************************************************)
EXTENDS PBTree, FiniteSets, SequencesExt

CONSTANTS
  KeyRank,     \* KeyRank[k]: place of key k in the lexicographic order
  BatchKeys,   \* the sets of keys for which callers ask a batch proof
  MaxCaptures  \* bound on the proofs a session keeps at a time

VARIABLES
  recent,  \* recent_proofs: key -> proof
  batch    \* the batch proofs that are kept

vars == <<tree, recent, batch>>

Key == Stem \X Subindex

-----------------------------------------------------------------------------
(* Hashes *)

EmptyHash       == [tag |-> "empty"]
\* Mutant: the commitment to a stem leaves its leaves out.
HashPrefix(s, vs) == [tag |-> "stem", prefix |-> s, values |-> NoLeaves]

HashStem(s, vs) == [tag |-> "stem", prefix |-> s, values |-> vs]
HashPair(l, r)  == [tag |-> "pair", left |-> l, right |-> r]

Child(p, b) ==
  LET d == Cardinality(DOMAIN p)
  IN  [i \in 0..d |-> IF i < d THEN p[i] ELSE b]

\* An InternalNode always has its two children.
Tree == {t \in [Position -> Node] :
           \A p \in Position : t[p] = Internal => Child(p, 0) \in Position}

\* node_hash of the node at position p of tree t, and of all nodes of t
NodeHashAt[x \in Tree \X Position] ==
  LET t == x[1]
      p == x[2]
  IN  IF t[p] = Empty THEN EmptyHash
      ELSE IF IsStem(t[p]) THEN HashStem(t[p].prefix, t[p].values)
      ELSE HashPair(NodeHashAt[<<t, Child(p, 0)>>], NodeHashAt[<<t, Child(p, 1)>>])
NodeHash(t) == [p \in Position |-> NodeHashAt[<<t, p>>]]

RootHash(t) == NodeHash(t)[<<>>]

-----------------------------------------------------------------------------
(* Single-key proofs *)

\* The hashes of trees of at most n levels
HashOfHeight[n \in 0..Depth] ==
  IF n = 0 THEN {EmptyHash} \cup [tag : {"stem"}, prefix : Stem, values : Leaves]
  ELSE HashOfHeight[n - 1] \cup
       [tag : {"pair"}, left : HashOfHeight[n - 1], right : HashOfHeight[n - 1]]
Hash == HashOfHeight[Depth]

\* MerkleProof
Proof == [key : Key, value : Value, stemValues : Leaves,
          siblings : Seq(Hash), bits : {b \in Seq({0, 1}) : Len(b) <= Depth}]

\* Mutants: the proof states the stem instead of the key; its siblings are listed
\* from the stem upwards.
GetProofOfStem(t, k) ==
  LET s == k[1]
      d == StopDepth(t, s)
      h == NodeHash(t)
  IN  [key        |-> <<s, Least(Subindex)>>,
       value      |-> Get(t, s, k[2]),
       stemValues |-> IF Holds(Reached(t, s), s) THEN Reached(t, s).values ELSE NoLeaves,
       siblings   |-> [j \in 1..d |-> h[Sibling(s, j)]],
       bits       |-> [j \in 1..d |-> PathBit[s][j - 1]]]
GetProofUpwards(t, k) ==
  LET s == k[1]
      d == StopDepth(t, s)
      h == NodeHash(t)
  IN  [key        |-> k,
       value      |-> Get(t, s, k[2]),
       stemValues |-> IF Holds(Reached(t, s), s) THEN Reached(t, s).values ELSE NoLeaves,
       siblings   |-> [j \in 1..d |-> h[Sibling(s, d + 1 - j)]],
       bits       |-> [j \in 1..d |-> PathBit[s][j - 1]]]

GetProof(t, k) ==
  LET s == k[1]
      d == StopDepth(t, s)
      h == NodeHash(t)
  IN  [key        |-> k,
       value      |-> Get(t, s, k[2]),
       stemValues |-> IF Holds(Reached(t, s), s) THEN Reached(t, s).values ELSE NoLeaves,
       siblings   |-> [j \in 1..d |-> h[Sibling(s, j)]],
       bits       |-> [j \in 1..d |-> PathBit[s][j - 1]]]

\* What verify_proof has hashed after the n lowest siblings of a proof, and after all.
FoldedHash[x \in Proof \X (0..Depth)] ==
  LET pf == x[1]
      n  == x[2]
      j  == Len(pf.bits) + 1 - n
  IN  IF n = 0 THEN HashStem(pf.key[1], pf.stemValues)
      ELSE IF pf.bits[j] = 0 THEN HashPair(FoldedHash[<<pf, n - 1>>], pf.siblings[j])
      ELSE HashPair(pf.siblings[j], FoldedHash[<<pf, n - 1>>])
ProvenRoot(pf) == FoldedHash[<<pf, Len(pf.bits)>>]

VerifyProof(rh, pf) ==
  /\ pf.stemValues[pf.key[2]] = pf.value
  /\ Len(pf.siblings) = Len(pf.bits)
  /\ ProvenRoot(pf) = rh

-----------------------------------------------------------------------------
(* Batch proofs *)

\* sorted(set(keys))
SortedKeys(K) ==
  CHOOSE f \in [1..Cardinality(K) -> K] :
    \A m, n \in 1..Cardinality(K) : m < n => KeyRank[f[m]] < KeyRank[f[n]]

GetMultiProof(t, K) ==
  LET keys   == SortedKeys(K)
      proofs == [n \in 1..Len(keys) |-> GetProof(t, keys[n])]
  IN  [keys     |-> keys,
       values   |-> [n \in 1..Len(keys) |-> proofs[n].value],
       proofs   |-> proofs,
       siblings |-> UNION {ToSet(proofs[n].siblings) : n \in 1..Len(keys)},
       index    |-> [n \in 1..Len(keys) |-> n - 1]]  \* key_to_proof_index

\* Mutants: the constituent proofs are not verified; only the first one is.
VerifyNoProof(rh, bp) ==
  /\ bp.keys = SortedKeys(ToSet(bp.keys))
  /\ \A n \in 1..Len(bp.keys) : bp.proofs[n].value = bp.values[n]
VerifyFirstProof(rh, bp) == VerifyNoProof(rh, bp) /\ (bp.keys # <<>> => VerifyProof(rh, bp.proofs[1]))

VerifyMultiProof(rh, bp) ==
  /\ bp.keys = SortedKeys(ToSet(bp.keys))
  /\ Len(bp.values) = Len(bp.keys)
  /\ Len(bp.proofs) = Len(bp.keys)
  /\ bp.index = [n \in 1..Len(bp.keys) |-> n - 1]
  /\ \A n \in 1..Len(bp.keys) : /\ bp.proofs[n].key = bp.keys[n]
                                /\ bp.proofs[n].value = bp.values[n]
                                /\ VerifyProof(rh, bp.proofs[n])

-----------------------------------------------------------------------------
(* The session *)

ASSUME BatchKeysAssumption == \A K \in BatchKeys : K \subseteq Key /\ IsFiniteSet(K)
ASSUME KeyRankAssumption ==
  /\ KeyRank \in [Key -> Int]
  /\ \A x, y \in Key : KeyRank[x] = KeyRank[y] => x = y
ASSUME MaxCapturesAssumption == MaxCaptures \in Nat

NoProofs == [k \in {} |-> {}]

MayCapture == Cardinality(DOMAIN recent) + Cardinality(batch) < MaxCaptures

SessionInit == Init /\ recent = NoProofs /\ batch = {}

CmdSet(k, v) == Insert(k[1], k[2], v) /\ UNCHANGED <<recent, batch>>
CmdDel(k)    == Delete(k[1], k[2]) /\ UNCHANGED <<recent, batch>>

CmdProof(k) ==
  /\ k \in DOMAIN recent \/ MayCapture
  /\ recent' = [x \in DOMAIN recent \cup {k} |->
                  IF x = k THEN GetProof(tree, k) ELSE recent[x]]
  /\ UNCHANGED <<tree, batch>>

CmdNew ==
  /\ tree' = [p \in Position |-> Empty]
  /\ recent' = NoProofs
  /\ UNCHANGED batch

\* A caller of the library keeps a batch proof.
KeepBatch(K) ==
  /\ MayCapture
  /\ batch' = batch \cup {GetMultiProof(tree, K)}
  /\ UNCHANGED <<tree, recent>>

SessionNext ==
  \/ \E k \in Key : \/ \E v \in InsertValue : CmdSet(k, v)
                    \/ CmdDel(k)
                    \/ CmdProof(k)
  \/ CmdNew
  \/ \E K \in BatchKeys : KeepBatch(K)

SessionSpec == SessionInit /\ [][SessionNext]_vars

-----------------------------------------------------------------------------
(* Properties *)

\* The session keeps one proof per key, each for the key it is filed under.
SessionTypeOK ==
  /\ TypeOK
  /\ DOMAIN recent \subseteq Key
  /\ \A k \in DOMAIN recent : recent[k] \in Proof /\ recent[k].key = k
  /\ Cardinality(DOMAIN recent) + Cardinality(batch) <= MaxCaptures

\* A fresh proof verifies against the root it was made for exactly if the stem
\* of its key is in the tree, for present and for absent leaves of that stem:
\* a sibling hashed on the wrong side or a bit out of order would refuse it.
ProofVerifiesIffStemPresent ==
  \A k \in Key : VerifyProof(RootHash(tree), GetProof(tree, k)) <=> k[1] \in LiveStems(tree)

\* A kept proof is accepted (cli.py cmd_verify) only while it is still the
\* proof of the current tree: after any change to its stem, to a sibling
\* subtree or to the depth of its path it is refused, however many inserts
\* and deletes lie between.
KeptProofIsCurrent ==
  \A k \in DOMAIN recent : VerifyProof(RootHash(tree), recent[k]) => recent[k] = GetProof(tree, k)

\* A kept batch that verifies states the current value of each of its keys.
KeptBatchIsSound ==
  \A bp \in batch : VerifyMultiProof(RootHash(tree), bp) =>
    \A n \in 1..Len(bp.keys) : bp.values[n] = Get(tree, bp.keys[n][1], bp.keys[n][2])

\* A batch proof is worth the single proofs it is made of (README.md:245).
BatchIsConjunction ==
  \A K \in BatchKeys :
    VerifyMultiProof(RootHash(tree), GetMultiProof(tree, K)) <=>
      \A k \in K : VerifyProof(RootHash(tree), GetProof(tree, k))

\* tree.py:289-290: "verify_proof(root_hash(root), proof) returns True for the
\* returned proof", for every key.
EveryProofVerifies ==
  \A k \in Key : VerifyProof(RootHash(tree), GetProof(tree, k))
=============================================================================
