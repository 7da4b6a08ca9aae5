------------------------------ MODULE GasMeter ------------------------------
(***************************************************************************)
(* The stem gas meter of pbt/gas.py (VerificationAwareStemGasMeter): the   *)
(* first access to a stem in a block pays for its branch, or little if the *)
(* stem was verified locally in the block; later ones pay for the chunk.   *)
(***************************************************************************)
EXTENDS Naturals, FiniteSets

CONSTANTS
  Stem,
  BranchCost, ChunkCost, NewLeafCost, HitCost,  \* StemGasPolicy
  MaxAccesses                                   \* bound on the accesses of a block

VARIABLES
  opened,  \* _opened_stems
  hot,     \* _verified_hot_stems
  block    \* history of the block: accesses, new leaves, what was spent, and
           \* the stems whose first access was discounted

meter == <<opened, hot, block>>

Untouched == [accesses |-> 0, leaves |-> 0, spent |-> 0, cheap |-> {}]

GasInit == opened = {} /\ hot = {} /\ block = Untouched

\* Mutant: the verified stems are kept for the next block.
NewBlockKeepsHot == opened' = {} /\ hot' = hot /\ block' = Untouched

NewBlock == opened' = {} /\ hot' = {} /\ block' = Untouched

MarkStemVerified(s) == hot' = hot \cup {s} /\ UNCHANGED <<opened, block>>

Discounted(s, locallyVerified) == s \notin opened /\ locallyVerified /\ s \in hot

\* Mutant: a discounted access does not open the stem.
ChargeUnopened(s, newLeaf, locallyVerified) ==
  LET cheap == Discounted(s, locallyVerified)
      cost  == IF cheap THEN HitCost
               ELSE IF s \notin opened THEN BranchCost + ChunkCost ELSE ChunkCost
  IN  /\ block.accesses < MaxAccesses
      /\ opened' = IF cheap THEN opened ELSE opened \cup {s}
      /\ block' = [accesses |-> block.accesses + 1,
                   leaves   |-> block.leaves + (IF newLeaf THEN 1 ELSE 0),
                   spent    |-> block.spent + cost + (IF newLeaf THEN NewLeafCost ELSE 0),
                   cheap    |-> block.cheap \cup (IF cheap THEN {s} ELSE {})]
      /\ UNCHANGED hot

\* charge_write, and with newLeaf = FALSE charge_read.
Charge(s, newLeaf, locallyVerified) ==
  LET cheap == Discounted(s, locallyVerified)
      cost  == IF cheap THEN HitCost
               ELSE IF s \notin opened THEN BranchCost + ChunkCost ELSE ChunkCost
  IN  /\ block.accesses < MaxAccesses
      /\ opened' = opened \cup {s}
      /\ block' = [accesses |-> block.accesses + 1,
                   leaves   |-> block.leaves + (IF newLeaf THEN 1 ELSE 0),
                   spent    |-> block.spent + cost + (IF newLeaf THEN NewLeafCost ELSE 0),
                   cheap    |-> block.cheap \cup (IF cheap THEN {s} ELSE {})]
      /\ UNCHANGED hot

-----------------------------------------------------------------------------

\* A block pays for every stem once, in one of two ways, and for everything else
\* per access, in whatever order stems are read, written, verified and read again.
BlockGasIsExact ==
  /\ block.cheap \subseteq opened
  /\ block.spent = HitCost * Cardinality(block.cheap)
                 + (BranchCost + ChunkCost) * Cardinality(opened \ block.cheap)
                 + ChunkCost * (block.accesses - Cardinality(opened))
                 + NewLeafCost * block.leaves
=============================================================================
