------------------------------ MODULE CoverSet ------------------------------
(***************************************************************************)
(* The buckets a fetch asks for (build_cover_bucket_set of                 *)
(* pbt/stem_subscription.py): the buckets of the stems it wants and as     *)
(* many others, drawn from hashes of a nonce until there are enough.       *)
(***************************************************************************)
EXTENDS Naturals, FiniteSets

CONSTANTS
  BucketCount,  \* bucket_count
  MaxCover      \* bound on cover_count

ASSUME CoverAssumption == BucketCount \in Nat \ {0} /\ MaxCover \in Nat

VARIABLES
  targets,   \* target_buckets
  cover,     \* cover_count
  selected,
  drawing    \* the loop runs

draw == <<targets, cover, selected, drawing>>

Bucket == 0..(BucketCount - 1)

CoverInit == targets = {} /\ cover = 0 /\ selected = {} /\ drawing = FALSE

\* The loop is entered if its condition holds.
Begin(ts, count) ==
  /\ ~ drawing
  /\ targets' = ts /\ cover' = count
  /\ selected' = ts
  /\ drawing' = (Cardinality(ts) < Cardinality(ts) + count)

\* Mutant: the loop runs until there are enough, even of too few buckets.
DrawEnough(b) ==
  /\ drawing
  /\ selected' = selected \cup {b}
  /\ drawing' = (Cardinality(selected') < Cardinality(targets) + cover)
  /\ UNCHANGED <<targets, cover>>

\* One turn of the loop: the next hash falls into bucket b.
Draw(b) ==
  /\ drawing
  /\ selected' = selected \cup {b}
  /\ drawing' = (/\ Cardinality(selected') # BucketCount
                 /\ Cardinality(selected') < Cardinality(targets) + cover)
  /\ UNCHANGED <<targets, cover>>

CoverNext ==
  \/ \E ts \in SUBSET Bucket, count \in 0..MaxCover : Begin(ts, count)
  \/ \E b \in Bucket : Draw(b)

\* The hashes of the nonces reach every bucket.
CoverFairness == \A b \in Bucket : WF_draw(Draw(b))

-----------------------------------------------------------------------------

\* Every draw ends, also when the targets are all the buckets there are or more
\* are asked for than there are, and with the targets and exactly as many others
\* as were asked for, or all.
CoverIsDrawn ==
  LET wanted == Cardinality(targets) + cover
      size   == IF wanted < BucketCount THEN wanted ELSE BucketCount
  IN  drawing ~> ~ drawing /\ targets \subseteq selected /\ Cardinality(selected) = size
=============================================================================
