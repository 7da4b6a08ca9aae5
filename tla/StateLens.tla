------------------------------ MODULE StateLens ------------------------------
(***************************************************************************)
(* The ephemeral lens of pbt/stem_subscription.py: a view of a few stems   *)
(* for a few epochs and a number of uses (derive_ephemeral_state_lens,     *)
(* EphemeralStateLens, filter_packets_by_ephemeral_lens).                  *)
(***************************************************************************)
EXTENDS Integers

CONSTANTS
  Stem,
  Ttl,       \* values of ttl_epochs
  Uses,      \* values of max_uses and of consume's uses
  None,      \* max_uses is not given
  MaxEpoch   \* bound on the epochs

VARIABLES
  epoch,    \* current_epoch of the callers
  lens,     \* stem_prefixes, created_epoch, expires_at_epoch, remaining_uses, disposed
  granted,  \* history: the uses this lens has granted
  terms     \* history: the ttl_epochs and max_uses it was made with

view == <<epoch, lens, granted, terms>>

Lens(stems, created, expires, left) ==
  [stems |-> stems, created |-> created, expires |-> expires, left |-> left, disposed |-> FALSE]

\* Mutant: the lens lives an epoch longer.
LensLonger(stems, ttl, uses) == Lens(stems, epoch, epoch + ttl, uses)

\* derive_ephemeral_state_lens
NewLens(stems, ttl, uses) == Lens(stems, epoch, epoch + ttl - 1, uses)

IsActive ==
  /\ ~ lens.disposed
  /\ lens.left # None => lens.left > 0
  /\ epoch \in lens.created..lens.expires

LensInit ==
  /\ epoch = 0
  /\ lens = [NewLens({}, 1, None) EXCEPT !.disposed = TRUE]
  /\ granted = 0
  /\ terms = [ttl |-> 1, uses |-> None]

Derive(stems, ttl, uses) ==
  /\ lens' = NewLens(stems, ttl, uses)
  /\ granted' = 0
  /\ terms' = [ttl |-> ttl, uses |-> uses]
  /\ UNCHANGED epoch

Discarded(l) == [l EXCEPT !.stems = {}, !.disposed = TRUE]

Discard == lens' = Discarded(lens) /\ UNCHANGED <<epoch, granted, terms>>

\* consume returns True; more uses than are left are granted and end the lens.
Consume(uses) ==
  LET left == IF uses > lens.left THEN 0 ELSE lens.left - uses
  IN  /\ IsActive
      /\ lens' = IF lens.left = None THEN lens
                 ELSE IF left = 0 THEN Discarded([lens EXCEPT !.left = 0])
                 ELSE [lens EXCEPT !.left = left]
      /\ granted' = granted + (IF lens.left = None THEN 0 ELSE uses)
      /\ UNCHANGED <<epoch, terms>>

\* filter_packets_by_ephemeral_lens
Admits(s) == IsActive /\ s \in lens.stems

NextEpoch == epoch < MaxEpoch /\ epoch' = epoch + 1

-----------------------------------------------------------------------------

\* An active lens is within the epochs it was made for and has granted less than
\* its uses; so the uses it grants exceed its number only in the one request that
\* ends it, and once ended or expired it admits nothing whatever is asked of it.
LensKeepsItsTerms ==
  /\ IsActive => /\ epoch < lens.created + terms.ttl
                 /\ terms.uses # None => granted < terms.uses
                 /\ terms.uses # None => lens.left = terms.uses - granted
  /\ terms.uses # None /\ granted >= terms.uses => \A s \in Stem : ~ Admits(s)
=============================================================================
