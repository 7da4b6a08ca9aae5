----------------------------- MODULE SLARegistry -----------------------------
(***************************************************************************)
(* Bonds behind a provider's service level agreement, in                   *)
(* pbt/stem_subscription.py (OptionalSLARegistry).  The agreement itself   *)
(* is not consulted: a bond is slashed whatever it says.                   *)
(***************************************************************************)
EXTENDS Integers, FiniteSets

CONSTANTS
  Pair,       \* (wallet_id, provider_id)
  Bond,       \* bond amounts
  Penalty,    \* penalties
  MaxMissed   \* bound on the penalties between two stakes

ASSUME RegistryAssumption == Bond \subseteq Nat \ {0} /\ Penalty \subseteq Nat \ {0}

VARIABLES
  positions,  \* _positions: bond_amount and slashable of a pair, or NoPosition
  missed      \* history: the penalties a pair has had since it staked last

registry == <<positions, missed>>

NoPosition == [bond |-> 0, slashable |-> 0]

RegistryInit ==
  /\ positions = [p \in Pair |-> NoPosition]
  /\ missed = [p \in Pair |-> 0]

\* Staking again replaces the position.
Stake(p, bond) ==
  /\ positions' = [positions EXCEPT ![p] = [bond |-> bond, slashable |-> bond]]
  /\ missed' = [missed EXCEPT ![p] = 0]

\* Mutant: what exceeds the rest is not slashed.
SlashIfEnough(p, penalty) ==
  /\ positions[p] # NoPosition
  /\ missed[p] + penalty <= MaxMissed
  /\ positions' = [positions EXCEPT ![p].slashable = IF @ >= penalty THEN @ - penalty ELSE @]
  /\ missed' = [missed EXCEPT ![p] = @ + penalty]

\* slash_for_missed_delivery; without a position it raises KeyError.
Slash(p, penalty) ==
  /\ positions[p] # NoPosition
  /\ missed[p] + penalty <= MaxMissed
  /\ positions' = [positions EXCEPT ![p].slashable = IF @ >= penalty THEN @ - penalty ELSE 0]
  /\ missed' = [missed EXCEPT ![p] = @ + penalty]

RegistryNext ==
  \E p \in Pair : (\E b \in Bond : Stake(p, b)) \/ (\E n \in Penalty : Slash(p, n))

RegistrySpec == RegistryInit /\ [][RegistryNext]_registry

-----------------------------------------------------------------------------

\* Whatever the order of stakes and missed deliveries of all pairs, what is left
\* of a bond is the bond less all penalties since it was last staked, and never
\* less than nothing; nobody's penalty touches the bond of another.
BondCoversPenalties ==
  \A p \in Pair :
    LET rest == positions[p].bond - missed[p]
    IN  positions[p].slashable = IF rest > 0 THEN rest ELSE 0
=============================================================================
