---------------------------- MODULE WalletSession ----------------------------
(***************************************************************************)
(* A wallet at work: packets pass its lens (StateLens) into the cache of   *)
(* the stem client (StemClient), and every access is paid for by the meter *)
(* (GasMeter).  The three are objects of their own; that they are used     *)
(* together like this is up to the wallet's application.                   *)
(***************************************************************************)
EXTENDS StemClient

CONSTANTS
  BranchCost, ChunkCost, NewLeafCost, HitCost, MaxAccesses,  \* of GasMeter
  Ttl, Uses, None, MaxEpoch                                  \* of StateLens

ASSUME SessionAssumption ==
  /\ {BranchCost, ChunkCost, NewLeafCost, HitCost, MaxAccesses, MaxEpoch} \subseteq Nat
  /\ Ttl \cup Uses \subseteq Nat \ {0} /\ None \notin Int

VARIABLES
  opened, hot, block,           \* of GasMeter
  epoch, lens, granted, terms,  \* of StateLens
  fresh  \* history: stems verified under the root that is trusted now

Lens  == INSTANCE StateLens
Meter == INSTANCE GasMeter

meter == <<opened, hot, block>>
view  == <<epoch, lens, granted, terms>>
session == <<vars, view, meter, fresh>>

SessionInit ==
  /\ Init /\ Lens!LensInit /\ Meter!GasInit
  /\ fresh = {}

\* A packet whose stem the lens admits is verified, cached and marked for the meter.
ReceivePacket(p) ==
  /\ Lens!Admits(p.stemPrefix)
  /\ VerifyAndCachePacket(p)
  /\ Meter!MarkStemVerified(p.stemPrefix)
  /\ Lens!Consume(1)
  /\ fresh' = fresh \cup {p.stemPrefix}

\* A read or a write of a stem; the meter takes the application's word for whether
\* it was verified.
Access(s, newLeaf, locallyVerified) ==
  /\ Meter!Charge(s, newLeaf, locallyVerified)
  /\ UNCHANGED <<vars, view, fresh>>

\* The lens is derived, used for something else, or thrown away.
UseLens ==
  /\ \/ \E stems \in SUBSET Stem, ttl \in Ttl, uses \in Uses \cup {None} : Lens!Derive(stems, ttl, uses)
     \/ \E uses \in Uses : Lens!Consume(uses)
     \/ Lens!Discard
  /\ UNCHANGED <<vars, meter, fresh>>

\* A new block with another root, in the same epoch or the next.
NextBlock(r, clear) ==
  /\ SetVerifiedBlockRoot(r, clear)
  /\ Meter!NewBlock
  /\ fresh' = {}
  /\ Lens!NextEpoch \/ UNCHANGED epoch
  /\ UNCHANGED <<lens, granted, terms>>

\* The application empties the cache; the lens and the meter are not told.
ForgetCache == ClearCache /\ UNCHANGED <<view, meter, fresh>>

SessionNext ==
  \/ \E p \in Sent : ReceivePacket(p)
  \/ \E s \in Stem, newLeaf \in BOOLEAN, lv \in BOOLEAN : Access(s, newLeaf, lv)
  \/ UseLens
  \/ ForgetCache
  \/ \E r \in Root, clear \in BOOLEAN : NextBlock(r, clear)

SessionSpec == SessionInit /\ [][SessionNext]_session

-----------------------------------------------------------------------------
(* Properties *)

\* A discount is only ever given for a stem whose packet was verified under the
\* root that is trusted in this block, even if the cache survived its rotation.
DiscountIsCurrent == block.cheap \subseteq fresh /\ hot \subseteq fresh

\* See StateLens and GasMeter.
LensKeepsItsTerms == Lens!LensKeepsItsTerms
BlockGasIsExact   == Meter!BlockGasIsExact
=============================================================================
