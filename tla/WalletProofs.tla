---------------------------- MODULE WalletProofs ----------------------------
(***************************************************************************)
(* Theorems about SmartAccount for every set of guardians, quorum, timelock *)
(* and threshold, about SLARegistry for every bond and penalty, and about  *)
(* RedundantQuery for every list of providers.                             *)
(***************************************************************************)
EXTENDS SmartAccount, SLARegistry, RedundantQuery, FiniteSetTheorems,
        WellFoundedInduction, TLAPS

-----------------------------------------------------------------------------
(* The invariant of the account *)

TransferRecord ==
  [amount : Nat, createdAt : Nat, executeAfter : Nat, canceled : BOOLEAN,
   executed : BOOLEAN, executedAt : Nat, by : Rightful \cup Thief]

\* What time does to a transfer: a large one of a thief that is pending has yet to
\* fall due, as long as one guardian watches.
Sound(t, clock, bad) ==
  /\ ~ (t.canceled /\ t.executed)
  /\ t.executed => t.executedAt \in t.executeAfter..clock
  /\ Guardian \ bad # {} /\ Stolen(t) /\ Large(t) =>
       ~ t.executed /\ (~ t.canceled => clock < t.executeAfter)

WorldOK ==
  /\ corrupt \subseteq Guardian /\ given \in Quorums /\ now \in 0..MaxTime
  /\ owner \in Rightful \cup Thief

TransfersOK ==
  /\ transfers \in Seq(TransferRecord)
  /\ Len(transfers) <= MaxTransfers
  /\ \A id \in 1..Len(transfers) : Sound(transfers[id], now, corrupt)

AccountInv == WorldOK /\ TransfersOK /\ MinorityNeverOwns

\* Fewer names than the quorum, or a minority when the quorum is the default, have
\* subsets too small to recover an owner.
LEMMA SmallSetsFallShort ==
  ASSUME NEW C \in SUBSET Guardian, NEW A \in SUBSET C, given \in Quorums,
         \/ Cardinality(C) < RecoveryQuorum
         \/ given \in {None, 0} /\ 2 * Cardinality(C) <= Cardinality(Guardian)
  PROVE  Cardinality(A \cap Guardian) < RecoveryQuorum
<1>1. IsFiniteSet(Guardian) /\ IsFiniteSet(C)
  BY AccountAssumption, FS_Subset
<1>2. /\ Cardinality(A \cap Guardian) \in Nat /\ Cardinality(C) \in Nat
      /\ Cardinality(Guardian) \in Nat
      /\ Cardinality(A \cap Guardian) <= Cardinality(C)
  <2>1. A \cap Guardian \subseteq C /\ IsFiniteSet(A \cap Guardian)
    BY <1>1, FS_Subset
  <2>2. QED
    BY <1>1, <2>1, FS_CardinalityType, FS_Subset
<1>3. RecoveryQuorum \in Int
  BY <1>2, AccountAssumption DEF RecoveryQuorum
<1>4. CASE Cardinality(C) < RecoveryQuorum
  BY <1>2, <1>3, <1>4
<1>5. CASE given \in {None, 0} /\ 2 * Cardinality(C) <= Cardinality(Guardian)
  <2>1. RecoveryQuorum = Cardinality(Guardian) \div 2 + 1
    BY <1>5 DEF RecoveryQuorum
  <2>2. QED
    BY <1>2, <1>5, <2>1
<1>6. QED
  BY <1>4, <1>5

LEMMA AccountInit == Init => AccountInv
<1>1. SUFFICES ASSUME Init PROVE AccountInv
  OBVIOUS
<1>2. WorldOK
  BY <1>1, AccountAssumption DEF Init, WorldOK
<1>3. TransfersOK
  BY <1>1, AccountAssumption DEF Init, TransfersOK
<1>4. MinorityNeverOwns
  BY <1>1 DEF Init, MinorityNeverOwns
<1>5. QED
  BY <1>2, <1>3, <1>4 DEF AccountInv

\* A change of transfers alone leaves the rest of the invariant alone.
LEMMA OthersUnchanged ==
  ASSUME AccountInv, UNCHANGED <<corrupt, given, owner>>, now' \in 0..MaxTime
  PROVE  WorldOK' /\ MinorityNeverOwns'
<1>1. WorldOK'
  BY DEF AccountInv, WorldOK
<1>2. MinorityNeverOwns'
  BY DEF AccountInv, MinorityNeverOwns, RecoveryQuorum
<1>3. QED
  BY <1>1, <1>2

LEMMA ScheduleKeeps ==
  ASSUME AccountInv, NEW amount \in Amount, NEW by \in Rightful \cup Thief,
         ScheduleTransfer(amount, by)
  PROVE  AccountInv'
<1>1. WorldOK' /\ MinorityNeverOwns'
  BY OthersUnchanged DEF ScheduleTransfer, AccountInv, WorldOK
<1> DEFINE t == Transfer(amount, now + Delay(amount), by)
<1>2. now \in Nat /\ amount \in Nat /\ Delay(amount) \in Nat
  BY AccountAssumption DEF AccountInv, WorldOK, Delay
<1>3. t \in TransferRecord
  BY <1>2 DEF Transfer, TransferRecord
<1>4. transfers' \in Seq(TransferRecord) /\ Len(transfers') = Len(transfers) + 1
  BY <1>3 DEF AccountInv, TransfersOK, ScheduleTransfer
<1>5. Len(transfers') <= MaxTransfers
  BY <1>4, AccountAssumption DEF AccountInv, TransfersOK, ScheduleTransfer
<1>6. Sound(t, now, corrupt)
  <2>1. ~ t.executed /\ ~ t.canceled /\ t.executeAfter = now + Delay(amount) /\ t.amount = amount
    BY DEF Transfer
  <2>2. amount >= Threshold => now < t.executeAfter
    BY <1>2, <2>1, AccountAssumption DEF Delay
  <2>3. QED
    BY <2>1, <2>2 DEF Sound, Large
<1>7. ASSUME NEW id \in 1..Len(transfers') PROVE Sound(transfers'[id], now', corrupt')
  <2>0. now' = now /\ corrupt' = corrupt /\ transfers' = Append(transfers, t)
    BY DEF ScheduleTransfer
  <2>1. CASE id = Len(transfers) + 1
    BY <1>6, <2>0, <2>1 DEF AccountInv, TransfersOK
  <2>2. CASE id \in 1..Len(transfers)
    BY <2>0, <2>2 DEF AccountInv, TransfersOK
  <2>3. QED
    BY <1>4, <2>1, <2>2 DEF AccountInv, TransfersOK
<1>8. TransfersOK'
  BY <1>4, <1>5, <1>7 DEF TransfersOK
<1>9. QED
  BY <1>1, <1>8 DEF AccountInv

\* Replacing one transfer by a sound one.
LEMMA OneReplaced ==
  ASSUME AccountInv, NEW id \in 1..Len(transfers), NEW t \in TransferRecord,
         Sound(t, now, corrupt), transfers' = [transfers EXCEPT ![id] = t],
         UNCHANGED <<corrupt, given, owner, now>>
  PROVE  AccountInv'
<1>1. WorldOK' /\ MinorityNeverOwns'
  BY OthersUnchanged DEF AccountInv, WorldOK
<1>2. transfers' \in Seq(TransferRecord) /\ Len(transfers') = Len(transfers)
  BY DEF AccountInv, TransfersOK
<1>3. \A n \in 1..Len(transfers') : Sound(transfers'[n], now', corrupt')
  <2>1. SUFFICES ASSUME NEW n \in 1..Len(transfers)
                 PROVE  Sound(transfers'[n], now, corrupt)
    BY <1>2
  <2>2. CASE n = id
    BY <2>2 DEF AccountInv, TransfersOK
  <2>3. CASE n # id
    BY <2>3 DEF AccountInv, TransfersOK
  <2>4. QED
    BY <2>2, <2>3
<1>4. QED
  BY <1>1, <1>2, <1>3 DEF AccountInv, TransfersOK

LEMMA CancelKeeps ==
  ASSUME AccountInv, NEW id \in 1..Len(transfers), NEW actor, CancelTransfer(id, actor)
  PROVE  AccountInv'
<1> DEFINE t == [transfers[id] EXCEPT !.canceled = TRUE]
<1>1. transfers[id] \in TransferRecord /\ Sound(transfers[id], now, corrupt)
  BY DEF AccountInv, TransfersOK
<1>2. t \in TransferRecord /\ Sound(t, now, corrupt)
  BY <1>1 DEF CancelTransfer, TransferRecord, Sound, Stolen, Large
<1>3. transfers' = [transfers EXCEPT ![id] = t] /\ UNCHANGED <<corrupt, given, owner, now>>
  BY DEF CancelTransfer
<1>4. QED
  BY <1>2, <1>3, OneReplaced

LEMMA ExecuteKeeps ==
  ASSUME AccountInv, NEW id \in 1..Len(transfers), ExecuteTransfer(id)
  PROVE  AccountInv'
<1> DEFINE t == [transfers[id] EXCEPT !.executed = TRUE, !.executedAt = now]
<1>1. transfers[id] \in TransferRecord /\ Sound(transfers[id], now, corrupt) /\ now \in Nat
  BY AccountAssumption DEF AccountInv, TransfersOK, WorldOK
<1>2. t \in TransferRecord /\ Sound(t, now, corrupt)
  <2>1. t \in TransferRecord
    BY <1>1 DEF TransferRecord
  <2>2. /\ t.executeAfter = transfers[id].executeAfter /\ t.executeAfter \in Nat
        /\ t.canceled = transfers[id].canceled /\ t.executedAt = now
        /\ t.by = transfers[id].by /\ t.amount = transfers[id].amount
    BY <1>1 DEF TransferRecord
  <2>3. ~ transfers[id].canceled /\ ~ transfers[id].executed
        /\ now >= transfers[id].executeAfter
    BY DEF ExecuteTransfer
  <2>4. now \in t.executeAfter..now
    BY <1>1, <2>2, <2>3
  <2>5. ~ (Guardian \ corrupt # {} /\ Stolen(t) /\ Large(t))
    BY <1>1, <2>2, <2>3 DEF Sound, Stolen, Large
  <2>6. QED
    BY <2>1, <2>2, <2>3, <2>4, <2>5 DEF Sound
<1>3. transfers' = [transfers EXCEPT ![id] = t] /\ UNCHANGED <<corrupt, given, owner, now>>
  BY DEF ExecuteTransfer
<1>4. QED
  BY <1>2, <1>3, OneReplaced

LEMMA RecoverKeeps ==
  ASSUME AccountInv, NEW name \in Rightful \cup Thief \cup Guardian,
         NEW approvals \in Approvals(name), RecoverOwner(name, approvals)
  PROVE  AccountInv'
<1>1. name \in Rightful \cup Thief
  BY DEF RecoverOwner
<1>2. WorldOK'
  BY <1>1 DEF AccountInv, WorldOK, RecoverOwner
<1>3. TransfersOK'
  BY DEF AccountInv, TransfersOK, RecoverOwner
<1>4. MinorityNeverOwns'
  <2>1. CASE name \in Rightful
    BY <2>1 DEF MinorityNeverOwns, RecoverOwner
  <2>2. CASE name \notin Rightful
    <3>1. approvals \in SUBSET corrupt /\ corrupt \in SUBSET Guardian /\ given \in Quorums
      BY <2>2 DEF Approvals, AccountInv, WorldOK
    <3>2. RecoveryQuorum' = RecoveryQuorum /\ corrupt' = corrupt /\ given' = given
      BY DEF RecoveryQuorum, RecoverOwner
    <3>3. ~ (Cardinality(approvals \cap Guardian) < RecoveryQuorum)
      <4>1. Cardinality(approvals \cap Guardian) \in Nat /\ Cardinality(Guardian) \in Nat
        BY <3>1, AccountAssumption, FS_Subset, FS_CardinalityType
      <4>2. RecoveryQuorum \in Int
        BY <3>1, <4>1, AccountAssumption DEF RecoveryQuorum
      <4>3. QED
        BY <4>1, <4>2 DEF RecoverOwner
    <3>4. ~ (Cardinality(corrupt) < RecoveryQuorum)
          /\ ~ (given \in {None, 0} /\ 2 * Cardinality(corrupt) <= Cardinality(Guardian))
      BY <3>1, <3>3, SmallSetsFallShort
    <3>5. QED
      BY <3>2, <3>4 DEF MinorityNeverOwns
  <2>3. QED
    BY <2>1, <2>2
<1>5. QED
  BY <1>2, <1>3, <1>4 DEF AccountInv

LEMMA TickKeeps ==
  ASSUME AccountInv, Tick
  PROVE  AccountInv'
<1>1. now \in Nat /\ now' = now + 1 /\ now' \in 0..MaxTime
  BY AccountAssumption DEF AccountInv, WorldOK, Tick
<1>2. WorldOK' /\ MinorityNeverOwns'
  BY <1>1, OthersUnchanged DEF Tick
<1>3. ASSUME NEW id \in 1..Len(transfers) PROVE Sound(transfers[id], now + 1, corrupt)
  <2>1. transfers[id] \in TransferRecord /\ Sound(transfers[id], now, corrupt)
    BY DEF AccountInv, TransfersOK
  <2>2. Guardian \ corrupt # {} /\ Stolen(transfers[id]) /\ Large(transfers[id])
          /\ ~ transfers[id].canceled => now + 1 < transfers[id].executeAfter
    BY <2>1 DEF Tick, Watched, Pending, Sound
  <2>3. QED
    BY <1>1, <2>1, <2>2 DEF Sound, TransferRecord
<1>4. TransfersOK'
  BY <1>1, <1>3 DEF AccountInv, TransfersOK, Tick
<1>5. QED
  BY <1>2, <1>4 DEF AccountInv

LEMMA AccountStep == AccountInv /\ [Next]_vars => AccountInv'
<1>1. SUFFICES ASSUME AccountInv, [Next]_vars PROVE AccountInv'
  OBVIOUS
<1>2. CASE \E amount \in Amount, by \in Rightful \cup Thief : ScheduleTransfer(amount, by)
  BY <1>1, <1>2, ScheduleKeeps
<1>3. CASE \E id \in 1..Len(transfers), actor \in Rightful \cup Thief \cup Guardian :
             CancelTransfer(id, actor)
  BY <1>1, <1>3, CancelKeeps
<1>4. CASE \E id \in 1..Len(transfers) : ExecuteTransfer(id)
  BY <1>1, <1>4, ExecuteKeeps
<1>5. CASE \E name \in Rightful \cup Thief \cup Guardian :
             \E approvals \in Approvals(name) : RecoverOwner(name, approvals)
  BY <1>1, <1>5, RecoverKeeps
<1>6. CASE Tick
  BY <1>1, <1>6, TickKeeps
<1>7. CASE UNCHANGED vars
  BY <1>1, <1>7 DEF vars, AccountInv, WorldOK, TransfersOK, MinorityNeverOwns, RecoveryQuorum
<1>8. QED
  BY <1>1, <1>2, <1>3, <1>4, <1>5, <1>6, <1>7 DEF Next

LEMMA AccountAlways == Spec => []AccountInv
BY AccountInit, AccountStep, PTL DEF Spec

-----------------------------------------------------------------------------
(* Theorems about the account *)

\* For every timelock and threshold a transfer ends at most once, never before its
\* time, and no guardian ever is the owner (execute_transfer, cancel_transfer,
\* recover_owner).
THEOREM TransfersEndOnce == Spec => []AccountTypeOK
<1>1. AccountInv => AccountTypeOK
  BY DEF AccountInv, WorldOK, TransfersOK, Sound, AccountTypeOK
<1>2. QED
  BY <1>1, AccountAlways, PTL

\* For every set of guardians: one who watches is enough to keep a thief from moving
\* a large amount, whoever else is corrupt and whatever is recovered.
THEOREM OneGuardianSuffices == Spec => []LargeTheftIsStopped
<1>1. AccountInv => LargeTheftIsStopped
  BY DEF AccountInv, TransfersOK, Sound, LargeTheftIsStopped
<1>2. QED
  BY <1>1, AccountAlways, PTL

\* For every number of guardians and every recovery_quorum: fewer than the quorum,
\* and a minority when it is the default, never install a thief.
THEOREM NoMinorityRecovers == Spec => []MinorityNeverOwns
<1>1. AccountInv => MinorityNeverOwns
  BY DEF AccountInv
<1>2. QED
  BY <1>1, AccountAlways, PTL

-----------------------------------------------------------------------------
(* Bonds *)

RegistryInv ==
  /\ positions \in [Pair -> [bond : Nat, slashable : Nat]]
  /\ missed \in [Pair -> Nat]
  /\ BondCoversPenalties

LEMMA StakeKeeps ==
  ASSUME RegistryInv, NEW p \in Pair, NEW b \in Bond, Stake(p, b)
  PROVE  RegistryInv'
<1>1. b \in Nat
  BY RegistryAssumption
<1>2. QED
  BY <1>1 DEF RegistryInv, Stake, BondCoversPenalties

LEMMA SlashKeeps ==
  ASSUME RegistryInv, NEW p \in Pair, NEW n \in Penalty, Slash(p, n)
  PROVE  RegistryInv'
<1>1. n \in Nat
  BY RegistryAssumption
<1> DEFINE rest == IF positions[p].slashable >= n THEN positions[p].slashable - n ELSE 0
<1>2. /\ positions' = [positions EXCEPT ![p].slashable = rest]
      /\ missed' = [missed EXCEPT ![p] = @ + n]
      /\ rest \in Nat
  BY <1>1 DEF RegistryInv, Slash
<1>3. /\ positions' \in [Pair -> [bond : Nat, slashable : Nat]]
      /\ missed' \in [Pair -> Nat]
  BY <1>1, <1>2 DEF RegistryInv
<1>4. ASSUME NEW q \in Pair
      PROVE  positions'[q].slashable =
               IF positions'[q].bond - missed'[q] > 0 THEN positions'[q].bond - missed'[q] ELSE 0
  <2>1. /\ positions[q].bond \in Nat /\ positions[q].slashable \in Nat /\ missed[q] \in Nat
        /\ positions[q].slashable =
             IF positions[q].bond - missed[q] > 0 THEN positions[q].bond - missed[q] ELSE 0
    BY DEF RegistryInv, BondCoversPenalties
  <2>2. CASE q = p
    <3>1. positions'[q].bond = positions[q].bond /\ positions'[q].slashable = rest
          /\ missed'[q] = missed[q] + n
      BY <1>2, <2>2 DEF RegistryInv
    <3>2. QED
      BY <1>1, <2>1, <2>2, <3>1
  <2>3. CASE q # p
    BY <1>2, <2>1, <2>3 DEF RegistryInv
  <2>4. QED
    BY <2>2, <2>3
<1>5. QED
  BY <1>3, <1>4 DEF RegistryInv, BondCoversPenalties

\* For every bond, penalty and number of pairs, what is left of a bond is the bond
\* less the penalties since it was staked last, and not below zero (stake,
\* slash_for_missed_delivery).
THEOREM BondsAreExact == RegistrySpec => []BondCoversPenalties
<1>1. RegistryInit => RegistryInv
  BY DEF RegistryInit, RegistryInv, NoPosition, BondCoversPenalties
<1>2. RegistryInv /\ [RegistryNext]_registry => RegistryInv'
  <2>1. SUFFICES ASSUME RegistryInv, [RegistryNext]_registry PROVE RegistryInv'
    OBVIOUS
  <2>2. CASE \E p \in Pair, b \in Bond : Stake(p, b)
    BY <2>1, <2>2, StakeKeeps
  <2>3. CASE \E p \in Pair, n \in Penalty : Slash(p, n)
    BY <2>1, <2>3, SlashKeeps
  <2>4. CASE UNCHANGED registry
    BY <2>1, <2>4 DEF registry, RegistryInv, BondCoversPenalties
  <2>5. QED
    BY <2>1, <2>2, <2>3, <2>4 DEF RegistryNext
<1>3. RegistryInv => BondCoversPenalties
  BY DEF RegistryInv
<1>4. QED
  BY <1>1, <1>2, <1>3, PTL DEF RegistrySpec

-----------------------------------------------------------------------------
(* The redundant query *)

LEMMA NatIsWellFounded == IsWellFoundedOn({x \in Nat \X Nat : x[1] < x[2]}, Nat)
BY NatLessThanWellFounded DEF OpToRel

LEMMA MinIsLeast ==
  ASSUME NEW S \in SUBSET Nat, S # {}
  PROVE  Min(S) \in S /\ \A m \in S : Min(S) <= m
<1> DEFINE R == {x \in Nat \X Nat : x[1] < x[2]}
<1>1. PICK n \in S : \A m \in S : <<m, n>> \notin R
  BY NatIsWellFounded, WFMin
<1>2. ASSUME NEW m \in S PROVE n <= m
  <2>1. m \in Nat /\ n \in Nat /\ <<m, n>> \in Nat \X Nat
    OBVIOUS
  <2>2. ~ (m < n)
    BY <1>1, <2>1
  <2>3. QED
    BY <2>1, <2>2
<1>3. QED
  BY <1>2 DEF Min

Attest(value)  == Agreeing(answers, value)
Liars          == {n \in DOMAIN answers : answers[n].provider \in LiarName}
OtherProviders == DOMAIN answers \ Liars

\* Who agrees on a value: honest providers on the truth, liars on the rest.
LEMMA WhoAttests ==
  ASSUME answers \in Answers
  PROVE  /\ Len(answers) \in Nat /\ DOMAIN answers = 1..Len(answers)
         /\ Attest(Truth) \subseteq DOMAIN answers /\ OtherProviders \subseteq Attest(Truth)
         /\ Attest("false") \subseteq Liars
         /\ Attest(Truth) \cap Attest("false") = {}
<1>1. PICK k \in 2..MaxProviders : answers \in [1..k -> Response]
  BY DEF Answers
<1>2. k \in Nat /\ answers \in Seq(Response) /\ Len(answers) = k /\ DOMAIN answers = 1..k
  BY <1>1, QueryAssumption
<1>3. ASSUME NEW n \in 1..k
      PROVE  /\ answers[n].provider \notin LiarName => answers[n].value = Truth /\ answers[n].proof = "good"
             /\ answers[n].value = "false" => answers[n].provider \in LiarName
  <2>1. PICK name \in HonestName \cup LiarName : answers[n] \in Responses(name)
    BY <1>1 DEF Response
  <2>2. CASE name \in HonestName
    <3>1. answers[n] = [provider |-> name, value |-> Truth, proof |-> "good"]
      BY <2>1, <2>2 DEF Responses
    <3>2. QED
      BY <3>1 DEF Truth
  <2>3. CASE name \notin HonestName
    <3>1. answers[n].provider = name
      BY <2>1, <2>3 DEF Responses
    <3>2. QED
      BY <2>1, <2>3, <3>1
  <2>4. QED
    BY <2>2, <2>3
<1>4. OtherProviders \subseteq Attest(Truth)
  BY <1>2, <1>3 DEF OtherProviders, Liars, Attest, Agreeing, Classify
<1>5. Attest("false") \subseteq Liars
  BY <1>2, <1>3 DEF Liars, Attest, Agreeing
<1>6. Attest(Truth) \cap Attest("false") = {}
  BY DEF Attest, Agreeing, Truth
<1>7. QED
  BY <1>2, <1>4, <1>5, <1>6 DEF Attest, Agreeing

\* The value that wins has the most providers behind it, and some.
LEMMA WinnerLeads ==
  ASSUME answers \in Answers, NEW v \in Values, Attest(v) # {}
  PROVE  /\ Winner(answers) \in Values
         /\ Attest(Winner(answers)) # {}
         /\ \A w \in Values : Cardinality(Attest(w)) <= Cardinality(Attest(Winner(answers)))
<1> DEFINE T == Attest(Truth)
           F == Attest("false")
           Leads(x) == /\ Cardinality(Attest(x)) > 0
                       /\ \A w \in Values \ {x} :
                            \/ Cardinality(Attest(w)) < Cardinality(Attest(x))
                            \/ /\ Cardinality(Attest(w)) = Cardinality(Attest(x))
                               /\ Min(Attest(w)) > Min(Attest(x))
<1>1. Values = {Truth, "false"} /\ Truth # "false"
  BY DEF Values, Truth
<1>2. /\ T \subseteq DOMAIN answers /\ F \subseteq DOMAIN answers /\ T \cap F = {}
      /\ IsFiniteSet(DOMAIN answers) /\ DOMAIN answers \subseteq Nat
  <2>1. IsFiniteSet(1..Len(answers)) /\ 1..Len(answers) \subseteq Nat
    BY WhoAttests, FS_Interval
  <2>2. QED
    BY <2>1, WhoAttests DEF Liars
<1>3. /\ IsFiniteSet(T) /\ IsFiniteSet(F)
      /\ Cardinality(T) \in Nat /\ Cardinality(F) \in Nat
      /\ Cardinality(T) = 0 <=> T = {}
      /\ Cardinality(F) = 0 <=> F = {}
  BY <1>2, FS_Subset, FS_CardinalityType, FS_EmptySet
<1>4. T # {} /\ F # {} => Min(T) \in Nat /\ Min(F) \in Nat /\ Min(T) # Min(F)
  <2>1. T \in SUBSET Nat /\ F \in SUBSET Nat
    BY <1>2
  <2> HIDE DEF T, F
  <2>2. T # {} => Min(T) \in T
    BY <2>1, MinIsLeast
  <2>3. F # {} => Min(F) \in F
    BY <2>1, MinIsLeast
  <2>4. QED
    BY <1>2, <2>1, <2>2, <2>3
<1>5. T # {} \/ F # {}
  BY <1>1
<1>6. \E x \in Values : Leads(x)
  <2>1. Leads(Truth) <=> /\ Cardinality(T) > 0
                         /\ \/ Cardinality(F) < Cardinality(T)
                            \/ Cardinality(F) = Cardinality(T) /\ Min(F) > Min(T)
    BY <1>1
  <2>2. Leads("false") <=> /\ Cardinality(F) > 0
                           /\ \/ Cardinality(T) < Cardinality(F)
                              \/ Cardinality(T) = Cardinality(F) /\ Min(T) > Min(F)
    BY <1>1
  <2> HIDE DEF Leads, T, F
  <2>3. Leads(Truth) \/ Leads("false")
    BY <1>3, <1>4, <1>5, <2>1, <2>2
  <2>4. QED
    BY <1>1, <2>3
<1>7. Winner(answers) \in Values /\ Leads(Winner(answers))
  <2>1. Winner(answers) = CHOOSE x \in Values : Leads(x)
    BY DEF Winner, Attest
  <2> HIDE DEF Leads
  <2>2. QED
    BY <1>6, <2>1
<1>8. CASE Winner(answers) = Truth
  BY <1>1, <1>3, <1>7, <1>8
<1>9. CASE Winner(answers) = "false"
  BY <1>1, <1>3, <1>7, <1>9
<1>10. QED
  BY <1>1, <1>7, <1>8, <1>9

\* For every list of providers and every min_agreement: a wrong balance takes as many
\* liars, and no fewer liars than honest providers; enough honest providers in the
\* majority get the true one through unless the query raises, which it does exactly
\* when the answer of some liar raises (classify, query_verified_value).
THEOREM WrongBalanceTakesLiars == answers \in Answers \cup {<<>>} => WrongBalanceTakesQuorum
<1>1. SUFFICES ASSUME answers \in Answers, NEW agreement \in 2..MaxAgreement
               PROVE  LET got    == QueryVerifiedValue(answers, agreement)
                          liars  == Cardinality(Liars)
                          honest == Len(answers) - liars
                      IN  /\ got \notin {Truth, "error", "raised"} => liars >= agreement /\ liars >= honest
                          /\ honest >= agreement /\ honest > liars => got \in {Truth, "raised"}
                          /\ got = "raised" <=> Raisers(answers) \cap Liars # {}
  BY DEF WrongBalanceTakesQuorum, QueryBalance, Liars
<1> DEFINE got    == QueryVerifiedValue(answers, agreement)
           liars  == Cardinality(Liars)
           honest == Len(answers) - liars
           T      == Attest(Truth)
           F      == Attest("false")
<1> SUFFICES /\ got \notin {Truth, "error", "raised"} => liars >= agreement /\ liars >= honest
             /\ honest >= agreement /\ honest > liars => got \in {Truth, "raised"}
             /\ got = "raised" <=> Raisers(answers) \cap Liars # {}
  OBVIOUS
<1>2. agreement \in Nat \ {0}
  BY QueryAssumption
<1>3. IsFiniteSet(DOMAIN answers) /\ Cardinality(DOMAIN answers) = Len(answers) /\ Len(answers) \in Nat
  <2>1. Len(answers) \in Nat /\ DOMAIN answers = 1..Len(answers)
    BY <1>1, WhoAttests
  <2>2. /\ IsFiniteSet(1..Len(answers))
        /\ Cardinality(1..Len(answers)) = IF 1 > Len(answers) THEN 0 ELSE Len(answers) - 1 + 1
    <3>1. 1 \in Int /\ Len(answers) \in Int
      BY <2>1
    <3>2. QED
      BY <3>1, FS_Interval
  <2>3. QED
    BY <2>1, <2>2
<1>4. /\ liars \in Nat /\ Cardinality(OtherProviders) = honest
      /\ IsFiniteSet(Liars) /\ IsFiniteSet(T)
  <2>1. Liars \subseteq DOMAIN answers /\ DOMAIN answers \cap Liars = Liars
    BY DEF Liars
  <2>2. IsFiniteSet(Liars) /\ liars \in Nat
    BY <1>3, <2>1, FS_Subset, FS_CardinalityType
  <2>3. Cardinality(OtherProviders) = Cardinality(DOMAIN answers) - Cardinality(DOMAIN answers \cap Liars)
    BY <1>3, FS_Difference DEF OtherProviders
  <2>4. IsFiniteSet(T)
    BY <1>1, <1>3, WhoAttests, FS_Subset
  <2>5. QED
    BY <1>3, <2>1, <2>2, <2>3, <2>4
<1>5. Cardinality(T) \in Nat /\ Cardinality(T) >= honest
  BY <1>1, <1>4, WhoAttests, FS_Subset, FS_CardinalityType
<1>6. Cardinality(F) \in Nat /\ Cardinality(F) <= liars
  BY <1>1, <1>4, WhoAttests, FS_Subset, FS_CardinalityType
<1>7. Values = {Truth, "false"} /\ Truth # "false" /\ Truth \notin {"error", "raised"}
  BY DEF Values, Truth
<1>8. Raisers(answers) \subseteq Liars
  BY <1>1, WhoAttests DEF Raisers, OtherProviders, Attest, Agreeing
<1>9. CASE Raisers(answers) # {}
  <2>1. got = "raised"
    BY <1>9 DEF QueryVerifiedValue
  <2>2. QED
    BY <1>8, <1>9, <2>1
<1>10. CASE Raisers(answers) = {} /\ T = {} /\ F = {}
  <2>1. got = "error"
    BY <1>7, <1>10 DEF QueryVerifiedValue, Attest
  <2>2. Cardinality(T) = 0
    BY <1>10, FS_EmptySet
  <2> HIDE DEF T, F, honest, liars
  <2>3. ~ (honest >= agreement)
    BY <1>2, <1>3, <1>4, <1>5, <2>2 DEF honest
  <2>4. QED
    BY <1>10, <2>1, <2>3
<1>11. CASE Raisers(answers) = {} /\ ~ (T = {} /\ F = {})
  <2> DEFINE w == Winner(answers)
  <2>1. /\ w \in Values
        /\ Cardinality(T) <= Cardinality(Attest(w)) /\ Cardinality(F) <= Cardinality(Attest(w))
    <3>1. PICK v \in Values : Attest(v) # {}
      BY <1>7, <1>11
    <3>2. QED
      BY <1>1, <1>7, <3>1, WinnerLeads
  <2>2. got = IF Cardinality(Attest(w)) < agreement THEN "error" ELSE w
    BY <1>7, <1>11 DEF QueryVerifiedValue, Attest
  <2>3. honest \in Int /\ liars \in Nat
    BY <1>3, <1>4
  <2>4. got # "raised" /\ Raisers(answers) \cap Liars = {}
    BY <1>7, <1>11, <2>1, <2>2
  <2> HIDE DEF T, F, got, w, honest, liars
  <2>5. CASE w = Truth
    <3>1. Cardinality(Attest(w)) = Cardinality(T)
      BY <2>5 DEF T
    <3>2. got \in {Truth, "error"}
      BY <2>2, <2>5
    <3>3. honest >= agreement => got = Truth
      BY <1>2, <1>5, <2>2, <2>3, <2>5, <3>1
    <3>4. QED
      BY <2>4, <3>2, <3>3
  <2>6. CASE w = "false"
    <3>1. Cardinality(Attest(w)) = Cardinality(F)
      BY <2>6 DEF F
    <3>2. honest <= liars
      BY <1>5, <1>6, <2>1, <2>3, <3>1
    <3>3. got # "error" => liars >= agreement
      BY <1>2, <1>6, <2>2, <2>3, <3>1
    <3>4. QED
      BY <2>3, <2>4, <3>2, <3>3
  <2>7. QED
    BY <1>7, <1>11, <2>1, <2>5, <2>6
<1>12. QED
  BY <1>10, <1>11, <1>9
=============================================================================
