---------------------------- MODULE SmartAccount ----------------------------
(***************************************************************************)
(* The account of pbt/wallet.py (SmartAccount): transfers of a threshold   *)
(* and more wait out a timelock, during which the owner and every guardian *)
(* can cancel them, and a quorum of guardians can put a new owner in.      *)
(*                                                                         *)
(* The object checks no caller but the one of cancel_transfer, so anybody  *)
(* schedules and executes, and recovery takes whatever approvals it is     *)
(* given.  Who approves of what is the world around the object: an honest  *)
(* guardian approves of a rightful owner only, a corrupt one of anybody.   *)
(***************************************************************************)
EXTENDS Integers, Sequences, FiniteSets

CONSTANTS
  Guardian,      \* the guardians of the account
  Rightful,      \* names that may own the account
  Thief,         \* names that may not
  None,          \* recovery_quorum is not given
  Timelock,      \* timelock_seconds
  Threshold,     \* large_transfer_threshold
  Amount,        \* amounts transferred
  Quorums,       \* values given for recovery_quorum
  MaxTransfers,  \* bound on the transfers of one account
  MaxTime        \* bound on the clock

ASSUME AccountAssumption ==
  /\ Guardian # {} /\ IsFiniteSet(Guardian)
  /\ Rightful \cap (Guardian \cup Thief) = {} /\ Thief \cap Guardian = {}
  /\ Timelock \in Nat \ {0} /\ Threshold \in Nat \ {0}
  /\ Amount \subseteq Nat \ {0}
  /\ MaxTransfers \in Nat /\ MaxTime \in Nat
  /\ None \notin Int /\ Quorums \subseteq Int \cup {None}

VARIABLES
  corrupt,    \* the guardians a thief has talked round
  given,      \* the recovery_quorum the account was made with
  owner,
  transfers,  \* pending_transfers, by transfer_id
  now         \* the clock the callers read

vars == <<corrupt, given, owner, transfers, now>>

\* Mutant: half of the guardians, rounded down.
HalfQuorum == IF given \notin {None, 0} THEN given
              ELSE LET half == Cardinality(Guardian) \div 2 IN IF half < 1 THEN 1 ELSE half

\* recovery_quorum or a majority: 0 counts as not given.
RecoveryQuorum == IF given \notin {None, 0} THEN given
                  ELSE Cardinality(Guardian) \div 2 + 1

Transfer(amount, after, by) ==
  [amount |-> amount, createdAt |-> now, executeAfter |-> after,
   canceled |-> FALSE, executed |-> FALSE, executedAt |-> 0, by |-> by]

-----------------------------------------------------------------------------

Init ==
  /\ corrupt \in SUBSET Guardian
  /\ given \in Quorums
  /\ owner \in Rightful
  /\ transfers = <<>>
  /\ now = 0

\* Mutant: only what exceeds the threshold is large.
DelayAbove(amount) == IF amount > Threshold THEN Timelock ELSE 0

Delay(amount) == IF amount >= Threshold THEN Timelock ELSE 0

\* "by" is a history: schedule_transfer is not told who calls it.
ScheduleTransfer(amount, by) ==
  /\ Len(transfers) < MaxTransfers
  /\ transfers' = Append(transfers, Transfer(amount, now + Delay(amount), by))
  /\ UNCHANGED <<corrupt, given, owner, now>>

CancelTransfer(id, actor) ==
  /\ actor = owner \/ actor \in Guardian
  /\ ~ transfers[id].executed
  /\ transfers' = [transfers EXCEPT ![id].canceled = TRUE]
  /\ UNCHANGED <<corrupt, given, owner, now>>

\* Mutant: a canceled transfer is executed once its time has come.
ExecuteDue(id) ==
  /\ ~ transfers[id].executed
  /\ now >= transfers[id].executeAfter
  /\ transfers' = [transfers EXCEPT ![id].executed = TRUE, ![id].executedAt = now]
  /\ UNCHANGED <<corrupt, given, owner, now>>

\* "executedAt" is a history.
ExecuteTransfer(id) ==
  /\ ~ transfers[id].canceled
  /\ ~ transfers[id].executed
  /\ now >= transfers[id].executeAfter
  /\ transfers' = [transfers EXCEPT ![id].executed = TRUE, ![id].executedAt = now]
  /\ UNCHANGED <<corrupt, given, owner, now>>

\* Transfers that are pending stay so.
RecoverOwner(newOwner, approvals) ==
  /\ Cardinality(approvals \cap Guardian) >= RecoveryQuorum
  /\ newOwner \notin Guardian
  /\ owner' = newOwner
  /\ UNCHANGED <<corrupt, given, transfers, now>>

-----------------------------------------------------------------------------
(* The world around the account *)

\* The approvals that can be had for a name.
Approvals(name) == SUBSET (IF name \in Rightful THEN Guardian ELSE corrupt)

Pending(t) == ~ t.canceled /\ ~ t.executed
Stolen(t)  == t.by \in Thief
Large(t)   == t.amount >= Threshold

\* An honest guardian looks at the account once per unit of time, and cancels
\* what a thief has scheduled before it falls due.
Watched == \A id \in 1..Len(transfers) :
  LET t == transfers[id] IN Pending(t) /\ Stolen(t) /\ Large(t) => now + 1 < t.executeAfter

Tick ==
  /\ now < MaxTime
  /\ Guardian \ corrupt # {} => Watched
  /\ now' = now + 1
  /\ UNCHANGED <<corrupt, given, owner, transfers>>

Next ==
  \/ \E amount \in Amount, by \in Rightful \cup Thief : ScheduleTransfer(amount, by)
  \/ \E id \in 1..Len(transfers) :
       \/ \E actor \in Rightful \cup Thief \cup Guardian : CancelTransfer(id, actor)
       \/ ExecuteTransfer(id)
  \/ \E name \in Rightful \cup Thief \cup Guardian :
       \E approvals \in Approvals(name) : RecoverOwner(name, approvals)
  \/ Tick

Spec == Init /\ [][Next]_vars

-----------------------------------------------------------------------------
(* Properties *)

\* The owner is never a guardian, and a transfer ends at most once: it is never
\* both canceled and executed, nor executed before its time.
AccountTypeOK ==
  /\ corrupt \subseteq Guardian /\ given \in Quorums /\ now \in 0..MaxTime
  /\ owner \in Rightful \cup Thief
  /\ Len(transfers) <= MaxTransfers
  /\ \A id \in 1..Len(transfers) :
       LET t == transfers[id] IN
         /\ ~ (t.canceled /\ t.executed)
         /\ t.executed => t.executedAt \in t.executeAfter..now

\* With one guardian who watches, a thief who can call everything, and who may
\* even be put in as owner by corrupt guardians, moves no large amount: between
\* the schedule and the first execution there is always time to cancel, and
\* nothing revives what was canceled.
LargeTheftIsStopped ==
  Guardian \ corrupt # {} =>
    \A id \in 1..Len(transfers) :
      LET t == transfers[id] IN ~ (Stolen(t) /\ Large(t) /\ t.executed)

\* Whatever sequence of recoveries is tried: corrupt guardians fewer than the
\* quorum never put a thief in, and when the quorum was left to its default (or
\* given as 0) no minority does.
MinorityNeverOwns ==
  LET minority == 2 * Cardinality(corrupt) <= Cardinality(Guardian)
      few      == Cardinality(corrupt) < RecoveryQuorum
  IN  few \/ (given \in {None, 0} /\ minority) => owner \in Rightful
=============================================================================
