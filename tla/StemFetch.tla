----------------------------- MODULE StemFetch -----------------------------
(***************************************************************************)
(* Redundant stem retrieval of pbt/stem_subscription.py: a wallet asks a   *)
(* set of providers for witness packets, accepts what enough of them agree *)
(* on, and otherwise books who failed and asks again, more widely          *)
(* (simulate_epoch_fetch_with_fallback, StemFetchPolicy,                   *)
(* ProviderReliabilityTracker).  One tracker serves all fetches.           *)
(*                                                                         *)
(* Packets are told apart by what the checks on them see.  Cover buckets   *)
(* and provider redundancy always grow by the same amount: one counter.    *)
(***************************************************************************)
EXTENDS Integers, Sequences, FiniteSets, SequencesExt, FiniteSetsExt

CONSTANTS
  Provider,         \* available_provider_ids
  Honest,           \* those that always answer with the one good packet
  Answer,           \* what the others may send back: sequences of packets
  Target,           \* the key the wallet wants
  Required,         \* required_provider_matches
  Redundancy,       \* provider_redundancy of the base policy
  MaxAttempts,      \* max_attempts
  MinRate,          \* tuning_min_success_rate: <<numerator, denominator>>
  StreakThreshold,  \* tuning_failure_streak_threshold
  MaxFetches        \* bound on the fetches of one wallet

ASSUME FetchAssumption ==
  /\ Honest \subseteq Provider /\ IsFiniteSet(Provider)
  /\ Required \in 1..Cardinality(Provider)
  /\ Redundancy \in Nat
  /\ MaxAttempts \in Nat \ {0}
  /\ StreakThreshold \in Nat \ {0}
  /\ MaxFetches \in Nat

\* What is told apart of a packet.
ASSUME AnswerAssumption ==
  \A s \in Answer : /\ s \in Seq(ToSet(s))
                     /\ \A k \in ToSet(s) : /\ {k.root, k.fresh} \subseteq BOOLEAN
                                            /\ k.proof \in {"verifies", "fails", "raises"}

VARIABLES
  phase,     \* "idle" before the first fetch, "trying", "accepted", "failed" or "raised"
  fetches,   \* fetches started so far
  adaptive,  \* adaptive_tuning of this fetch
  \* the locals of a fetch, empty when none runs
  plan,      \* provider_ids of the plan
  attempt,   \* attempts made
  extra,     \* what tuning has added to the base policy
  stats,     \* _stats of the tracker
  agreed,    \* history: the keys a quorum agreed on
  raisers    \* history: the provider whose packet made the last fetch raise

vars == <<phase, fetches, adaptive, plan, attempt, extra, stats, agreed, raisers>>

\* A packet: is its block root the expected one, is it fresh, and what does
\* verify_witness_packet do with it?  It raises on a key of fewer than two bytes,
\* which no decoder refuses.
Packet(key, root, fresh, proof) == [key |-> key, root |-> root, fresh |-> fresh, proof |-> proof]
Good == Packet(Target, TRUE, TRUE, "verifies")

\* Whatever packet may be sent, and what is counted of one provider.
Sent  == UNION {ToSet(s) : s \in Answer \cup {<<Good>>}}
Tally == [attempts : Nat, successes : Nat, proof : Nat, stale : Nat, other : Nat, streak : Nat]

Unused == [attempts |-> 0, successes |-> 0, proof |-> 0, stale |-> 0, other |-> 0, streak |-> 0]

-----------------------------------------------------------------------------
(* The plan *)

\* select_redundant_providers: so many of those available, all if there are fewer.
\* The order is a hash of provider, seed and epoch: any, but one for the whole
\* fetch, so a wider plan contains the narrower one.
Selections(narrower, more) ==
  LET count == Required + Redundancy + more
      all   == Cardinality(Provider)
  IN  {P \in kSubset(IF count < all THEN count ELSE all, Provider) : narrower \subseteq P}

Responses(P) ==
  {r \in [P -> Answer \cup {<<Good>>}] : \A p \in P \cap Honest : r[p] = <<Good>>}

-----------------------------------------------------------------------------
(* evaluate_response *)

FreshPackets(r) ==
  UNION {{<<p, n>> : n \in {m \in 1..Len(r[p]) : r[p][m].fresh}} : p \in DOMAIN r}

\* Only a packet with the expected root that is fresh is verified at all.
Raises(k)  == k.root /\ k.fresh /\ k.proof = "raises"
Raising(r) == {p \in DOMAIN r : \E k \in ToSet(r[p]) : Raises(k)}

\* The packets of one provider that come before any of its own that raises.
Before(r, p) == {n \in 1..Len(r[p]) : \A m \in 1..n : ~ Raises(r[p][m])}

\* Mutant: agreement counts packets instead of distinct providers.
AgreeingPackets(r, key) ==
  {x \in FreshPackets(r) :
     LET k == r[x[1]][x[2]] IN k.key = key /\ k.root /\ k.proof = "verifies"}

\* verify_redundant_packet_set: the providers whose valid packets agree on a key.
\* (Two packets for one key that verify under one root state one value.)  The
\* answers arrive in any order, each in its own: those of a quorum may come
\* before every packet that raises, and then end the check.
Agreeing(r, key) ==
  {p \in DOMAIN r : \E n \in Before(r, p) :
     r[p][n].fresh /\ r[p][n].key = key /\ r[p][n].root /\ r[p][n].proof = "verifies"}

Keys(r)   == {k.key : k \in UNION {ToSet(r[p]) : p \in DOMAIN r}}
Quorum(r) == {key \in Keys(r) : Cardinality(Agreeing(r, key)) >= Required}

Accepts(r) == Cardinality(FreshPackets(r)) >= Required /\ Quorum(r) # {}

\* Or the packet of p that raises comes before any quorum.
RaisesFirst(r, p) ==
  p \in Raising(r) /\ \A key \in Keys(r) : Cardinality(Agreeing(r, key) \cap {p}) < Required

-----------------------------------------------------------------------------
(* The tracker *)

Succeeded(t) == [t EXCEPT !.attempts = @ + 1, !.successes = @ + 1, !.streak = 0]

\* Mutant: a failure is not an attempt.
FailedUncounted(t, reason) == [t EXCEPT ![reason] = @ + 1, !.streak = @ + 1]

Failed(t, reason) == [t EXCEPT !.attempts = @ + 1, ![reason] = @ + 1, !.streak = @ + 1]

\* record_result for one packet of a response that was not accepted.  (One that
\* raises is not booked.)
Booked(t, k) ==
  CASE ~ k.root                                      -> Failed(t, "other")
    [] k.root /\ ~ k.fresh                           -> Failed(t, "stale")
    [] k.root /\ k.fresh /\ k.proof # "verifies"     -> Failed(t, "proof")
    [] k.root /\ k.fresh /\ k.proof = "verifies"     -> Succeeded(t)

\* The tally of a provider after the first so many packets of its answer.
BookedFirst[x \in (Tally \X Seq(Sent)) \X Nat] ==
  IF x[2] = 0 THEN x[1][1]
  ELSE Booked(BookedFirst[<<x[1], x[2] - 1>>], x[1][2][x[2]])

BookedAll(t, s) == BookedFirst[<<<<t, s>>, Len(s)>>]

\* Mutant: every provider of the plan counts as missing.
RecordedMissing(tr, r) ==
  [p \in Provider |->
     IF p \notin DOMAIN r THEN tr[p]
     ELSE Failed(BookedAll(tr[p], r[p]), "other")]

Recorded(tr, r) ==
  [p \in Provider |->
     IF p \notin DOMAIN r THEN tr[p]
     ELSE IF r[p] = <<>> THEN Failed(tr[p], "other")
     ELSE BookedAll(tr[p], r[p])]

\* How many packets of each answer are booked when the loop comes to one of p that
\* raises.  Nobody is booked as missing then.
Booking(r, p) ==
  {m \in [DOMAIN r -> {0} \cup UNION {Before(r, q) : q \in DOMAIN r}] :
     /\ \A q \in DOMAIN r : m[q] \in {0} \cup Before(r, q)
     /\ m[p] + 1 \in 1..Len(r[p]) /\ Raises(r[p][m[p] + 1])}

RecordedPartly(tr, r, m) ==
  [q \in Provider |-> IF q \notin DOMAIN r THEN tr[q] ELSE BookedFirst[<<<<tr[q], r[q]>>, m[q]>>]]

-----------------------------------------------------------------------------
(* tune_policy_from_reliability *)

\* Is the mean success rate of the providers below MinRate?
Unreliable(tr, P) ==
  LET of(p)  == IF tr[p].attempts = 0 THEN 1 ELSE tr[p].attempts
      ok(p)  == IF tr[p].attempts = 0 THEN 1 ELSE tr[p].successes
      common == MapThenFoldSet(LAMBDA x, y : x * y, 1, of, LAMBDA S : CHOOSE x \in S : TRUE, P)
      total  == MapThenSumSet(LAMBDA p : ok(p) * (common \div of(p)), P)
  IN  MinRate[2] * total < MinRate[1] * common * Cardinality(P)

Streak(tr, P) == \E p \in P : tr[p].streak >= StreakThreshold

\* Mutant: the widened policy is dropped.
WidenedDropped(tr, P, x) == x

Widened(tr, P, x) ==
  IF adaptive
  THEN x + (IF Unreliable(tr, P) THEN 1 ELSE 0) + (IF Streak(tr, P) THEN 1 ELSE 0)
  ELSE x + 1

-----------------------------------------------------------------------------
(* Behaviours *)

Init ==
  /\ phase = "idle"
  /\ fetches = 0
  /\ adaptive = FALSE
  /\ plan = {}
  /\ attempt = 0
  /\ extra = 0
  /\ stats = [p \in Provider |-> Unused]
  /\ agreed = {}
  /\ raisers = {}

Start ==
  /\ phase # "trying"
  /\ fetches < MaxFetches
  /\ phase' = "trying"
  /\ fetches' = fetches + 1
  /\ adaptive' \in BOOLEAN
  /\ plan' \in Selections({}, 0)
  /\ agreed' = {}
  /\ raisers' = {}
  /\ UNCHANGED <<attempt, extra, stats>>

Return(result) == phase' = result /\ plan' = {} /\ attempt' = 0 /\ extra' = 0

\* An attempt whose response r reaches the quorum: nothing is booked.
Accept(r) ==
  /\ phase = "trying"
  /\ Accepts(r)
  /\ Return("accepted")
  /\ agreed' = Quorum(r)
  /\ UNCHANGED <<fetches, adaptive, stats, raisers>>

\* Nothing catches what verify_witness_packet raises: the fetch ends without an
\* answer, with nothing booked if it was the check that raised, and otherwise with
\* what the booking of too few fresh packets had come to.
Raise(r, p) ==
  /\ phase = "trying"
  /\ RaisesFirst(r, p)
  /\ \/ Cardinality(FreshPackets(r)) >= Required /\ UNCHANGED stats
     \/ /\ Cardinality(FreshPackets(r)) < Required
        /\ \E m \in Booking(r, p) : stats' = RecordedPartly(stats, r, m)
  /\ Return("raised")
  /\ raisers' = {p}
  /\ UNCHANGED <<fetches, adaptive, agreed>>

\* Any other attempt: book the answers, then widen the plan.
Retry(r) ==
  /\ phase = "trying"
  /\ ~ Accepts(r) /\ Raising(r) = {}
  /\ attempt + 1 < MaxAttempts
  /\ attempt' = attempt + 1
  /\ stats' = Recorded(stats, r)
  /\ extra' = Widened(stats', plan, extra)
  /\ plan' \in Selections(plan, extra')
  /\ UNCHANGED <<phase, fetches, adaptive, agreed, raisers>>

\* The last attempt gives up.
GiveUp(r) ==
  /\ phase = "trying"
  /\ ~ Accepts(r) /\ Raising(r) = {}
  /\ attempt + 1 = MaxAttempts
  /\ stats' = Recorded(stats, r)
  /\ Return("failed")
  /\ UNCHANGED <<fetches, adaptive, agreed, raisers>>

Attempt ==
  \E r \in Responses(plan) :
    Accept(r) \/ Retry(r) \/ GiveUp(r) \/ \E p \in plan : Raise(r, p)

Next == Start \/ Attempt

Spec == Init /\ [][Next]_vars

\* Whoever is asked, fetch_fn returns, with whatever came.
FetchFairness == WF_vars(Attempt)

-----------------------------------------------------------------------------
(* Properties *)

\* Counters add up and a streak never exceeds the failures it is part of.
FetchTypeOK ==
  /\ phase \in {"idle", "trying", "accepted", "failed", "raised"}
  /\ fetches \in 0..MaxFetches
  /\ attempt \in 0..MaxAttempts
  /\ extra \in 0..(2 * MaxAttempts)
  /\ raisers \subseteq Provider
  /\ agreed \subseteq {k.key : k \in UNION {ToSet(s) : s \in Answer \cup {<<Good>>}}}
  /\ \A p \in Provider :
       LET t == stats[p] IN
         /\ t.attempts = t.successes + t.proof + t.stale + t.other
         /\ t.streak <= t.proof + t.stale + t.other

\* Fewer than Required faulty providers cannot make the wallet accept: whatever
\* they send, however many packets each, a quorum is on the key it asked for.
AcceptedIsAttested ==
  Cardinality(Provider \ Honest) < Required =>
    (phase = "accepted" => agreed = {Target})

\* A provider that answers every query it gets with the good packet is never
\* booked a failure, whatever the others do and however the fetch ends.
HonestIsNeverBlamed ==
  \A p \in Honest : stats[p].attempts = stats[p].successes

\* With Required honest providers among those available and attempts enough to
\* reach everyone, a fetch does not fail, whatever the tracker holds from earlier
\* ones: it is accepted, or a faulty provider's packet makes it raise, which one
\* can do in any attempt.  Adaptive tuning promises less: a faulty provider that
\* is credited with successes (for valid packets nobody asked for) can keep the
\* plan from growing, and a StreakThreshold that leaves too few attempts to reach
\* everyone can too.
HonestQuorumWins ==
  LET reach  == Required + Redundancy + MaxAttempts - 1
      enough == Cardinality(Honest) >= Required /\ reach >= Cardinality(Provider)
      fooled == adaptive /\ \E p \in Provider \ Honest : stats[p].successes > 0
  IN  /\ enough /\ phase = "failed" => fooled
      /\ phase = "raised" => raisers # {} /\ raisers \cap Honest = {}

\* Every fetch ends; one that widens its plan by itself, and reaches everyone in
\* its attempts, ends with the answer if enough providers are honest, unless a
\* packet makes it raise.
FetchEnds ==
  LET enough == /\ Cardinality(Honest) >= Required
                /\ Required + Redundancy + MaxAttempts - 1 >= Cardinality(Provider)
  IN  /\ phase = "trying" ~> phase # "trying"
      /\ enough /\ phase = "trying" /\ ~ adaptive ~> phase = "accepted" \/ raisers # {}
=============================================================================
