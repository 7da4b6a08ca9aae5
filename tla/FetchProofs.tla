----------------------------- MODULE FetchProofs -----------------------------
(***************************************************************************)
(* Theorems about StemFetch for every set of providers, every quorum and   *)
(* whatever the faulty ones may answer.                                    *)
(***************************************************************************)
EXTENDS StemFetch, FiniteSetTheorems, SequenceTheorems, WellFoundedInduction, TLAPS

\* Only those are asked that there are, and the property itself.
FetchInv == plan \subseteq Provider /\ AcceptedIsAttested

LEMMA PlansAreProviders ==
  ASSUME NEW P, NEW more, NEW Q \in Selections(P, more)
  PROVE  Q \subseteq Provider
BY DEF Selections, kSubset

\* Too many to be all faulty: one honest provider is among those who agree.
LEMMA OneIsHonest ==
  ASSUME NEW S \in SUBSET Provider, Cardinality(S) >= Required,
         Cardinality(Provider \ Honest) < Required
  PROVE  \E p \in S : p \in Honest
<1>1. SUFFICES ASSUME S \subseteq Provider \ Honest PROVE FALSE
  OBVIOUS
<1>2. IsFiniteSet(Provider \ Honest) /\ Cardinality(Provider \ Honest) \in Nat
  BY FetchAssumption, FS_Subset, FS_CardinalityType
<1>3. Cardinality(S) <= Cardinality(Provider \ Honest) /\ Cardinality(S) \in Nat
  BY <1>1, <1>2, FS_Subset, FS_CardinalityType
<1>4. Required \in Int
  BY FetchAssumption, FS_CardinalityType
<1>5. QED
  BY <1>2, <1>3, <1>4

\* An honest provider agrees on nothing but the key that was asked for.
LEMMA HonestAgreeOnTarget ==
  ASSUME NEW P \in SUBSET Provider, NEW r \in Responses(P), NEW key,
         NEW p \in Agreeing(r, key), p \in Honest
  PROVE  key = Target
<1>1. p \in P /\ r[p] = <<Good>>
  BY DEF Agreeing, Responses
<1>2. PICK n \in 1..Len(r[p]) : r[p][n].key = key
  BY DEF Agreeing, Before
<1>3. r[p][n] = Good
  BY <1>1, <1>2
<1>4. QED
  BY <1>2, <1>3 DEF Good, Packet

LEMMA QuorumIsOnTarget ==
  ASSUME FetchInv, NEW r \in Responses(plan), Quorum(r) # {},
         Cardinality(Provider \ Honest) < Required
  PROVE  Quorum(r) = {Target}
<1>1. SUFFICES ASSUME NEW key \in Quorum(r) PROVE key = Target
  OBVIOUS
<1>2. Agreeing(r, key) \subseteq Provider
  BY DEF Agreeing, Responses, FetchInv
<1>3. Cardinality(Agreeing(r, key)) >= Required
  BY DEF Quorum
<1>4. PICK p \in Agreeing(r, key) : p \in Honest
  BY <1>2, <1>3, OneIsHonest
<1>5. QED
  BY <1>4, HonestAgreeOnTarget DEF FetchInv

\* For every number of providers and every quorum greater than the number of the
\* faulty: whatever those answer, in any number of packets, attempts and fetches,
\* a fetch accepts only what an honest provider attests for the key that was
\* asked for (evaluate_response, verify_redundant_packet_set).
THEOREM QuorumAttests == Spec => []AcceptedIsAttested
<1>1. Init => FetchInv
  BY DEF Init, FetchInv, AcceptedIsAttested
<1>2. FetchInv /\ [Next]_vars => FetchInv'
  <2>1. SUFFICES ASSUME FetchInv, [Next]_vars PROVE FetchInv'
    OBVIOUS
  <2>2. CASE Start
    <3>1. plan' \subseteq Provider /\ phase' = "trying"
      BY <2>2, PlansAreProviders DEF Start
    <3>2. QED
      BY <3>1 DEF FetchInv, AcceptedIsAttested
  <2>3. ASSUME NEW r \in Responses(plan), Accept(r) PROVE FetchInv'
    <3>1. plan' = {} /\ agreed' = Quorum(r) /\ Quorum(r) # {}
      BY <2>3 DEF Accept, Return, Accepts
    <3>2. Cardinality(Provider \ Honest) < Required => agreed' = {Target}
      BY <2>1, <3>1, QuorumIsOnTarget
    <3>3. QED
      BY <3>1, <3>2 DEF FetchInv, AcceptedIsAttested
  <2>4. ASSUME NEW r \in Responses(plan), Retry(r) PROVE FetchInv'
    <3>1. plan' \subseteq Provider
      BY <2>4, PlansAreProviders DEF Retry
    <3>2. phase' = "trying"
      BY <2>4 DEF Retry
    <3>3. QED
      BY <3>1, <3>2 DEF FetchInv, AcceptedIsAttested
  <2>5. ASSUME NEW r \in Responses(plan), GiveUp(r) PROVE FetchInv'
    BY <2>5 DEF GiveUp, Return, FetchInv, AcceptedIsAttested
  <2>6. ASSUME NEW r \in Responses(plan), NEW p \in plan, Raise(r, p) PROVE FetchInv'
    BY <2>6 DEF Raise, Return, FetchInv, AcceptedIsAttested
  <2>7. CASE UNCHANGED vars
    BY <2>1, <2>7 DEF vars, FetchInv, AcceptedIsAttested
  <2>8. QED
    BY <2>1, <2>2, <2>3, <2>4, <2>5, <2>6, <2>7 DEF Next, Attempt
<1>3. FetchInv => AcceptedIsAttested
  BY DEF FetchInv
<1>4. QED
  BY <1>1, <1>2, <1>3, PTL DEF Spec

-----------------------------------------------------------------------------
(* Induction over the naturals, stated with a set instead of a predicate *)

LessThan == {r \in Nat \X Nat : r[1] < r[2]}

LEMMA InductionUp ==
  ASSUME NEW S, 0 \in S, \A n \in Nat : n \in S => n + 1 \in S
  PROVE  Nat \subseteq S
<1> DEFINE T == Nat \ S
<1>1. SUFFICES ASSUME T # {} PROVE FALSE
  OBVIOUS
<1>2. LessThan = OpToRel(<, Nat)
  BY DEF LessThan, OpToRel
<1>3. PICK n \in T : \A m \in T : <<m, n>> \notin LessThan
  BY <1>1, <1>2, NatLessThanWellFounded, WFMin
<1>4. n \in Nat /\ n # 0 /\ n - 1 \in Nat /\ (n - 1) + 1 = n
  BY <1>3
<1>5. n - 1 \in T
  BY <1>3, <1>4
<1>6. <<n - 1, n>> \in LessThan
  BY <1>4 DEF LessThan
<1>7. QED
  BY <1>3, <1>5, <1>6

-----------------------------------------------------------------------------
(* record_result, packet by packet: the recursive function exists *)

Answered == Tally \X Seq(Sent)

BookOver(f, x) ==
  IF x[2] = 0 THEN x[1][1] ELSE Booked(f[<<x[1], x[2] - 1>>], x[1][2][x[2]])

\* A function that books the first n packets of every answer.
Books(f, n) == f = [x \in Answered \X (0..n) |-> BookOver(f, x)]

LEMMA BooksExtend ==
  ASSUME NEW n \in Nat, NEW f, Books(f, n)
  PROVE  \E g : Books(g, n + 1)
<1> DEFINE g == [x \in Answered \X (0..(n + 1)) |-> BookOver(f, x)]
<1>1. \A x \in Answered \X (0..n) : g[x] = f[x]
  <2>1. \A x \in Answered \X (0..n) : x \in Answered \X (0..(n + 1))
    OBVIOUS
  <2>2. \A x \in Answered \X (0..n) : g[x] = BookOver(f, x)
    BY <2>1
  <2> HIDE DEF g
  <2>3. QED
    BY <2>2 DEF Books
<1>2. ASSUME NEW x \in Answered \X (0..(n + 1))
      PROVE  BookOver(f, x) = BookOver(g, x)
  <2>1. CASE x[2] = 0
    <3> HIDE DEF g
    <3> QED
      BY <2>1 DEF BookOver
  <2>2. CASE x[2] # 0
    <3>1. <<x[1], x[2] - 1>> \in Answered \X (0..n)
      BY <2>2
    <3>2. g[<<x[1], x[2] - 1>>] = f[<<x[1], x[2] - 1>>]
      BY <3>1, <1>1
    <3> HIDE DEF g
    <3>3. QED
      BY <2>2, <3>2 DEF BookOver
  <2>3. QED
    BY <2>1, <2>2
<1>3. g = [x \in Answered \X (0..(n + 1)) |-> BookOver(g, x)]
  BY <1>2
<1> HIDE DEF g
<1>4. QED
  BY <1>3 DEF Books

LEMMA BooksExist == \A n \in Nat : \E f : Books(f, n)
<1> DEFINE S == {n \in Nat : \E f : Books(f, n)}
<1>1. 0 \in S
  <2> DEFINE f == [x \in Answered \X (0..0) |-> x[1][1]]
  <2>1. ASSUME NEW x \in Answered \X (0..0) PROVE f[x] = BookOver(f, x)
    <3>1. x[2] = 0 /\ f[x] = x[1][1]
      OBVIOUS
    <3> HIDE DEF f
    <3>2. QED
      BY <3>1 DEF BookOver
  <2>2. f = [x \in Answered \X (0..0) |-> BookOver(f, x)]
    BY <2>1
  <2> HIDE DEF f
  <2>3. QED
    BY <2>2 DEF Books
<1>2. ASSUME NEW n \in Nat, n \in S PROVE n + 1 \in S
  BY <1>2, BooksExtend
<1>3. Nat \subseteq S
  <2> HIDE DEF S
  <2> QED
    BY <1>1, <1>2, InductionUp
<1>4. QED
  BY <1>3

\* Two such functions agree where both are defined.
LEMMA BooksAgree ==
  ASSUME NEW a \in Answered, NEW m \in Nat, NEW n \in Nat, NEW f, NEW g, Books(f, m), Books(g, n)
  PROVE  \A k \in Nat : k <= m /\ k <= n => f[<<a, k>>] = g[<<a, k>>]
<1> DEFINE S == {k \in Nat : k <= m /\ k <= n => f[<<a, k>>] = g[<<a, k>>]}
<1>1. ASSUME NEW k \in Nat, k <= m, k <= n
      PROVE  /\ f[<<a, k>>] = BookOver(f, <<a, k>>)
             /\ g[<<a, k>>] = BookOver(g, <<a, k>>)
  <2>1. <<a, k>> \in Answered \X (0..m) /\ <<a, k>> \in Answered \X (0..n)
    BY <1>1
  <2>2. QED
    BY <2>1 DEF Books
<1>2. 0 \in S
  <2>1. f[<<a, 0>>] = BookOver(f, <<a, 0>>) /\ g[<<a, 0>>] = BookOver(g, <<a, 0>>)
    BY <1>1
  <2>2. QED
    BY <2>1 DEF BookOver
<1>3. ASSUME NEW k \in Nat, k \in S PROVE k + 1 \in S
  <2>1. SUFFICES ASSUME k + 1 <= m, k + 1 <= n PROVE f[<<a, k + 1>>] = g[<<a, k + 1>>]
    OBVIOUS
  <2>2. f[<<a, k>>] = g[<<a, k>>] /\ k + 1 # 0 /\ (k + 1) - 1 = k
    BY <1>3, <2>1
  <2>3. f[<<a, k + 1>>] = BookOver(f, <<a, k + 1>>) /\ g[<<a, k + 1>>] = BookOver(g, <<a, k + 1>>)
    BY <1>1, <2>1
  <2>4. QED
    BY <2>2, <2>3 DEF BookOver
<1>4. Nat \subseteq S
  <2> HIDE DEF S
  <2> QED
    BY <1>2, <1>3, InductionUp
<1>5. QED
  BY <1>4

LEMMA BookedFirstEquation ==
  ASSUME NEW t \in Tally, NEW s \in Seq(Sent), NEW n \in Nat
  PROVE  BookedFirst[<<<<t, s>>, n>>] =
           IF n = 0 THEN t ELSE Booked(BookedFirst[<<<<t, s>>, n - 1>>], s[n])
<1> DEFINE to(m) == CHOOSE f : Books(f, m)
           all   == [x \in Answered \X Nat |-> to(x[2])[x]]
<1>1. \A m \in Nat : Books(to(m), m)
  BY BooksExist
<1>2. ASSUME NEW x \in Answered \X Nat PROVE all[x] = BookOver(all, x)
  <2>1. PICK a \in Answered, m \in Nat : x = <<a, m>>
    OBVIOUS
  <2>2. all[x] = to(m)[<<a, m>>]
    BY <2>1
  <2>3. to(m)[<<a, m>>] = BookOver(to(m), <<a, m>>)
    <3> HIDE DEF to
    <3>1. <<a, m>> \in Answered \X (0..m)
      OBVIOUS
    <3>2. QED
      BY <1>1, <3>1 DEF Books
  <2>4. CASE m = 0
    <3> HIDE DEF all, to
    <3> QED
      BY <2>1, <2>2, <2>3, <2>4 DEF BookOver
  <2>5. CASE m # 0
    <3>1. m - 1 \in Nat /\ m - 1 <= m /\ m - 1 <= m - 1
      BY <2>5
    <3>2. all[<<a, m - 1>>] = to(m - 1)[<<a, m - 1>>]
      BY <3>1
    <3> HIDE DEF all, to
    <3>3. to(m)[<<a, m - 1>>] = to(m - 1)[<<a, m - 1>>]
      BY <1>1, <3>1, BooksAgree
    <3>4. QED
      BY <2>1, <2>2, <2>3, <2>5, <3>2, <3>3 DEF BookOver
  <2>6. QED
    BY <2>4, <2>5
<1>3. all = [x \in Answered \X Nat |-> BookOver(all, x)]
  BY <1>2
<1> HIDE DEF all, to
<1>4. BookedFirst = CHOOSE f : f = [x \in Answered \X Nat |-> BookOver(f, x)]
  BY DEF BookedFirst, BookOver, Answered
<1>5. BookedFirst = [x \in Answered \X Nat |-> BookOver(BookedFirst, x)]
  BY <1>3, <1>4
<1>6. <<<<t, s>>, n>> \in Answered \X Nat
  BY DEF Answered
<1>7. BookedFirst[<<<<t, s>>, n>>] = BookOver(BookedFirst, <<<<t, s>>, n>>)
  BY <1>5, <1>6
<1>8. QED
  BY <1>7 DEF BookOver

-----------------------------------------------------------------------------
(* The tracker *)

\* The counters of one provider add up.
AddsUp(t) ==
  /\ t \in Tally
  /\ t.attempts = t.successes + t.proof + t.stale + t.other
  /\ t.streak <= t.proof + t.stale + t.other

LEMMA SentIsClassified ==
  ASSUME NEW k \in Sent
  PROVE  k.root \in BOOLEAN /\ k.fresh \in BOOLEAN /\ k.proof \in {"verifies", "fails", "raises"}
<1>1. PICK s \in Answer \cup {<<Good>>} : k \in ToSet(s)
  BY DEF Sent
<1>2. CASE s \in Answer
  BY <1>1, <1>2, AnswerAssumption
<1>3. CASE s = <<Good>>
  <2>1. k = Good
    BY <1>1, <1>3 DEF ToSet
  <2>2. QED
    BY <2>1 DEF Good, Packet
<1>4. QED
  BY <1>2, <1>3

\* A failure is one more attempt, one more of its reason and one more of the streak.
FailureOf(t, reason, u) ==
  /\ u \in Tally
  /\ u.attempts = t.attempts + 1 /\ u.successes = t.successes /\ u.streak = t.streak + 1
  /\ u.proof = IF reason = "proof" THEN t.proof + 1 ELSE t.proof
  /\ u.stale = IF reason = "stale" THEN t.stale + 1 ELSE t.stale
  /\ u.other = IF reason = "other" THEN t.other + 1 ELSE t.other

LEMMA FailedIsFailure ==
  ASSUME NEW t \in Tally, NEW reason \in {"proof", "stale", "other"}
  PROVE  FailureOf(t, reason, Failed(t, reason))
<1> DEFINE u == Failed(t, reason)
<1>1. t \in Tally
  OBVIOUS
<1>2. /\ t.attempts \in Nat /\ t.successes \in Nat /\ t.proof \in Nat /\ t.stale \in Nat
      /\ t.other \in Nat /\ t.streak \in Nat
  BY <1>1 DEF Tally
<1>3. PICK a \in Nat, k \in Nat : a = t.attempts + 1 /\ k = t.streak + 1
  BY <1>2
<1>4. FailureOf(t, reason, u)
  <2>1. CASE reason = "proof"
    <3>1. PICK m \in Nat : m = t.proof + 1
      BY <1>2
    <3>2. u = [t EXCEPT !.attempts = a, !.proof = m, !.streak = k]
      BY <1>1, <1>3, <2>1, <3>1 DEF Failed, Tally
    <3> HIDE DEF u
    <3>3. /\ u \in Tally
          /\ u.attempts = a /\ u.streak = k /\ u.proof = m
          /\ \A f \in {"successes", "proof", "stale", "other"} \ {"proof"} : u[f] = t[f]
      BY <1>1, <3>2 DEF Tally
    <3>4. QED
      BY <1>3, <2>1, <3>1, <3>3 DEF FailureOf
  <2>2. CASE reason = "stale"
    <3>1. PICK m \in Nat : m = t.stale + 1
      BY <1>2
    <3>2. u = [t EXCEPT !.attempts = a, !.stale = m, !.streak = k]
      BY <1>1, <1>3, <2>2, <3>1 DEF Failed, Tally
    <3> HIDE DEF u
    <3>3. /\ u \in Tally
          /\ u.attempts = a /\ u.streak = k /\ u.stale = m
          /\ \A f \in {"successes", "proof", "stale", "other"} \ {"stale"} : u[f] = t[f]
      BY <1>1, <3>2 DEF Tally
    <3>4. QED
      BY <1>3, <2>2, <3>1, <3>3 DEF FailureOf
  <2>3. CASE reason = "other"
    <3>1. PICK m \in Nat : m = t.other + 1
      BY <1>2
    <3>2. u = [t EXCEPT !.attempts = a, !.other = m, !.streak = k]
      BY <1>1, <1>3, <2>3, <3>1 DEF Failed, Tally
    <3> HIDE DEF u
    <3>3. /\ u \in Tally
          /\ u.attempts = a /\ u.streak = k /\ u.other = m
          /\ \A f \in {"successes", "proof", "stale", "other"} \ {"other"} : u[f] = t[f]
      BY <1>1, <3>2 DEF Tally
    <3>4. QED
      BY <1>3, <2>3, <3>1, <3>3 DEF FailureOf
  <2>4. QED
    BY <2>1, <2>2, <2>3
<1>5. QED
  BY <1>4

LEMMA FailedAddsUp ==
  ASSUME NEW t, AddsUp(t), NEW reason \in {"proof", "stale", "other"}
  PROVE  AddsUp(Failed(t, reason))
<1> DEFINE u == Failed(t, reason)
<1>1. FailureOf(t, reason, u)
  BY FailedIsFailure DEF AddsUp
<1> HIDE DEF u
<1>2. AddsUp(u)
  BY <1>1 DEF AddsUp, FailureOf, Tally
<1>3. QED
  BY <1>2 DEF u

LEMMA SucceededAddsUp ==
  ASSUME NEW t, AddsUp(t)
  PROVE  /\ AddsUp(Succeeded(t))
         /\ t.attempts = t.successes => Succeeded(t).attempts = Succeeded(t).successes
<1> DEFINE u == Succeeded(t)
<1>1. t \in Tally /\ t.attempts \in Nat /\ t.successes \in Nat
  BY DEF AddsUp, Tally
<1>2. PICK a \in Nat, s \in Nat : a = t.attempts + 1 /\ s = t.successes + 1
  BY <1>1
<1>3. u = [t EXCEPT !.attempts = a, !.successes = s, !.streak = 0]
  BY <1>1, <1>2 DEF Succeeded, Tally
<1> HIDE DEF u
<1>4. /\ u \in Tally /\ u.attempts = a /\ u.successes = s /\ u.streak = 0
      /\ u.proof = t.proof /\ u.stale = t.stale /\ u.other = t.other
  BY <1>1, <1>3 DEF Tally
<1>5. AddsUp(u) /\ (t.attempts = t.successes => u.attempts = u.successes)
  BY <1>2, <1>4 DEF AddsUp, Tally
<1>6. QED
  BY <1>5 DEF u

LEMMA BookedAddsUp ==
  ASSUME NEW t, AddsUp(t), NEW k \in Sent
  PROVE  AddsUp(Booked(t, k))
<1>1. k.root \in BOOLEAN /\ k.fresh \in BOOLEAN
  BY SentIsClassified
<1>2. Booked(t, k) \in {Failed(t, "other"), Failed(t, "stale"), Failed(t, "proof"), Succeeded(t)}
  BY <1>1, Zenon DEF Booked
<1>3. QED
  BY <1>2, FailedAddsUp, SucceededAddsUp

LEMMA BookedFirstAddsUp ==
  ASSUME NEW t, AddsUp(t), NEW s \in Seq(Sent)
  PROVE  \A n \in Nat : n <= Len(s) => AddsUp(BookedFirst[<<<<t, s>>, n>>])
<1> DEFINE S == {n \in Nat : n <= Len(s) => AddsUp(BookedFirst[<<<<t, s>>, n>>])}
<1>1. t \in Tally /\ Len(s) \in Nat
  BY LenProperties DEF AddsUp
<1>2. 0 \in S
  BY <1>1, BookedFirstEquation
<1>3. ASSUME NEW n \in Nat, n \in S PROVE n + 1 \in S
  <2>1. SUFFICES ASSUME n + 1 <= Len(s) PROVE AddsUp(BookedFirst[<<<<t, s>>, n + 1>>])
    OBVIOUS
  <2>2. AddsUp(BookedFirst[<<<<t, s>>, n>>]) /\ n + 1 \in 1..Len(s) /\ n + 1 # 0 /\ (n + 1) - 1 = n
    BY <1>1, <1>3, <2>1
  <2>3. s[n + 1] \in Sent
    BY <2>2, ElementOfSeq
  <2>4. BookedFirst[<<<<t, s>>, n + 1>>] = Booked(BookedFirst[<<<<t, s>>, n>>], s[n + 1])
    <3>1. PICK m \in Nat : m = n + 1
      OBVIOUS
    <3>2. BookedFirst[<<<<t, s>>, m>>] =
            IF m = 0 THEN t ELSE Booked(BookedFirst[<<<<t, s>>, m - 1>>], s[m])
      BY <1>1, BookedFirstEquation
    <3>3. m # 0 /\ m - 1 = n
      BY <3>1
    <3>4. BookedFirst[<<<<t, s>>, m>>] = Booked(BookedFirst[<<<<t, s>>, n>>], s[m])
      BY <3>2, <3>3
    <3>5. QED
      BY <3>1, <3>4
  <2>5. QED
    BY <2>2, <2>3, <2>4, BookedAddsUp
<1>4. Nat \subseteq S
  <2> HIDE DEF S
  <2> QED
    BY <1>2, <1>3, InductionUp
<1>5. QED
  BY <1>4

LEMMA BookedAllAddsUp ==
  ASSUME NEW t, AddsUp(t), NEW s \in Seq(Sent)
  PROVE  AddsUp(BookedAll(t, s))
<1>1. Len(s) \in Nat /\ Len(s) <= Len(s)
  BY LenProperties
<1>2. QED
  BY <1>1, BookedFirstAddsUp DEF BookedAll

\* The one good packet is booked as a success, if the booking comes to it.
LEMMA GoodIsBooked ==
  ASSUME NEW t \in Tally
  PROVE  /\ BookedAll(t, <<Good>>) = Succeeded(t)
         /\ BookedFirst[<<<<t, <<Good>>>>, 0>>] = t
         /\ BookedFirst[<<<<t, <<Good>>>>, 1>>] = Succeeded(t)
<1>1. <<Good>> \in Seq(Sent)
  <2>1. Good \in Sent
    <3>1. Good \in ToSet(<<Good>>)
      BY DEF ToSet
    <3>2. QED
      BY <3>1 DEF Sent
  <2>2. QED
    BY <2>1
<1>2. BookedFirst[<<<<t, <<Good>>>>, 0>>] = t
  BY <1>1, BookedFirstEquation
<1>3. BookedFirst[<<<<t, <<Good>>>>, 1>>] = Booked(t, Good)
  <2>1. 1 # 0 /\ 1 - 1 = 0 /\ <<Good>>[1] = Good /\ 1 \in Nat
    OBVIOUS
  <2>2. BookedFirst[<<<<t, <<Good>>>>, 1>>] =
          IF 1 = 0 THEN t ELSE Booked(BookedFirst[<<<<t, <<Good>>>>, 1 - 1>>], <<Good>>[1])
    BY <1>1, <2>1, BookedFirstEquation
  <2>3. QED
    BY <1>2, <2>1, <2>2
<1>4. Booked(t, Good) = Succeeded(t)
  <2>1. Good.root = TRUE /\ Good.fresh = TRUE /\ Good.proof = "verifies"
    BY DEF Good, Packet
  <2>2. QED
    BY <2>1 DEF Booked
<1>5. Len(<<Good>>) = 1
  OBVIOUS
<1>6. QED
  BY <1>2, <1>3, <1>4, <1>5 DEF BookedAll

\* Every answer is a sequence of packets that may be sent.
LEMMA AnswersAreSent ==
  ASSUME NEW s \in Answer \cup {<<Good>>}
  PROVE  s \in Seq(Sent)
<1>1. CASE s \in Answer
  <2>1. s \in Seq(ToSet(s))
    BY <1>1, AnswerAssumption
  <2>2. ToSet(s) \subseteq Sent
    BY DEF Sent
  <2>3. QED
    BY <2>1, <2>2, SeqMonotonic
<1>2. CASE s = <<Good>>
  <2>1. Good \in ToSet(<<Good>>)
    BY DEF ToSet
  <2>2. Good \in Sent
    BY <2>1 DEF Sent
  <2>3. QED
    BY <1>2, <2>2
<1>3. QED
  BY <1>1, <1>2

\* What the tracker holds is consistent, and of an honest provider only successes.
TrackerOK(tr) ==
  /\ tr \in [Provider -> Tally]
  /\ \A p \in Provider : AddsUp(tr[p])
  /\ \A p \in Honest : tr[p].attempts = tr[p].successes

LEMMA RecordedKeeps ==
  ASSUME NEW tr, TrackerOK(tr), NEW P \in SUBSET Provider, NEW r \in Responses(P)
  PROVE  TrackerOK(Recorded(tr, r))
<1>1. /\ r \in [P -> Answer \cup {<<Good>>}] /\ DOMAIN r = P
      /\ \A p \in P \cap Honest : r[p] = <<Good>>
  BY DEF Responses
<1>2. ASSUME NEW p \in P PROVE r[p] \in Seq(Sent)
  BY <1>1, AnswersAreSent
<1>3. ASSUME NEW p \in Provider
      PROVE  Recorded(tr, r)[p] = IF p \notin P THEN tr[p]
                                  ELSE IF r[p] = <<>> THEN Failed(tr[p], "other")
                                  ELSE BookedAll(tr[p], r[p])
  BY <1>1 DEF Recorded
<1>4. ASSUME NEW p \in Provider PROVE AddsUp(Recorded(tr, r)[p])
  <2>1. AddsUp(tr[p])
    BY DEF TrackerOK
  <2>2. AddsUp(Failed(tr[p], "other"))
    BY <2>1, FailedAddsUp
  <2>3. p \in P => AddsUp(BookedAll(tr[p], r[p]))
    BY <1>2, <2>1, BookedAllAddsUp
  <2>4. QED
    BY <1>3, <2>1, <2>2, <2>3
<1>5. ASSUME NEW p \in Honest PROVE Recorded(tr, r)[p].attempts = Recorded(tr, r)[p].successes
  <2>1. p \in Provider /\ AddsUp(tr[p]) /\ tr[p] \in Tally /\ tr[p].attempts = tr[p].successes
    BY FetchAssumption DEF TrackerOK
  <2>2. CASE p \notin P
    BY <1>3, <2>1, <2>2
  <2>3. CASE p \in P
    <3>1. r[p] = <<Good>> /\ <<Good>> # <<>>
      BY <1>1, <2>3
    <3>2. Recorded(tr, r)[p] = BookedAll(tr[p], <<Good>>)
      BY <1>3, <2>1, <2>3, <3>1
    <3>3. BookedAll(tr[p], <<Good>>) = Succeeded(tr[p])
      BY <2>1, GoodIsBooked
    <3>4. QED
      BY <2>1, <3>2, <3>3, SucceededAddsUp
  <2>4. QED
    BY <2>2, <2>3
<1>6. Recorded(tr, r) \in [Provider -> Tally]
  <2>1. Recorded(tr, r) = [p \in Provider |-> Recorded(tr, r)[p]]
    BY DEF Recorded
  <2>2. \A p \in Provider : Recorded(tr, r)[p] \in Tally
    BY <1>4 DEF AddsUp
  <2>3. QED
    BY <2>1, <2>2
<1>7. QED
  BY <1>4, <1>5, <1>6 DEF TrackerOK

\* A booking that is broken off has come to so many packets of each answer.
LEMMA BookingIsWithin ==
  ASSUME NEW P \in SUBSET Provider, NEW r \in Responses(P), NEW p \in P, NEW m \in Booking(r, p),
         NEW q \in P
  PROVE  r[q] \in Seq(Sent) /\ m[q] \in Nat /\ m[q] <= Len(r[q])
<1>1. r \in [P -> Answer \cup {<<Good>>}] /\ DOMAIN r = P
  BY DEF Responses
<1>2. r[q] \in Seq(Sent) /\ Len(r[q]) \in Nat
  BY <1>1, AnswersAreSent, LenProperties
<1>3. m[q] \in {0} \cup (1..Len(r[q]))
  BY <1>1 DEF Booking, Before
<1>4. QED
  BY <1>2, <1>3

LEMMA RecordedPartlyKeeps ==
  ASSUME NEW tr, TrackerOK(tr), NEW P \in SUBSET Provider, NEW r \in Responses(P),
         NEW p \in P, NEW m \in Booking(r, p)
  PROVE  TrackerOK(RecordedPartly(tr, r, m))
<1> DEFINE new == RecordedPartly(tr, r, m)
<1>1. DOMAIN r = P /\ \A q \in P \cap Honest : r[q] = <<Good>>
  BY DEF Responses
<1>2. ASSUME NEW q \in Provider
      PROVE  new[q] = IF q \notin P THEN tr[q] ELSE BookedFirst[<<<<tr[q], r[q]>>, m[q]>>]
  BY <1>1 DEF RecordedPartly
<1>3. new = [q \in Provider |-> new[q]]
  BY DEF RecordedPartly
<1> HIDE DEF new
<1>4. ASSUME NEW q \in Provider PROVE AddsUp(new[q])
  <2>1. AddsUp(tr[q])
    BY DEF TrackerOK
  <2>2. q \in P => AddsUp(BookedFirst[<<<<tr[q], r[q]>>, m[q]>>])
    BY <2>1, BookingIsWithin, BookedFirstAddsUp
  <2>3. QED
    BY <1>2, <2>1, <2>2
<1>5. ASSUME NEW q \in Honest PROVE new[q].attempts = new[q].successes
  <2>1. q \in Provider /\ AddsUp(tr[q]) /\ tr[q] \in Tally /\ tr[q].attempts = tr[q].successes
    BY FetchAssumption DEF TrackerOK
  <2>2. CASE q \notin P
    BY <1>2, <2>1, <2>2
  <2>3. CASE q \in P
    <3>1. r[q] = <<Good>> /\ Len(<<Good>>) = 1
      BY <1>1, <2>3
    <3>2. m[q] \in {0, 1}
      <4>1. m[q] \in Nat /\ m[q] <= Len(r[q])
        BY <2>3, BookingIsWithin
      <4>2. m[q] <= 1
        BY <3>1, <4>1
      <4>3. QED
        BY <4>1, <4>2
    <3>3. new[q] \in {tr[q], Succeeded(tr[q])}
      BY <1>2, <2>1, <2>3, <3>1, <3>2, GoodIsBooked
    <3>4. QED
      BY <2>1, <3>3, SucceededAddsUp
  <2>4. QED
    BY <2>2, <2>3
<1>6. new \in [Provider -> Tally]
  BY <1>3, <1>4 DEF AddsUp
<1>7. TrackerOK(new)
  BY <1>4, <1>5, <1>6 DEF TrackerOK
<1>8. QED
  BY <1>7 DEF new

\* An honest provider's packet never raises.
LEMMA HonestDoNotRaise ==
  ASSUME NEW P, NEW r \in Responses(P), NEW p \in Raising(r)
  PROVE  p \notin Honest
<1>1. SUFFICES ASSUME p \in Honest PROVE FALSE
  OBVIOUS
<1>2. r[p] = <<Good>>
  BY <1>1 DEF Raising, Responses
<1>3. ~ Raises(Good)
  <2>1. Good.proof = "verifies"
    BY DEF Good, Packet
  <2>2. QED
    BY <2>1 DEF Raises
<1>4. ToSet(<<Good>>) = {Good}
  BY DEF ToSet
<1>5. QED
  BY <1>2, <1>3, <1>4 DEF Raising

-----------------------------------------------------------------------------
(* The invariant of a fetch *)

\* What a plan of a fetch has asked for, as many providers as there are at most.
Wanted(more) == LET count == Required + Redundancy + more
                IN  IF count < Cardinality(Provider) THEN count ELSE Cardinality(Provider)

\* The fetch is within its bounds, the tracker is consistent, and a plan that is not
\* tuned grows by one with each attempt.
StateInv ==
  /\ phase \in {"idle", "trying", "accepted", "failed", "raised"}
  /\ fetches \in 0..MaxFetches
  /\ adaptive \in BOOLEAN
  /\ plan \subseteq Provider
  /\ attempt \in 0..(MaxAttempts - 1)
  /\ extra \in 0..(2 * attempt)
  /\ agreed \subseteq {k.key : k \in Sent}
  /\ raisers \subseteq Provider \ Honest
  /\ phase = "raised" => raisers # {}
  /\ TrackerOK(stats)
  /\ phase # "trying" => attempt = 0 /\ extra = 0
  /\ phase = "trying" => Cardinality(plan) = Wanted(extra) /\ (~ adaptive => extra = attempt)

LEMMA NumberTypes ==
  /\ Cardinality(Provider) \in Nat /\ Required \in Nat \ {0} /\ Redundancy \in Nat
  /\ MaxAttempts \in Nat \ {0} /\ MaxFetches \in Nat
BY FetchAssumption, FS_CardinalityType

LEMMA SelectionsFill ==
  ASSUME NEW P, NEW more \in Nat, NEW Q \in Selections(P, more)
  PROVE  Q \subseteq Provider /\ Cardinality(Q) = Wanted(more)
BY DEF Selections, kSubset, Wanted

\* A quorum is on keys that were sent.
LEMMA QuorumWasSent ==
  ASSUME NEW P, NEW r \in Responses(P)
  PROVE  Quorum(r) \subseteq {k.key : k \in Sent}
<1>1. DOMAIN r = P /\ \A p \in P : r[p] \in Answer \cup {<<Good>>}
  BY DEF Responses
<1>2. UNION {ToSet(r[p]) : p \in DOMAIN r} \subseteq Sent
  BY <1>1 DEF Sent
<1>3. QED
  BY <1>2 DEF Quorum, Keys

\* Tuning adds two at most, a fetch that is not tuned exactly one.
LEMMA WidenedBounds ==
  ASSUME NEW tr, NEW P, NEW x \in Nat, adaptive \in BOOLEAN
  PROVE  /\ Widened(tr, P, x) \in x..(x + 2)
         /\ ~ adaptive => Widened(tr, P, x) = x + 1
<1> DEFINE u == IF Unreliable(tr, P) THEN 1 ELSE 0
           k == IF Streak(tr, P) THEN 1 ELSE 0
<1>1. u \in {0, 1} /\ k \in {0, 1}
  OBVIOUS
<1>2. Widened(tr, P, x) = IF adaptive THEN x + u + k ELSE x + 1
  BY DEF Widened
<1> HIDE DEF u, k
<1>3. QED
  BY <1>1, <1>2

LEMMA StateStarts == Init => StateInv
<1> SUFFICES ASSUME Init PROVE StateInv
  OBVIOUS
<1>1. AddsUp(Unused) /\ Unused.attempts = Unused.successes
  BY DEF AddsUp, Unused, Tally
<1>2. TrackerOK(stats)
  BY <1>1, FetchAssumption DEF Init, TrackerOK, AddsUp
<1>3. 0 \in 0..MaxFetches /\ 0 \in 0..(MaxAttempts - 1) /\ 0 \in 0..(2 * 0)
  BY NumberTypes
<1>4. QED
  BY <1>2, <1>3 DEF Init, StateInv

LEMMA StateKeeps ==
  ASSUME StateInv, [Next]_vars
  PROVE  StateInv'
<1>1. CASE Start
  <2>1. plan' \subseteq Provider /\ Cardinality(plan') = Wanted(0)
    BY <1>1, SelectionsFill DEF Start
  <2>2. fetches' \in 0..MaxFetches /\ adaptive' \in BOOLEAN /\ agreed' = {} /\ phase' = "trying" /\ raisers' = {}
    BY <1>1, NumberTypes DEF Start, StateInv
  <2>3. UNCHANGED <<attempt, extra, stats>> /\ attempt = 0 /\ extra = 0
    BY <1>1 DEF Start, StateInv
  <2>4. QED
    BY <2>1, <2>2, <2>3 DEF StateInv, Wanted
<1>2. ASSUME NEW r \in Responses(plan), Accept(r) PROVE StateInv'
  <2>1. agreed' \subseteq {k.key : k \in Sent}
    BY <1>2, QuorumWasSent DEF Accept
  <2>2. phase' = "accepted" /\ plan' = {} /\ attempt' = 0 /\ extra' = 0
        /\ UNCHANGED <<fetches, adaptive, stats, raisers>>
    BY <1>2 DEF Accept, Return
  <2>3. 0 \in 0..(MaxAttempts - 1) /\ 0 \in 0..(2 * 0)
    BY NumberTypes
  <2>4. QED
    BY <2>1, <2>2, <2>3 DEF StateInv
<1>3. ASSUME NEW r \in Responses(plan), Retry(r) PROVE StateInv'
  <2>1. TrackerOK(Recorded(stats, r))
    BY RecordedKeeps DEF StateInv
  <2>2. /\ attempt \in Nat /\ extra \in Nat /\ extra <= 2 * attempt /\ adaptive \in BOOLEAN
        /\ phase = "trying" /\ (~ adaptive => extra = attempt)
    BY <1>3, NumberTypes DEF StateInv, Retry
  <2>3. attempt' = attempt + 1 /\ attempt' \in 0..(MaxAttempts - 1)
    BY <1>3, <2>2, NumberTypes DEF Retry
  <2>4. extra' \in extra..(extra + 2) /\ (~ adaptive => extra' = extra + 1)
    <3>1. extra' = Widened(stats', plan, extra)
      BY <1>3 DEF Retry
    <3>2. QED
      BY <2>2, <3>1, WidenedBounds
  <2>5. extra' \in 0..(2 * attempt') /\ (~ adaptive => extra' = attempt')
    BY <2>2, <2>3, <2>4
  <2>6. plan' \subseteq Provider /\ Cardinality(plan') = Wanted(extra')
    <3>1. plan' \in Selections(plan, extra') /\ extra' \in Nat
      BY <1>3, <2>2, <2>4 DEF Retry
    <3>2. QED
      BY <3>1, SelectionsFill
  <2>7. stats' = Recorded(stats, r) /\ UNCHANGED <<phase, fetches, adaptive, agreed, raisers>>
    BY <1>3 DEF Retry
  <2>8. QED
    BY <2>1, <2>2, <2>3, <2>5, <2>6, <2>7 DEF StateInv, Wanted
<1>4. ASSUME NEW r \in Responses(plan), GiveUp(r) PROVE StateInv'
  <2>1. TrackerOK(Recorded(stats, r))
    BY RecordedKeeps DEF StateInv
  <2>2. phase' = "failed" /\ plan' = {} /\ attempt' = 0 /\ extra' = 0
        /\ stats' = Recorded(stats, r) /\ UNCHANGED <<fetches, adaptive, agreed, raisers>>
    BY <1>4 DEF GiveUp, Return
  <2>3. 0 \in 0..(MaxAttempts - 1) /\ 0 \in 0..(2 * 0)
    BY NumberTypes
  <2>4. QED
    BY <2>1, <2>2, <2>3 DEF StateInv
<1>5. ASSUME NEW r \in Responses(plan), NEW p \in plan, Raise(r, p) PROVE StateInv'
  <2>1. TrackerOK(stats')
    <3>1. \/ stats' = stats
          \/ \E m \in Booking(r, p) : stats' = RecordedPartly(stats, r, m)
      BY <1>5 DEF Raise
    <3>2. plan \subseteq Provider /\ TrackerOK(stats)
      BY DEF StateInv
    <3>3. QED
      BY <3>1, <3>2, RecordedPartlyKeeps
  <2>2. phase' = "raised" /\ plan' = {} /\ attempt' = 0 /\ extra' = 0
        /\ raisers' = {p} /\ UNCHANGED <<fetches, adaptive, agreed>>
    BY <1>5 DEF Raise, Return
  <2>3. p \in Provider \ Honest
    BY <1>5, HonestDoNotRaise DEF Raise, RaisesFirst, StateInv
  <2>4. 0 \in 0..(MaxAttempts - 1) /\ 0 \in 0..(2 * 0)
    BY NumberTypes
  <2>5. QED
    BY <2>1, <2>2, <2>3, <2>4 DEF StateInv
<1>6. CASE UNCHANGED vars
  BY <1>6 DEF vars, StateInv, Wanted
<1>7. QED
  BY <1>1, <1>2, <1>3, <1>4, <1>5, <1>6 DEF Next, Attempt

LEMMA StateIsInvariant == Spec => []StateInv
<1>1. StateInv /\ [Next]_vars => StateInv'
  BY StateKeeps
<1>2. QED
  BY <1>1, StateStarts, PTL DEF Spec

\* For every number of providers, quorum and answers: the counters of each provider
\* add up, however many packets an answer has, and a fetch stays within its
\* attempts (record_result, simulate_epoch_fetch_with_fallback).
THEOREM FetchTypeCorrect == Spec => []FetchTypeOK
<1>1. StateInv => FetchTypeOK
  <2>1. SUFFICES ASSUME StateInv PROVE FetchTypeOK
    OBVIOUS
  <2>2. attempt \in 0..MaxAttempts /\ extra \in 0..(2 * MaxAttempts)
    BY <2>1, NumberTypes DEF StateInv
  <2>3. \A p \in Provider : AddsUp(stats[p])
    BY <2>1 DEF StateInv, TrackerOK
  <2>4. QED
    BY <2>1, <2>2, <2>3 DEF StateInv, FetchTypeOK, AddsUp, Sent
<1>2. QED
  BY <1>1, StateIsInvariant, PTL

\* For every number of providers: one that always answers with the good packet has
\* as many successes as attempts, whatever else happens to its fetches
\* (record_result).
THEOREM HonestKeepsItsRecord == Spec => []HonestIsNeverBlamed
<1>1. StateInv => HonestIsNeverBlamed
  BY DEF StateInv, TrackerOK, HonestIsNeverBlamed
<1>2. QED
  BY <1>1, StateIsInvariant, PTL

-----------------------------------------------------------------------------
(* A fetch that asks everyone *)

Enough ==
  /\ Cardinality(Honest) >= Required
  /\ Required + Redundancy + MaxAttempts - 1 >= Cardinality(Provider)

\* What HonestQuorumWins says of fetches that are not tuned.
PlainQuorumWins ==
  /\ Enough /\ phase = "failed" => adaptive
  /\ phase = "raised" => raisers # {} /\ raisers \cap Honest = {}

FreshOf(r, p) == {<<p, n>> : n \in {m \in 1..Len(r[p]) : r[p][m].fresh}}

LEMMA FreshIsFinite ==
  ASSUME NEW P \in SUBSET Provider, NEW r \in Responses(P)
  PROVE  IsFiniteSet(FreshPackets(r))
<1> DEFINE parts == {FreshOf(r, p) : p \in P}
           part  == [p \in P |-> FreshOf(r, p)]
<1>1. DOMAIN r = P /\ \A p \in P : r[p] \in Answer \cup {<<Good>>}
  BY DEF Responses
<1>2. FreshPackets(r) = UNION parts
  BY <1>1 DEF FreshPackets, FreshOf
<1>3. IsFiniteSet(P)
  BY FetchAssumption, FS_Subset
<1>4. IsFiniteSet(parts)
  <2>1. part \in Surjection(P, parts)
    BY DEF Surjection
  <2>2. QED
    BY <1>3, <2>1, FS_Surjection
<1>5. ASSUME NEW p \in P PROVE IsFiniteSet(FreshOf(r, p))
  <2>1. Len(r[p]) \in Nat
    <3>1. r[p] \in Answer => r[p] \in Seq(ToSet(r[p]))
      BY AnswerAssumption
    <3>2. <<Good>> \in Seq({Good})
      OBVIOUS
    <3>3. QED
      BY <1>1, <3>1, <3>2, LenProperties
  <2>2. IsFiniteSet(1..Len(r[p]))
    <3>1. 1 \in Int /\ Len(r[p]) \in Int
      BY <2>1
    <3>2. QED
      BY <3>1, FS_Interval
  <2>3. IsFiniteSet({p} \X (1..Len(r[p])))
    BY <2>2, FS_Singleton, FS_Product
  <2>4. FreshOf(r, p) \subseteq {p} \X (1..Len(r[p]))
    BY DEF FreshOf
  <2>5. QED
    BY <2>3, <2>4, FS_Subset
<1>6. \A T \in parts : IsFiniteSet(T)
  BY <1>5
<1> HIDE DEF parts
<1>7. QED
  BY <1>2, <1>4, <1>6, FS_UNION

\* If enough of those asked are honest, the response is accepted.
LEMMA HonestAreEnough ==
  ASSUME NEW P \in SUBSET Provider, Cardinality(P \cap Honest) >= Required, NEW r \in Responses(P)
  PROVE  Accepts(r)
<1> DEFINE H == P \cap Honest
<1>1. /\ r \in [P -> Answer \cup {<<Good>>}] /\ DOMAIN r = P
      /\ H \subseteq Provider /\ H \subseteq P /\ \A p \in H : r[p] = <<Good>>
  BY DEF Responses
<1>2. Cardinality(H) >= Required
  OBVIOUS
<1> HIDE DEF H
<1>3. IsFiniteSet(H) /\ Cardinality(H) \in Nat /\ Required \in Nat \ {0}
  BY <1>1, FetchAssumption, NumberTypes, FS_Subset, FS_CardinalityType
<1>4. /\ <<Good>>[1] = Good /\ Len(<<Good>>) = 1 /\ 1 \in 1..1
      /\ Good.key = Target /\ Good.root = TRUE /\ Good.fresh = TRUE /\ Good.proof = "verifies"
  BY DEF Good, Packet
<1>5. H \subseteq Agreeing(r, Target)
  <2>1. ASSUME NEW p \in H PROVE p \in Agreeing(r, Target)
    <3>1. /\ Len(r[p]) = 1 /\ r[p][1].fresh = TRUE /\ r[p][1].key = Target
          /\ r[p][1].root = TRUE /\ r[p][1].proof = "verifies"
      BY <1>1, <1>4
    <3>2. 1 \in Before(r, p)
      BY <3>1 DEF Before, Raises
    <3>3. QED
      BY <1>1, <3>1, <3>2 DEF Agreeing
  <2>2. QED
    BY <2>1
<1>6. Cardinality(Agreeing(r, Target)) >= Required
  <2>1. Agreeing(r, Target) \subseteq Provider
    BY <1>1 DEF Agreeing
  <2>2. IsFiniteSet(Agreeing(r, Target)) /\ Cardinality(Agreeing(r, Target)) \in Nat
    BY <2>1, FetchAssumption, FS_Subset, FS_CardinalityType
  <2>3. Cardinality(H) <= Cardinality(Agreeing(r, Target))
    BY <1>5, <2>2, FS_Subset
  <2>4. QED
    BY <1>3, <1>2, <2>2, <2>3
<1>7. Target \in Keys(r)
  <2>1. PICK p \in H : TRUE
    BY <1>3, <1>2, FS_EmptySet
  <2>2. Good \in ToSet(r[p])
    BY <1>1, <1>4 DEF ToSet
  <2>3. QED
    BY <1>1, <1>4, <2>2 DEF Keys
<1>8. Cardinality(FreshPackets(r)) >= Required
  <2> DEFINE first == [p \in H |-> <<p, 1>>]
  <2>1. ASSUME NEW p \in H PROVE <<p, 1>> \in FreshPackets(r)
    <3>1. Len(r[p]) = 1 /\ r[p][1].fresh = TRUE
      BY <1>1, <1>4
    <3>2. <<p, 1>> \in FreshOf(r, p)
      BY <3>1 DEF FreshOf
    <3>3. QED
      BY <1>1, <3>2 DEF FreshPackets, FreshOf
  <2>2. first \in Injection(H, FreshPackets(r))
    BY <2>1 DEF Injection, IsInjective
  <2>3. IsFiniteSet(FreshPackets(r))
    BY FreshIsFinite
  <2>4. Cardinality(H) <= Cardinality(FreshPackets(r)) /\ Cardinality(FreshPackets(r)) \in Nat
    BY <2>2, <2>3, FS_Injection, FS_CardinalityType
  <2>5. QED
    BY <1>3, <1>2, <2>4
<1>9. QED
  BY <1>6, <1>7, <1>8 DEF Accepts, Quorum

\* If everyone is asked, it is enough that enough are honest.
LEMMA EveryoneIsEnough ==
  ASSUME Cardinality(Honest) >= Required, NEW r \in Responses(Provider)
  PROVE  Accepts(r)
<1>1. Provider \cap Honest = Honest
  BY FetchAssumption
<1>2. QED
  BY <1>1, HonestAreEnough

LEMMA RaisersAreFaulty ==
  ASSUME NEW r \in Responses(plan), NEW p \in plan, Raise(r, p)
  PROVE  phase' = "raised" /\ raisers' # {} /\ raisers' \cap Honest = {}
<1>1. phase' = "raised" /\ raisers' = {p} /\ p \in Raising(r)
  BY DEF Raise, RaisesFirst, Return
<1>2. QED
  BY <1>1, HonestDoNotRaise

\* For every number of providers, quorum and number of attempts: with Required honest
\* providers and attempts enough to ask everyone, a fetch that is not tuned never
\* fails, whatever the faulty answer: it ends with the answer, or raises at a packet
\* of a faulty provider (the part of HonestQuorumWins that does not depend on MinRate
\* and StreakThreshold; simulate_epoch_fetch_with_fallback).
THEOREM PlainFetchSucceeds == Spec => []PlainQuorumWins
<1>1. Init => PlainQuorumWins
  BY DEF Init, PlainQuorumWins
<1>2. StateInv /\ PlainQuorumWins /\ [Next]_vars => PlainQuorumWins'
  <2>1. SUFFICES ASSUME StateInv, PlainQuorumWins, [Next]_vars PROVE PlainQuorumWins'
    OBVIOUS
  <2>2. CASE Start
    BY <2>2 DEF Start, PlainQuorumWins
  <2>3. ASSUME NEW r \in Responses(plan), Accept(r) \/ Retry(r) PROVE PlainQuorumWins'
    <3>1. phase' \notin {"failed", "raised"}
      BY <2>3 DEF Accept, Retry, Return
    <3>2. QED
      BY <3>1 DEF PlainQuorumWins
  <2>4. ASSUME NEW r \in Responses(plan), GiveUp(r), Enough PROVE adaptive'
    <3>1. SUFFICES ASSUME ~ adaptive PROVE FALSE
      BY <2>4 DEF GiveUp
    <3>2. attempt + 1 = MaxAttempts /\ extra = attempt /\ Cardinality(plan) = Wanted(extra)
      BY <2>1, <2>4, <3>1 DEF GiveUp, StateInv
    <3>3. attempt \in Nat
      BY <2>1, NumberTypes DEF StateInv
    <3>4. Required + Redundancy + extra >= Cardinality(Provider)
      BY <2>4, <3>2, <3>3, NumberTypes DEF Enough
    <3>5. Cardinality(plan) = Cardinality(Provider)
      BY <3>2, <3>3, <3>4, NumberTypes DEF Wanted
    <3>6. plan = Provider
      BY <2>1, <3>5, FetchAssumption, FS_Subset DEF StateInv
    <3>7. Accepts(r)
      BY <2>4, <3>6, EveryoneIsEnough DEF Enough
    <3>8. QED
      BY <2>4, <3>7 DEF GiveUp
  <2>5. ASSUME NEW r \in Responses(plan), GiveUp(r) PROVE PlainQuorumWins'
    <3>1. phase' = "failed"
      BY <2>5 DEF GiveUp, Return
    <3>2. QED
      BY <2>4, <2>5, <3>1 DEF PlainQuorumWins, Enough
  <2>6. ASSUME NEW r \in Responses(plan), NEW p \in plan, Raise(r, p) PROVE PlainQuorumWins'
    BY <2>6, RaisersAreFaulty DEF PlainQuorumWins
  <2>7. CASE UNCHANGED vars
    BY <2>1, <2>7 DEF vars, PlainQuorumWins
  <2>8. QED
    BY <2>1, <2>2, <2>3, <2>5, <2>6, <2>7 DEF Next, Attempt
<1>3. QED
  BY <1>1, <1>2, StateIsInvariant, PTL DEF Spec
-----------------------------------------------------------------------------
(* A fetch that is tuned *)

\* A provider without a success has failed without a break.
Unbroken(t) == t.successes = 0 => t.streak >= t.attempts

\* What booking at least n packets does to the counters of a provider.
Aged(t, n, u) ==
  /\ AddsUp(u)
  /\ u.attempts >= t.attempts + n
  /\ u.successes >= t.successes
  /\ Unbroken(t) => Unbroken(u)

LEMMA FailedAges ==
  ASSUME NEW t, AddsUp(t), NEW reason \in {"proof", "stale", "other"}
  PROVE  Aged(t, 1, Failed(t, reason))
<1> DEFINE u == Failed(t, reason)
<1>1. FailureOf(t, reason, u) /\ AddsUp(u)
  BY FailedIsFailure, FailedAddsUp DEF AddsUp
<1>2. /\ t.attempts \in Nat /\ t.successes \in Nat /\ t.streak \in Nat
      /\ u.attempts = t.attempts + 1 /\ u.successes = t.successes /\ u.streak = t.streak + 1
  BY <1>1 DEF FailureOf, AddsUp, Tally
<1> HIDE DEF u
<1>3. Aged(t, 1, u)
  BY <1>1, <1>2 DEF Aged, Unbroken
<1>4. QED
  BY <1>3 DEF u

LEMMA SucceededAges ==
  ASSUME NEW t, AddsUp(t)
  PROVE  Aged(t, 1, Succeeded(t))
<1> DEFINE u == Succeeded(t)
<1>1. t \in Tally /\ t.attempts \in Nat /\ t.successes \in Nat /\ AddsUp(u)
  BY SucceededAddsUp DEF AddsUp, Tally
<1>2. PICK a \in Nat, s \in Nat : a = t.attempts + 1 /\ s = t.successes + 1
  BY <1>1
<1>3. u = [t EXCEPT !.attempts = a, !.successes = s, !.streak = 0]
  BY <1>1, <1>2 DEF Succeeded, Tally
<1> HIDE DEF u
<1>4. u.attempts = a /\ u.successes = s
  BY <1>1, <1>3 DEF Tally
<1>5. Aged(t, 1, u)
  BY <1>1, <1>2, <1>4 DEF Aged, Unbroken
<1>6. QED
  BY <1>5 DEF u

LEMMA BookedAges ==
  ASSUME NEW t, AddsUp(t), NEW k \in Sent
  PROVE  Aged(t, 1, Booked(t, k))
<1>1. k.root \in BOOLEAN /\ k.fresh \in BOOLEAN
  BY SentIsClassified
<1>2. Booked(t, k) \in {Failed(t, "other"), Failed(t, "stale"), Failed(t, "proof"), Succeeded(t)}
  BY <1>1, Zenon DEF Booked
<1>3. QED
  BY <1>2, FailedAges, SucceededAges

LEMMA AgedAdds ==
  ASSUME NEW t, AddsUp(t), NEW n \in Nat, NEW u, Aged(t, n, u), NEW v, Aged(u, 1, v)
  PROVE  Aged(t, n + 1, v)
<1>1. /\ t.attempts \in Nat /\ t.successes \in Nat /\ u.attempts \in Nat /\ u.successes \in Nat
      /\ v.attempts \in Nat /\ v.successes \in Nat
  BY DEF Aged, AddsUp, Tally
<1>2. /\ u.attempts >= t.attempts + n /\ u.successes >= t.successes
      /\ v.attempts >= u.attempts + 1 /\ v.successes >= u.successes
      /\ AddsUp(v) /\ (Unbroken(t) => Unbroken(u)) /\ (Unbroken(u) => Unbroken(v))
  BY DEF Aged
<1>3. v.attempts >= t.attempts + (n + 1) /\ v.successes >= t.successes
  BY <1>1, <1>2
<1>4. QED
  BY <1>2, <1>3 DEF Aged

\* An answer is booked packet by packet: as many attempts as it has packets.
LEMMA BookedFirstAges ==
  ASSUME NEW t, AddsUp(t), NEW s \in Seq(Sent)
  PROVE  \A n \in Nat : n <= Len(s) => Aged(t, n, BookedFirst[<<<<t, s>>, n>>])
<1> DEFINE S == {n \in Nat : n <= Len(s) => Aged(t, n, BookedFirst[<<<<t, s>>, n>>])}
<1>1. t \in Tally /\ Len(s) \in Nat /\ t.attempts \in Nat /\ t.successes \in Nat
  BY LenProperties DEF AddsUp, Tally
<1>2. 0 \in S
  <2>1. BookedFirst[<<<<t, s>>, 0>>] = t
    BY <1>1, BookedFirstEquation
  <2>2. Aged(t, 0, t)
    BY <1>1 DEF Aged
  <2>3. QED
    BY <2>1, <2>2
<1>3. ASSUME NEW n \in Nat, n \in S PROVE n + 1 \in S
  <2>1. SUFFICES ASSUME n + 1 <= Len(s) PROVE Aged(t, n + 1, BookedFirst[<<<<t, s>>, n + 1>>])
    OBVIOUS
  <2>2. Aged(t, n, BookedFirst[<<<<t, s>>, n>>]) /\ n + 1 \in 1..Len(s)
    BY <1>1, <1>3, <2>1
  <2>3. s[n + 1] \in Sent
    BY <2>2, ElementOfSeq
  <2>4. BookedFirst[<<<<t, s>>, n + 1>>] = Booked(BookedFirst[<<<<t, s>>, n>>], s[n + 1])
    <3>1. PICK m \in Nat : m = n + 1
      OBVIOUS
    <3>2. BookedFirst[<<<<t, s>>, m>>] =
            IF m = 0 THEN t ELSE Booked(BookedFirst[<<<<t, s>>, m - 1>>], s[m])
      BY <1>1, BookedFirstEquation
    <3>3. m # 0 /\ m - 1 = n
      BY <3>1
    <3>4. BookedFirst[<<<<t, s>>, m>>] = Booked(BookedFirst[<<<<t, s>>, n>>], s[m])
      BY <3>2, <3>3
    <3>5. QED
      BY <3>1, <3>4
  <2>5. AddsUp(BookedFirst[<<<<t, s>>, n>>])
    BY <2>2 DEF Aged
  <2>6. Aged(BookedFirst[<<<<t, s>>, n>>], 1, BookedFirst[<<<<t, s>>, n + 1>>])
    BY <2>3, <2>4, <2>5, BookedAges
  <2>7. QED
    BY <2>2, <2>6, AgedAdds
<1>4. Nat \subseteq S
  <2> HIDE DEF S
  <2> QED
    BY <1>2, <1>3, InductionUp
<1>5. QED
  BY <1>4

LEMMA BookedAllAges ==
  ASSUME NEW t, AddsUp(t), NEW s \in Seq(Sent)
  PROVE  Aged(t, Len(s), BookedAll(t, s))
<1>1. Len(s) \in Nat /\ Len(s) <= Len(s)
  BY LenProperties
<1>2. QED
  BY <1>1, BookedFirstAges DEF BookedAll

\* Every provider that was asked gets one attempt at least, an answer or none.
LEMMA AskedAges ==
  ASSUME NEW tr, TrackerOK(tr), NEW P \in SUBSET Provider, NEW r \in Responses(P),
         NEW p \in Provider
  PROVE  Aged(tr[p], IF p \in P THEN 1 ELSE 0, Recorded(tr, r)[p])
<1>1. /\ r \in [P -> Answer \cup {<<Good>>}] /\ DOMAIN r = P
  BY DEF Responses
<1>2. Recorded(tr, r)[p] = IF p \notin P THEN tr[p]
                           ELSE IF r[p] = <<>> THEN Failed(tr[p], "other")
                           ELSE BookedAll(tr[p], r[p])
  BY <1>1 DEF Recorded
<1>3. AddsUp(tr[p]) /\ tr[p].attempts \in Nat /\ tr[p].successes \in Nat
  BY DEF TrackerOK, AddsUp, Tally
<1>4. CASE p \notin P
  <2>1. Aged(tr[p], 0, tr[p])
    BY <1>3 DEF Aged
  <2>2. QED
    BY <1>2, <1>4, <2>1
<1>5. CASE p \in P /\ r[p] = <<>>
  <2>1. Aged(tr[p], 1, Failed(tr[p], "other"))
    BY <1>3, FailedAges
  <2>2. QED
    BY <1>2, <1>5, <2>1
<1>6. CASE p \in P /\ r[p] # <<>>
  <2>1. r[p] \in Seq(Sent)
    BY <1>1, <1>6, AnswersAreSent
  <2>2. Len(r[p]) \in Nat /\ Len(r[p]) >= 1
    BY <1>6, <2>1, LenProperties, EmptySeq
  <2>3. Aged(tr[p], Len(r[p]), BookedAll(tr[p], r[p]))
    BY <1>3, <2>1, BookedAllAges
  <2> DEFINE u == BookedAll(tr[p], r[p])
  <2>4. Recorded(tr, r)[p] = u
    BY <1>2, <1>6
  <2>5. Aged(tr[p], Len(r[p]), u)
    BY <2>3
  <2> HIDE DEF u
  <2>6. u.attempts \in Nat
    BY <2>5 DEF Aged, AddsUp, Tally
  <2>7. u.attempts >= tr[p].attempts + 1
    BY <1>3, <2>2, <2>5, <2>6 DEF Aged
  <2>8. Aged(tr[p], 1, u)
    BY <2>5, <2>7 DEF Aged
  <2>9. QED
    BY <1>6, <2>4, <2>8
<1>7. QED
  BY <1>4, <1>5, <1>6

\* So it is with a booking that is broken off.
LEMMA BrokenOffAges ==
  ASSUME NEW tr, TrackerOK(tr), NEW P \in SUBSET Provider, NEW r \in Responses(P),
         NEW p \in P, NEW m \in Booking(r, p), NEW q \in Provider, Unbroken(tr[q])
  PROVE  Unbroken(RecordedPartly(tr, r, m)[q])
<1>1. DOMAIN r = P
  BY DEF Responses
<1>2. CASE q \notin P
  BY <1>1, <1>2 DEF RecordedPartly
<1>3. CASE q \in P
  <2>1. RecordedPartly(tr, r, m)[q] = BookedFirst[<<<<tr[q], r[q]>>, m[q]>>]
    BY <1>1, <1>3 DEF RecordedPartly
  <2>2. AddsUp(tr[q])
    BY DEF TrackerOK
  <2>3. Aged(tr[q], m[q], BookedFirst[<<<<tr[q], r[q]>>, m[q]>>])
    BY <1>3, <2>2, BookingIsWithin, BookedFirstAges
  <2>4. QED
    BY <2>1, <2>3 DEF Aged
<1>4. QED
  BY <1>2, <1>3

\* No faulty provider was ever credited with a success.
Unfooled(tr) == \A p \in Provider \ Honest : tr[p].successes = 0

\* As long as no faulty provider has a success, one of them is in the plan and has
\* failed each attempt of the fetch: from the attempt that makes StreakThreshold of
\* them, every one widens the plan.
TunedInv ==
  /\ \A p \in Provider : Unbroken(stats[p])
  /\ phase = "trying" /\ adaptive /\ Unfooled(stats) /\ Cardinality(Honest) >= Required =>
       /\ extra >= attempt + 1 - StreakThreshold
       /\ attempt > 0 => \E p \in plan \ Honest : stats[p].attempts >= attempt

LEMMA UnfooledBefore ==
  ASSUME StateInv, NEW r \in Responses(plan), stats' = Recorded(stats, r), Unfooled(stats')
  PROVE  Unfooled(stats)
<1>1. SUFFICES ASSUME NEW p \in Provider \ Honest PROVE stats[p].successes = 0
  BY DEF Unfooled
<1>2. TrackerOK(stats) /\ TrackerOK(stats') /\ plan \subseteq Provider
  BY RecordedKeeps DEF StateInv
<1>3. stats[p].successes \in Nat /\ stats'[p].successes \in Nat
  BY <1>2 DEF TrackerOK, Tally
<1>4. stats'[p].successes >= stats[p].successes
  BY <1>2, AskedAges DEF Aged
<1>5. QED
  BY <1>3, <1>4 DEF Unfooled

\* A plan that asks only honest providers succeeds.
LEMMA HonestPlanAccepts ==
  ASSUME StateInv, phase = "trying", plan \subseteq Honest, NEW r \in Responses(plan)
  PROVE  Accepts(r)
<1>1. plan \subseteq Provider /\ Cardinality(plan) = Wanted(extra) /\ extra \in Nat
  BY NumberTypes DEF StateInv
<1>2. Cardinality(plan) >= Required
  BY <1>1, FetchAssumption, NumberTypes DEF Wanted
<1>3. plan \cap Honest = plan
  OBVIOUS
<1>4. QED
  BY <1>1, <1>2, <1>3, HonestAreEnough

LEMMA StreakWidens ==
  ASSUME NEW tr, NEW P, NEW x \in Nat, adaptive, Streak(tr, P)
  PROVE  Widened(tr, P, x) >= x + 1
<1> DEFINE u == IF Unreliable(tr, P) THEN 1 ELSE 0
<1>1. u \in {0, 1} /\ Widened(tr, P, x) = x + u + 1
  BY DEF Widened
<1> HIDE DEF u
<1>2. QED
  BY <1>1

\* A round of a tuned fetch that no faulty provider is credited for.
LEMMA RoundOfTuned ==
  ASSUME StateInv, TunedInv, NEW r \in Responses(plan), Retry(r), adaptive, Unfooled(stats'),
         Cardinality(Honest) >= Required
  PROVE  /\ extra' >= attempt' + 1 - StreakThreshold
         /\ \E p \in plan' \ Honest : stats'[p].attempts >= attempt'
<1>1. /\ phase = "trying" /\ ~ Accepts(r) /\ attempt' = attempt + 1 /\ stats' = Recorded(stats, r)
      /\ extra' = Widened(stats', plan, extra) /\ plan \subseteq plan'
  BY DEF Retry, Selections
<1>2. attempt \in Nat /\ extra \in Nat /\ adaptive \in BOOLEAN /\ StreakThreshold \in Nat \ {0}
  BY NumberTypes, FetchAssumption DEF StateInv
<1>3. /\ extra >= attempt + 1 - StreakThreshold
      /\ attempt > 0 => \E p \in plan \ Honest : stats[p].attempts >= attempt
  BY <1>1, UnfooledBefore DEF TunedInv
<1>4. TrackerOK(stats) /\ TrackerOK(stats') /\ plan \subseteq Provider
  BY <1>1, RecordedKeeps DEF StateInv
<1>5. PICK p \in plan \ Honest : stats[p].attempts >= attempt
  <2>1. CASE attempt > 0
    BY <1>3, <2>1
  <2>2. CASE attempt = 0
    <3>1. PICK p \in plan \ Honest : TRUE
      BY <1>1, HonestPlanAccepts
    <3>2. stats[p].attempts \in Nat
      BY <1>4 DEF TrackerOK, Tally
    <3>3. QED
      BY <2>2, <3>1, <3>2
  <2>3. QED
    BY <1>2, <2>1, <2>2
<1>6. /\ p \in Provider /\ p \in plan' \ Honest
      /\ stats[p].attempts \in Nat /\ stats'[p].attempts \in Nat /\ stats'[p].streak \in Nat
  BY <1>1, <1>4 DEF TrackerOK, Tally
<1>7. Aged(stats[p], 1, stats'[p])
  BY <1>1, <1>4, <1>5, AskedAges
<1>8. stats'[p].attempts >= attempt'
  BY <1>1, <1>2, <1>5, <1>6, <1>7 DEF Aged
<1>9. stats'[p].streak >= stats'[p].attempts
  BY <1>6, <1>7 DEF Aged, TunedInv, Unbroken, Unfooled
<1>10. extra' >= attempt' + 1 - StreakThreshold
  <2>1. CASE attempt' >= StreakThreshold
    <3>1. stats'[p].streak >= StreakThreshold
      BY <1>1, <1>2, <1>6, <1>8, <1>9, <2>1
    <3>2. extra' >= extra + 1
      <4>1. Streak(stats', plan)
        BY <3>1 DEF Streak
      <4>2. QED
        BY <1>1, <1>2, <4>1, StreakWidens
    <3>3. extra' \in Nat
      BY <1>1, <1>2, WidenedBounds
    <3>4. QED
      BY <1>1, <1>2, <1>3, <3>2, <3>3
  <2>2. CASE attempt' < StreakThreshold
    <3>1. extra' \in Nat
      BY <1>1, <1>2, WidenedBounds
    <3>2. QED
      BY <1>1, <1>2, <2>2, <3>1
  <2>3. QED
    BY <1>1, <1>2, <2>1, <2>2
<1>11. QED
  BY <1>6, <1>8, <1>10

LEMMA TunedKeeps ==
  ASSUME StateInv, TunedInv, [Next]_vars
  PROVE  TunedInv'
<1>1. CASE Start
  <2>1. attempt' = 0 /\ extra' = 0 /\ stats' = stats
    BY <1>1 DEF Start, StateInv
  <2>2. extra' >= attempt' + 1 - StreakThreshold
    BY <2>1, FetchAssumption
  <2>3. QED
    BY <2>1, <2>2 DEF TunedInv
<1>2. ASSUME NEW r \in Responses(plan), Accept(r) PROVE TunedInv'
  BY <1>2 DEF Accept, Return, TunedInv
<1>3. ASSUME NEW r \in Responses(plan), stats' = Recorded(stats, r)
      PROVE  \A p \in Provider : Unbroken(stats'[p])
  BY <1>3, AskedAges DEF StateInv, TunedInv, Aged
<1>4. ASSUME NEW r \in Responses(plan), Retry(r) PROVE TunedInv'
  <2>1. stats' = Recorded(stats, r) /\ adaptive' = adaptive
    BY <1>4 DEF Retry
  <2>2. \A p \in Provider : Unbroken(stats'[p])
    BY <1>3, <2>1
  <2>3. adaptive' /\ Unfooled(stats') /\ Cardinality(Honest) >= Required =>
          /\ extra' >= attempt' + 1 - StreakThreshold
          /\ \E p \in plan' \ Honest : stats'[p].attempts >= attempt'
    BY <1>4, <2>1, RoundOfTuned
  <2>4. QED
    BY <2>2, <2>3 DEF TunedInv, Unfooled
<1>5. ASSUME NEW r \in Responses(plan), GiveUp(r) PROVE TunedInv'
  <2>1. stats' = Recorded(stats, r) /\ phase' = "failed"
    BY <1>5 DEF GiveUp, Return
  <2>2. QED
    BY <1>3, <2>1 DEF TunedInv
<1>6. ASSUME NEW r \in Responses(plan), NEW p \in plan, Raise(r, p) PROVE TunedInv'
  <2>1. phase' = "raised"
    BY <1>6 DEF Raise, Return
  <2>2. \/ stats' = stats
        \/ \E m \in Booking(r, p) : stats' = RecordedPartly(stats, r, m)
    BY <1>6 DEF Raise
  <2>3. TrackerOK(stats) /\ plan \subseteq Provider /\ \A q \in Provider : Unbroken(stats[q])
    BY DEF StateInv, TunedInv
  <2>4. \A q \in Provider : Unbroken(stats'[q])
    BY <2>2, <2>3, BrokenOffAges
  <2>5. QED
    BY <2>1, <2>4 DEF TunedInv
<1>7. CASE UNCHANGED vars
  BY <1>7 DEF vars, TunedInv, Unfooled
<1>8. QED
  BY <1>1, <1>2, <1>4, <1>5, <1>6, <1>7 DEF Next, Attempt

\* The last attempt of a fetch that no faulty provider is credited in asks everyone.
LEMMA LastAsksEveryone ==
  ASSUME StateInv, TunedInv, NEW r \in Responses(plan), GiveUp(r), adaptive => Unfooled(stats'),
         Cardinality(Honest) >= Required,
         Required + Redundancy + MaxAttempts - StreakThreshold >= Cardinality(Provider)
  PROVE  FALSE
<1>1. /\ phase = "trying" /\ ~ Accepts(r) /\ attempt + 1 = MaxAttempts
      /\ stats' = Recorded(stats, r)
  BY DEF GiveUp
<1>2. /\ attempt \in Nat /\ extra \in Nat /\ adaptive \in BOOLEAN /\ plan \subseteq Provider
      /\ Cardinality(plan) = Wanted(extra) /\ (~ adaptive => extra = attempt)
      /\ StreakThreshold \in Nat \ {0}
  BY <1>1, NumberTypes, FetchAssumption DEF StateInv
<1>3. extra >= attempt + 1 - StreakThreshold
  <2>1. CASE adaptive
    BY <1>1, <2>1, UnfooledBefore DEF TunedInv
  <2>2. CASE ~ adaptive
    BY <1>2, <2>2
  <2>3. QED
    BY <1>2, <2>1, <2>2
<1>4. Cardinality(plan) = Cardinality(Provider)
  BY <1>1, <1>2, <1>3, NumberTypes DEF Wanted
<1>5. plan = Provider
  BY <1>2, <1>4, FetchAssumption, FS_Subset
<1>6. Accepts(r)
  BY <1>5, EveryoneIsEnough
<1>7. QED
  BY <1>1, <1>6

\* For every number of providers, quorum, rate and answers: with Required honest
\* providers and attempts enough to ask everyone once StreakThreshold failures in a
\* row widen the plan, a fetch fails only if it is tuned and the tracker credits a
\* faulty provider with a success, and raises only at a faulty one's packet
\* (tune_policy_from_reliability, simulate_epoch_fetch_with_fallback).
THEOREM HonestQuorumIsReached ==
  ASSUME Required + Redundancy + MaxAttempts - StreakThreshold >= Cardinality(Provider)
  PROVE  Spec => []HonestQuorumWins
<1>1. Init => TunedInv /\ HonestQuorumWins
  <2>1. SUFFICES ASSUME Init PROVE TunedInv
    BY DEF Init, HonestQuorumWins
  <2>2. \A p \in Provider : stats[p] = Unused
    BY <2>1 DEF Init
  <2>3. Unbroken(Unused)
    BY DEF Unbroken, Unused
  <2>4. QED
    BY <2>1, <2>2, <2>3 DEF Init, TunedInv
<1>2. StateInv /\ TunedInv /\ HonestQuorumWins /\ [Next]_vars => TunedInv' /\ HonestQuorumWins'
  <2>1. SUFFICES ASSUME StateInv, TunedInv, HonestQuorumWins, [Next]_vars PROVE HonestQuorumWins'
    BY TunedKeeps
  <2>2. CASE Start
    BY <2>2 DEF Start, HonestQuorumWins
  <2>3. ASSUME NEW r \in Responses(plan), Accept(r) \/ Retry(r) PROVE HonestQuorumWins'
    <3>1. phase' \notin {"failed", "raised"}
      BY <2>3 DEF Accept, Retry, Return
    <3>2. QED
      BY <3>1 DEF HonestQuorumWins
  <2>4. ASSUME NEW r \in Responses(plan), GiveUp(r) PROVE HonestQuorumWins'
    <3>1. SUFFICES ASSUME Cardinality(Honest) >= Required,
                          ~ (adaptive /\ \E p \in Provider \ Honest : stats'[p].successes > 0)
                   PROVE  FALSE
      BY <2>4 DEF GiveUp, Return, HonestQuorumWins
    <3>2. adaptive => Unfooled(stats')
      <4>1. SUFFICES ASSUME adaptive, NEW p \in Provider \ Honest PROVE stats'[p].successes = 0
        BY DEF Unfooled
      <4>2. TrackerOK(stats')
        BY <2>1, <2>4, RecordedKeeps DEF StateInv, GiveUp
      <4>3. stats'[p].successes \in Nat
        BY <4>2 DEF TrackerOK, Tally
      <4>4. QED
        BY <3>1, <4>1, <4>3
    <3>3. QED
      BY <2>1, <2>4, <3>1, <3>2, LastAsksEveryone
  <2>5. ASSUME NEW r \in Responses(plan), NEW p \in plan, Raise(r, p) PROVE HonestQuorumWins'
    BY <2>5, RaisersAreFaulty DEF HonestQuorumWins
  <2>6. CASE UNCHANGED vars
    BY <2>1, <2>6 DEF vars, HonestQuorumWins
  <2>7. QED
    BY <2>1, <2>2, <2>3, <2>4, <2>5, <2>6 DEF Next, Attempt
<1>3. QED
  BY <1>1, <1>2, StateIsInvariant, PTL DEF Spec
=============================================================================
