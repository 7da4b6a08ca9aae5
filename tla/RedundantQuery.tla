--------------------------- MODULE RedundantQuery ---------------------------
(***************************************************************************)
(* The wallet's reads in pbt/wallet.py: a local check of one response      *)
(* (LocalVerificationPolicy), agreement between several providers          *)
(* (RedundantQueryEngine), and the choice of a private backend instead     *)
(* (PrivacyQueryService).  An engine keeps nothing between two queries.    *)
(***************************************************************************)
EXTENDS Naturals, Sequences, FiniteSets, SequencesExt, FiniteSetsExt

CONSTANTS
  HonestName,    \* providers that answer with the value under the trusted root
  LiarName,      \* providers that answer what they like
  MaxProviders,  \* bound on the list of providers
  MaxAgreement   \* bound on min_agreement

ASSUME QueryAssumption == MaxProviders \in Nat /\ MaxAgreement \in Nat

VARIABLE answers  \* the responses to a query, in the order of self.providers

Truth  == "true"
Values == {Truth, "false"}

\* A response: "good" is a proof that leads to the trusted root.  classify does
\* not ask whose proof it is: a good one may come with any value.  "short key" is
\* a proof whose key has fewer than two bytes, and "not sent" a query that raises.
Responses(name) ==
  IF name \in HonestName
  THEN {[provider |-> name, value |-> Truth, proof |-> "good"]}
  ELSE [provider : {name}, value : Values, proof : {"none", "bad", "good", "short key"}]
         \cup [provider : {name}, value : {Truth}, proof : {"not sent"}]

\* verify_proof splits the key of the proof before it compares anything.
Classify(r) ==
  CASE r.proof = "good"                    -> "verified"
    [] r.proof \in {"none", "bad"}         -> "unverified"
    [] r.proof \in {"short key", "not sent"} -> "raises"

\* Nothing in the loop catches: whoever raises ends the query, for all others too.
Raisers(rs) == {n \in 1..Len(rs) : Classify(rs[n]) = "raises"}

\* The names in the buckets: a name that is asked twice counts twice.
Agreeing(rs, value) ==
  {n \in 1..Len(rs) : Classify(rs[n]) = "verified" /\ rs[n].value = value}

\* Mutant: the first value in the buckets is taken.
FirstValue(rs) ==
  SelectSeq(rs, LAMBDA r : Classify(r) = "verified")[1].value

\* max over the buckets: among equals the one that was filled first.
Winner(rs) ==
  LET size(v)  == Cardinality(Agreeing(rs, v))
      first(v) == Min(Agreeing(rs, v))
  IN  CHOOSE v \in Values :
        /\ size(v) > 0
        /\ \A w \in Values \ {v} :
             size(w) < size(v) \/ (size(w) = size(v) /\ first(w) > first(v))

\* query_verified_value of an engine for these providers: a value, the error it
\* raises itself, or what a provider's answer makes it raise.
QueryVerifiedValue(rs, minAgreement) ==
  IF Raisers(rs) # {} THEN "raised"
  ELSE IF \A v \in Values : Agreeing(rs, v) = {} THEN "error"
  ELSE IF Cardinality(Agreeing(rs, Winner(rs))) < minAgreement THEN "error"
  ELSE Winner(rs)

\* query_balance and query_history: only the redundant mode verifies.
QueryBalance(mode, backend, rs, minAgreement) ==
  CASE mode = "redundant"                      -> QueryVerifiedValue(rs, minAgreement)
    [] mode # "redundant" /\ backend = "none"  -> "error"
    [] mode # "redundant" /\ backend # "none"  -> backend

-----------------------------------------------------------------------------

Response == UNION {Responses(p) : p \in HonestName \cup LiarName}
Answers  == UNION {[1..n -> Response] : n \in 2..MaxProviders}

\* A balance that is accepted and wrong takes min_agreement liars, and no fewer
\* liars than honest providers, whatever proofs they have.  Enough honest
\* providers in the majority get the true one through unless the query raises,
\* and for that one liar is enough: it raises exactly when a liar's answer does.
\* (A provider that is listed twice counts twice, among the liars too.)
WrongBalanceTakesQuorum ==
  \A agreement \in 2..MaxAgreement : answers # <<>> =>
    LET got    == QueryBalance("redundant", "none", answers, agreement)
        liars  == {n \in DOMAIN answers : answers[n].provider \in LiarName}
        honest == Len(answers) - Cardinality(liars)
    IN  /\ got \notin {Truth, "error", "raised"} =>
             Cardinality(liars) >= agreement /\ Cardinality(liars) >= honest
        /\ honest >= agreement /\ honest > Cardinality(liars) => got \in {Truth, "raised"}
        /\ got = "raised" <=> Raisers(answers) \cap liars # {}
=============================================================================
