----------------------------- MODULE VerifiedRpc -----------------------------
(***************************************************************************)
(* The answers of pbt/verified_rpc.py: how a payload is taken apart, which *)
(* of its statements are compared with which, and what is verified, for    *)
(* eth_getVerifiedProof and eth_getStemWitness and their two aliases.      *)
(*                                                                         *)
(* A block root is represented by the leaves it commits to (Merkle.tla),   *)
(* one a stem, so that a key is its stem.  Hex, lengths and numbers that   *)
(* do not parse are malformed.                                             *)
(***************************************************************************)
EXTENDS Naturals

CONSTANTS Stem, Value

VARIABLE received  \* a payload, the reader it is given to and the root it expects

NoRoot   == <<>>  \* expected_state_root is None
Error    == [error |-> TRUE]
Nothing  == [reader |-> "none"]
Short    == "short"  \* a key of fewer than two bytes

Root == [Stem -> Value]

\* A proof leads from a value of a key to one root.
Proof(key, value, root) == [key |-> key, value |-> value, root |-> root]
VerifyProof(root, pf)   == pf.key # Short /\ pf.root = root /\ pf.value = root[pf.key]

-----------------------------------------------------------------------------
(* Requests and answers *)

\* getVerifiedState and getStemProof are other names of these two.
Original(method) ==
  IF method \in {"getVerifiedProof", "getVerifiedState"} THEN "getVerifiedProof" ELSE "getStemWitness"

\* make_eth_getVerifiedProof_result and make_eth_getStemWitness_result, or the
\* results of their aliases, in a response: the state a provider has at a root.
\* A packet in a witness has the block and the proof once more, and the stem prefix.
Response(method, root, key) ==
  LET stated == [number |-> 1, root |-> root, key |-> key, prefix |-> key, value |-> root[key]]
  IN  [envelope |-> "success", method |-> method, version |-> "v1", malformed |-> FALSE,
       block |-> [number |-> 1, root |-> root], stated |-> stated,
       proof |-> Proof(key, root[key], root)]

\* The envelopes a response can come in: none, a result, or what is refused.
Envelopes == {"none", "success", "error", "result and error", "old version", "odd id", "no result"}

-----------------------------------------------------------------------------
(* Readers *)

\* _extract_result_object
Extract(payload, method) ==
  IF payload.envelope \in {"none", "success"} /\ payload.method = method
  THEN payload ELSE Error

\* parse_eth_getVerifiedProof_result
ParseProof(payload) ==
  LET r == Extract(payload, "getVerifiedProof")
  IN  IF r # Error /\ r.version = "v1" /\ ~ r.malformed
         /\ r.proof.key = r.stated.key /\ r.proof.value = r.stated.value
      THEN r ELSE Error

\* parse_eth_getStemWitness_result, with the decoder of the packet (Wire.tla)
ParseWitness(payload) ==
  LET r == Extract(payload, "getStemWitness")
  IN  IF r # Error /\ r.version = "v1" /\ ~ r.malformed
         /\ r.proof.key = r.stated.key /\ r.proof.value = r.stated.value
         /\ r.stated.number = r.block.number /\ r.stated.root = r.block.root
      THEN r ELSE Error

Parse(method, payload) ==
  IF method = "getVerifiedProof" THEN ParseProof(payload) ELSE ParseWitness(payload)

\* parse_eth_getVerifiedState_result, parse_eth_getStemProof_result: the method of
\* the result, whatever it was, becomes the one the reader expects.
ParseAlias(method, payload) ==
  Parse(method, IF payload.envelope = "no result" THEN payload
                ELSE [payload EXCEPT !.method = method])

\* The reader of a method.
Read(reader, payload) ==
  IF reader = Original(reader) THEN Parse(reader, payload)
  ELSE ParseAlias(Original(reader), payload)

\* verify_proof, and for a witness verify_witness_packet with its comparison of the
\* prefix.  A short key raises ValueError out of either.
VerifyParsed(method, parsed) ==
  /\ method = "getStemWitness" => parsed.stated.prefix = parsed.stated.key
  /\ VerifyProof(parsed.block.root, parsed.proof)

\* Mutant: the root the proof is checked against is the one it came with.
VerifyUntrusted(reader, parsed, expected) == parsed # Error /\ VerifyParsed(Original(reader), parsed)

\* verify_eth_getVerifiedProof_result, verify_eth_getStemWitness_result
Verify(reader, parsed, expected) ==
  /\ parsed # Error
  /\ expected # NoRoot => parsed.block.root = expected
  /\ VerifyParsed(Original(reader), parsed)

-----------------------------------------------------------------------------
(* What may arrive: a response of some block, or one with one thing wrong *)

Methods == {"getVerifiedProof", "getStemWitness", "getVerifiedState", "getStemProof"}

Damaged(p) ==
       {[p EXCEPT !.envelope = e] : e \in Envelopes}
  \cup {[p EXCEPT !.method = m] : m \in Methods}
  \cup {[p EXCEPT !.version = "v2"], [p EXCEPT !.malformed = TRUE], [p EXCEPT !.block.number = 2]}
  \cup {[p EXCEPT !.block.root = r] : r \in Root}
  \cup {[p EXCEPT !.stated.root = r] : r \in Root}
  \cup {[p EXCEPT !.stated.value = v] : v \in Value}
  \cup {[p EXCEPT !.stated.value = v, !.proof.value = v] : v \in Value}
  \cup {[p EXCEPT !.stated.key = k] : k \in Stem \cup {Short}}
  \cup {[p EXCEPT !.stated.prefix = k] : k \in Stem}
  \cup {[p EXCEPT !.stated.key = k, !.proof.key = k] : k \in Stem \cup {Short}}
  \cup {[p EXCEPT !.proof.key = k] : k \in Stem}
  \cup {[p EXCEPT !.proof.root = r] : r \in Root}

Payloads == UNION {Damaged(Response(m, r, k)) : m \in Methods, r \in Root, k \in Stem}

RpcInit ==
  received \in {Nothing} \cup [reader : Methods, payload : Payloads, expected : Root \cup {NoRoot}]

-----------------------------------------------------------------------------

\* An answer that is accepted for an expected root states what that root holds
\* for the key it names, and a witness has the key's stem for its prefix; one that
\* is checked against no root is still true of the root it names.  No field can be
\* exchanged for one of another block, key or answer.  (That the key is the one
\* that was asked for is left to the caller: an answer does not say which request
\* it is for.)
AnswerIsTrue ==
  received # Nothing =>
    LET r == Read(received.reader, received.payload)
    IN  Verify(received.reader, r, received.expected) =>
          /\ r.stated.key # Short /\ r.stated.value = r.block.root[r.stated.key]
          /\ Original(received.reader) = "getStemWitness" => r.stated.prefix = r.stated.key
          /\ received.expected # NoRoot => r.block.root = received.expected
=============================================================================
