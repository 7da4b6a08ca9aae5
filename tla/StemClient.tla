----------------------------- MODULE StemClient -----------------------------
(***************************************************************************)
(* The partially stateless wallet client of pbt/stem_subscription.py       *)
(* (PartiallyStatelessStemClient): it verifies witness packets against the *)
(* block root it trusts, keeps the leaves of the last few stems it used,   *)
(* and rotates the root from block to block.                               *)
(*                                                                         *)
(* A block root commits to all leaves (Merkle.tla), so it is represented   *)
(* by them: what each stem holds (a stem the block lacks proves nothing).  *)
(* Packets come from distributors, in any order, any number of times, for  *)
(* any block, and whatever they say.                                       *)
(***************************************************************************)
EXTENDS Integers, Sequences, SequencesExt

CONSTANTS
  Stem,
  Sub,         \* the subindices of a stem
  Value,
  Contents,    \* what stems hold, subindex by subindex
  Sent,        \* the packets that may arrive
  MaxCached,   \* max_cached_stems
  MaxReads     \* bound on cache_hits + cache_misses

\* Short: a key of fewer than two bytes, which split_key refuses.
LeafKey == Stem \X Sub
Short   == <<>>

\* A proof carries all leaves of the stem and the siblings and bits of a path.
Root   == [Stem -> Contents]
Path   == [block : Root, stem : Stem]
Proof  == [key : LeafKey \cup {Short}, value : Value,
           stemValues : [Sub -> Value] \cup {<<>>}, path : Path]
Packet == [root : Root, stemPrefix : Stem, key : LeafKey \cup {Short}, value : Value, proof : Proof]
Entry  == [stem : Stem, values : Contents]

ASSUME ClientAssumption ==
  /\ MaxCached \in Nat \ {0} /\ MaxReads \in Nat
  /\ Contents \subseteq [Sub -> Value] /\ Sent \subseteq Packet

VARIABLES
  trusted,   \* verified_block_root
  cache,     \* _stem_cache, from the least to the most recently used stem
  hits,      \* cache_hits
  misses,    \* cache_misses
  used,      \* history: all stems used since the cache was cleared, latest last
  mixed      \* history: a root was set with clear_cache=False since then

client == <<trusted, cache, hits, misses>>
vars   == <<trusted, cache, hits, misses, used, mixed>>

Cached       == {cache[n].stem : n \in 1..Len(cache)}
Slot(s)      == CHOOSE n \in 1..Len(cache) : cache[n].stem = s
ValuesOf(s)  == cache[Slot(s)].values
Without(s)   == IF s \in Cached THEN RemoveAt(cache, Slot(s)) ELSE cache
Moved(seq, s) ==
  Append(IF s \in ToSet(seq) THEN RemoveAt(seq, CHOOSE n \in 1..Len(seq) : seq[n] = s) ELSE seq, s)

-----------------------------------------------------------------------------
(* Packets *)

\* A distributor's packet of a key in a block, with the proof of get_proof.
HonestPacket(r, key) ==
  LET value == r[key[1]][key[2]]
  IN  [root |-> r, stemPrefix |-> key[1], key |-> key, value |-> value,
       proof |-> [key |-> key, value |-> value, stemValues |-> r[key[1]],
                  path |-> [block |-> r, stem |-> key[1]]]]

\* Packets made of two honest ones, of one block or of one key: some fields of the
\* second in place of the first one's, or a key or leaves cut short.
Spliced(p, q, fields, inProof) ==
  LET Of(f)      == IF f \in fields THEN q[f] ELSE p[f]
      ProofOf(f) == IF f \in inProof THEN q.proof[f] ELSE p.proof[f]
  IN  [root |-> Of("root"), stemPrefix |-> Of("stemPrefix"), key |-> Of("key"), value |-> Of("value"),
       proof |-> [key |-> ProofOf("key"), value |-> ProofOf("value"),
                  stemValues |-> ProofOf("stemValues"), path |-> ProofOf("path")]]
MadeOfTwo(swaps) ==
  LET Honest == {HonestPacket(r, k) : r \in Root, k \in LeafKey}
      Twin(p) == {q \in Honest : q.root = p.root \/ q.key = p.key}
  IN  UNION {{Spliced(p, q, w[1], w[2]) : q \in Twin(p), w \in swaps} \cup
             {[p EXCEPT !.key = Short], [p EXCEPT !.proof.key = Short],
              [p EXCEPT !.key = Short, !.proof.key = Short], [p EXCEPT !.proof.stemValues = <<>>]} :
             p \in Honest}

\* One field swapped, or fields together that a check compares.
OneSwap == {<<{f}, {}>> : f \in {"root", "stemPrefix", "key", "value"}} \cup
           {<<{}, {g}>> : g \in {"key", "value", "stemValues", "path"}}
TiedSwaps ==
  {<<{"stemPrefix", "key"}, {}>>, <<{"stemPrefix", "key"}, {"key"}>>, <<{"key"}, {"key"}>>,
   <<{"value"}, {"value"}>>, <<{}, {"value", "stemValues"}>>, <<{"value"}, {"value", "stemValues"}>>,
   <<{}, {"stemValues", "path"}>>, <<{"root"}, {"path"}>>}

\* A path leads to the root of the tree it is from, with these leaves in its stem's
\* place; one of another stem leads nowhere.
VerifyProof(root, pf) ==
  /\ DOMAIN pf.stemValues = Sub
  /\ pf.stemValues[pf.key[2]] = pf.value
  /\ pf.path.stem = pf.key[1]
  /\ root = [pf.path.block EXCEPT ![pf.key[1]] = pf.stemValues]

\* Mutant: the prefix is not compared with the key's.
VerifyAnyPrefix(p) ==
  p.key # Short /\ p.proof.key = p.key /\ p.proof.value = p.value /\ VerifyProof(p.root, p.proof)

\* A short key raises ValueError here, which leaves the client as it was.
VerifyWitnessPacket(p) ==
  /\ p.key # Short
  /\ p.stemPrefix = p.key[1]
  /\ p.proof.key = p.key
  /\ p.proof.value = p.value
  /\ VerifyProof(p.root, p.proof)

VerifyPacket(p) == p.root = trusted /\ VerifyWitnessPacket(p)

-----------------------------------------------------------------------------
(* Operations *)

Init ==
  /\ trusted \in Root
  /\ cache = <<>>
  /\ hits = 0 /\ misses = 0
  /\ used = <<>>
  /\ mixed = FALSE

\* Mutant: the size is compared as it was before the new stem.
EvictedLate(c) == IF Len(c) > MaxCached + 1 THEN Tail(c) ELSE c

\* Enforce max_cached_stems.
Evicted(c) == IF Len(c) > MaxCached THEN Tail(c) ELSE c

VerifyAndCachePacket(p) ==
  /\ VerifyPacket(p)
  /\ cache' = Evicted(Append(Without(p.stemPrefix),
                             [stem |-> p.stemPrefix, values |-> p.proof.stemValues]))
  /\ used' = Moved(used, p.stemPrefix)
  /\ UNCHANGED <<trusted, hits, misses, mixed>>

\* Mutant: reading does not refresh recency.
HitStays(s) ==
  /\ s \in Cached
  /\ hits + misses < MaxReads
  /\ hits' = hits + 1
  /\ used' = Moved(used, s)
  /\ UNCHANGED <<trusted, cache, misses, mixed>>

\* cached_value for a key of a cached stem answers from its values and marks the stem
\* as recent.
Hit(s) ==
  /\ s \in Cached
  /\ hits + misses < MaxReads
  /\ hits' = hits + 1
  /\ cache' = Append(Without(s), [stem |-> s, values |-> ValuesOf(s)])
  /\ used' = Moved(used, s)
  /\ UNCHANGED <<trusted, misses, mixed>>

Miss(s) ==
  /\ s \notin Cached
  /\ hits + misses < MaxReads
  /\ misses' = misses + 1
  /\ UNCHANGED <<trusted, cache, hits, used, mixed>>

ClearCache ==
  /\ cache' = <<>>
  /\ used' = <<>>
  /\ mixed' = FALSE
  /\ UNCHANGED <<trusted, hits, misses>>

SetVerifiedBlockRoot(r, clear) ==
  /\ trusted' = r
  /\ cache' = IF clear THEN <<>> ELSE cache
  /\ used'  = IF clear THEN <<>> ELSE used
  /\ mixed' = (~ clear /\ (mixed \/ (cache # <<>> /\ r # trusted)))
  /\ UNCHANGED <<hits, misses>>

Next ==
  \/ \E p \in Sent : VerifyAndCachePacket(p)
  \/ \E s \in Stem : Hit(s) \/ Miss(s)
  \/ ClearCache
  \/ \E r \in Root, clear \in BOOLEAN : SetVerifiedBlockRoot(r, clear)

Spec == Init /\ [][Next]_vars

-----------------------------------------------------------------------------
(* Properties *)

\* The cache holds at most MaxCached stems, none of them twice.
ClientTypeOK ==
  /\ trusted \in Root
  /\ cache \in Seq(Entry)
  /\ Len(cache) <= MaxCached
  /\ IsInjective([n \in 1..Len(cache) |-> cache[n].stem])
  /\ hits + misses <= MaxReads

\* What is accepted: a packet about a leaf, by its key and under the key's stem for
\* its prefix, with the value the leaf has under the trusted root.
AcceptedPacketIsTrue ==
  \A p \in Sent : VerifyPacket(p) =>
    /\ p.key \in LeafKey /\ p.stemPrefix = p.key[1]
    /\ p.value = trusted[p.key[1]][p.key[2]]

\* What is cached: as long as roots are rotated with clear_cache=True, all leaves
\* a stem has under the root that is trusted now.
CacheHoldsTrusted ==
  ~ mixed => \A n \in 1..Len(cache) : cache[n].values = trusted[cache[n].stem]

\* Whatever packet arrives late, twice, from another block or put together from
\* several: what the client accepts, and what cached_value answers for any leaf of
\* a cached stem, is what the root holds that is trusted now (verify_packet,
\* verify_witness_packet, verify_and_cache_packet).
CacheIsBlockScoped == AcceptedPacketIsTrue /\ CacheHoldsTrusted

\* Eviction is by recency: over any mix of packets, hits and misses the cache
\* holds exactly the MaxCached stems used last since it was cleared, in the
\* order of their use.
CacheIsMostRecent ==
  [n \in 1..Len(cache) |-> cache[n].stem] =
    SubSeq(used, Len(used) + 1 - (IF Len(used) < MaxCached THEN Len(used) ELSE MaxCached), Len(used))
=============================================================================
