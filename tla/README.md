# Verification of the partitioned binary state tree

TLA+ modules, TLC configurations and TLAPS proofs for this repository: the
Python reference implementation of a partitioned binary state tree (`pbt/`), its
session shell (`cli.py`), its wallet-side stem retrieval
(`pbt/stem_subscription.py`) and the parts around them.

Run from this directory:

    tlc -workers 2 -config MCPBTree.cfg MCPBTree.tla
    tlapm PBTreeProofs.tla      # and MerkleProofs, NodeHeapProofs, SessionProofs,
                                # FetchProofs, WalletProofs, WireProofs, ReleaseProofs

`PROJECT.json` lists components, runs, mutants, the source lines behind every
definition, findings, hazards and theorems.

## 1. The system

State lives in a binary tree over *stems*. A key is a stem prefix plus one byte;
a `StemNode` holds the 256 leaves of a stem, `InternalNode`s lead to it by the
bits of the prefix, `EmptyNode` stands for nothing. The tree's root hash is what
blocks commit to; proofs lead from a stem to that hash; packets with proofs are
sent to wallets, which check them and keep hot stems.

    cli.py session ──┐                       gas meter      wallet policies
                     ▼                           │                │
    embedding ──▶ tree (insert, delete, get) ──▶ proofs ──▶ witness packets
                     │        │                  │               │
                  nodes    hash registry     verified RPC    stem client, fetch

Everything is synchronous, single-threaded Python; calls pass objects by reference.
What is hard is not threads but aliasing (nodes are changed in place), caches (node
hashes, the empty hash, hot stems), proofs and packets that outlive the tree they were
made from, providers that answer late, twice, wrongly, not at all or with something
that raises, scripts that are cut off between two files, and canonical form over long
histories.

### Inventory

| Component | State | Operations | What is hard | Correct when |
|---|---|---|---|---|
| Tree (`tree.py`, `nodes.py`) | the node graph | `insert`, `delete`, `get` | splits at any depth, collapse frame by frame, writing EMPTY_VALUE | canonical for the key-value set; behaves as a map |
| Hashing and proofs (`tree.py`, `nodes.py`) | none of their own | `root_hash`, `get_proof`, `verify_proof`, `get_multi_proof`, `verify_multi_proof` | order of siblings, absent keys, stale proofs | a proof verifies exactly while it states the tree |
| Node objects (`nodes.py`) | `_hash_cache` per node, `_EMPTY_HASH_CACHE` | `node_hash`, `invalidate`, in-place updates | stale hashes, shared nodes, kept roots | every cached hash is the hash of what is below |
| Hash registry (`hash.py`) | active function, registry | `set_hash_function[_by_id]`, `register_hash_function` | hashes cached before the switch | one function per root |
| Session (`cli.py`) | `root`, `recent_proofs` | set, del, get, proof, verify, new | kept proofs against a changing tree | `verify` accepts current proofs only |
| Stem client (`stem_subscription.py:605-681`) | trusted root, LRU cache, counters | `verify_and_cache_packet`, `cached_value`, `set_verified_block_root`, `clear_cache` | root rotation, late packets, packets made of several, eviction | an accepted packet is true; cached leaves are those of their stem in the trusted block; LRU |
| Stem fetch (`:187-282`, `:360-602`, `:684-766`) | policy, attempt, tracker counters | `plan_fetch`, `evaluate_response`, `record_result`, `tune_policy_from_reliability`, the retry loop | faulty providers, retries, shared telemetry, a packet that makes the fetch raise | a faulty minority forges nothing; honest providers are not blamed; the honest quorum is reached unless a faulty packet raises |
| Lens (`stem_subscription.py:59-104`, `:315-360`) | epochs, quota | `derive`, `consume`, `discard`, `is_active`, `filter_response_packets` | expiry against quota | quota never exceeded; nothing passes an ended lens |
| SLA registry (`:1365-1400`) | bond positions | `stake`, `slash_for_missed_delivery` | restaking, penalties above the bond | the rest is the bond less the penalties since |
| Codecs, manifests, bundles (`:769-1093`, `:1256-1345`), compression (`compression.py`) | none | encode, decode, verify | length fields at their limits, records damaged and sealed again | decode inverts encode; what is accepted was encoded |
| Bucket choice (`:1206-1253`) | the buckets drawn so far | `build_cover_bucket_set` | more buckets wanted than there are | the draw ends, with the right number |
| Embedding, metadata (`embedding.py`, `metadata.py`) | none | key and leaf encodings, `chunk_code` | page boundaries, PUSH carry | no two items share a leaf |
| Gas meter (`gas.py`) | opened and verified stems | `charge_read`, `charge_write`, `mark_*`, `new_block` | order of marks and charges | the branch is paid once per block |
| Smart account (`wallet.py:177-`) | owner, guardians, transfers | schedule, cancel, execute, recover | cancel against execute, recovery with transfers pending | timelock and veto hold; no minority recovers |
| Redundant query (`wallet.py:50-175`) | none | `classify`, `query_verified_value`, `query_state_key`, `query_balance`, `query_history` | answers that tie or raise, providers listed twice | a wrong value takes a quorum of liars |
| Verified RPC (`verified_rpc.py`) | none | make, parse, verify | what is bound to the request | an accepted answer is true of the key it names |
| Rust tree and migration (`pbt-rs/`) | the node tree | insert, delete, proofs, `migrate_account` | same tree by other code; partial migration | same abstract tree as Python |
| Release scripts (`scripts/`, `pbt-rs/scripts/release_bundle.sh`) | files in `dist/`, one drill's snapshots | bundle, check, package; snapshot, swap, verify, restore | a cut between any two files, then another run | a package is of one bundle; `dist/` ends as it began |
| Cost profiles, budgets, release policy, dashboards, demos | registries of constants | closed formulas, reports | – | – |

## 2. Modules

`PBTNodes` — parameters shared by every model of the tree: stems, the bits of
their paths, leaves, the three node types. A node's place is the sequence of bits
leading to it. `PathBit[s][d]` is `_path_bit_at(s, d)`; the assumption
`PathsDiverge` is what its implicit terminator bit provides: two different
prefixes differ at some bit above `Depth`.

`PBTMap` — what the tree promises: a map from keys to values, EMPTY_VALUE for a
key never written, and one key changed per operation.

`PBTree` — `insert`, `delete` and `get`. A tree is a function from positions to nodes.
`Insert` has one disjunct per case of `_insert` (`Place` at an EmptyNode, `Overwrite`
at the stem's own node, `Split` via `_split_stems`, whose chain of single-child nodes
down to the first differing bit is `Fork`). `Delete` is the whole recursion: `Cleared`
is the bottom frame, `Unwound` what all frames on the way back leave. The recursion is
stated as one formula (`Frame`), so that it can be proved about; that it agrees with
the code's frame-by-frame rules (`Collapse`, `FrameByFrame`) is itself checked and
proved (`UnwindIsFrameByFrame`). Inputs are any stem, subindex and value of
`InsertValue`; whether that set holds EMPTY_VALUE is the difference between the runs
`tree` and `tree_bare`.

`PBTreeProofs` — theorems about `PBTree` (section 4).

`Merkle` — root hashes, proofs and batch proofs, and the session: `CmdSet`, `CmdDel`,
`CmdProof`, `CmdNew` of `cli.py`, plus a caller who keeps batch proofs (`KeepBatch`).
`tree_hash` is collision free: a hash is represented by what was hashed. A batch has
its keys in sorted order, a value and a proof for each, and `key_to_proof_index`, all
of which `VerifyMultiProof` compares. The sorted list of distinct sibling hashes in it
is left out: it is derived from the proofs, and of it `verify_multi_proof` only checks
that it is sorted. `node_hash` and the fold of `verify_proof` are recursive functions
of a tree and a position, and of a proof and the siblings hashed so far (`NodeHashAt`,
`FoldedHash`). `MerkleProofs` has the theorems.

`NodeHeap` — the objects under the tree. The heap maps names to objects with
child references and a cached hash; EmptyNodes have no state and are `Nil`. What the
references lead to from a root is a recursive function over positions (`Refs`): a
descent is a path through it (`Walk`), what is reached is its range (`Reach`).
`Relinked` is the way back of a recursive call (assign the child, invalidate);
`NodeHashes` is `node_hash` of every object, over the objects that exist, `Computed`
are those that a call of it fills, and `TrueHash` is the same without any cache.
`KeepRoot` is a caller who keeps the present root object and hashes it later,
`SetHashFunction` switches the function. An object is named by the stem or position it
was created for (`NamesAssumption`: these are different things), once or, while an old
root still has it, twice; objects no handle reaches are reclaimed, so two names are
enough, which is part of `HeapTypeOK`. A second writer through a kept old root is left
out: `heap_kept` shows what already happens with one. `Flat` maps the objects to a tree
of `PBTree`; `RefinesTree` is the refinement. `NodeHeapProofs` has the theorems.

`StemClient` — the partially stateless client. A block root commits to all leaves
(that is what `Merkle` is about), so it is represented by them. The cache is a
sequence in order of use, as in the code's `OrderedDict`, and an entry has all leaves
of a stem, as the proof in a packet has. `VerifyWitnessPacket` is the checks of the
code one by one: the key can be split, the prefix is the key's, key and value are
those of the proof, and `VerifyProof` has the leaves and the path lead to the root.
Packets are the honest ones of all blocks and those of `MadeOfTwo`, which takes some
fields of one honest packet and the rest of another of the same block or key
(`OneSwap`, `TiedSwaps`), or cuts a key or the leaves short. A key too short for
`split_key` raises ValueError out of the client, which is as it was; that is no step.
`used` and `mixed` are history: the stems in order of use, and whether a root was set
with `clear_cache=False` over a filled cache. `SessionProofs` has the theorems about
the client, the meter, the lens, the keys, the code chunks and the RPC answers.

`StemFetch` — one fetch after another over one reliability tracker. A plan is
any set of providers of the size the policy asks for, growing within a fetch:
`select_redundant_providers` orders them by a hash of seed, epoch and provider.
Honest providers answer with the good packet; the others send any of `Answer`.
Packets are told apart by key, root, freshness and what `verify_witness_packet` makes
of them: true, false or ValueError, which `split_key` raises on a key of fewer than
two bytes. `Accept`, `Retry`, `GiveUp` and `Raise` are the four ends of one turn of the
loop, booking included. Nothing in the code catches that ValueError. Packets are
checked in the order they arrive in, which is any that keeps those of each provider
in order, so a quorum may come before the packet that raises or not: both `Accept`
and `Raise` are then possible (`Before`, `RaisesFirst`). Where too few packets are fresh
for a quorum nothing is checked, and it is the booking that raises, with some of the
packets booked (`Booking`, `RecordedPartly`) and nobody booked as missing. Whether a
fetch tunes adaptively is chosen when it starts. The cap of 8 on what one tuning
step adds is never met (a step adds at most 2) and is left out; so are the
buckets, which widen together with the redundancy. `BookedFirst` is the loop of
`record_result` over the packets of one answer. `FetchProofs` has the theorems.

`Wire` — packet, registration, manifest, bundle and envelope as sequences of cells
(`STEM_PKT_V1`, `SUB_REG_V1`, `BUCKET_MANIFEST_V1`), a length field being one
cell with its limit. An encoder writes cells or raises; a decoder reads them in the
code's order and compares what the code compares. `WireDamage` is a record on
its way: written by an encoder, then whole, cut off, extended, altered in a cell,
or altered and hashed again by somebody who is not the sender. The hash is
collision free. `Writable` is what the encoders do not raise for, `Readable` what the
decoders have a limit for and the encoders have not: a key, a path or a manifest that
is too long is written and not read. `Ordered` stands for `sorted(...)`: one
arrangement of the hashes, the same whatever order they come in. `MCStemClient`
runs the records beside the client, which gets packets; `WireProofs` has the theorems.

`SmartAccount` — schedule, cancel, execute and recover. The object checks no caller
but the one of `cancel_transfer`, so the model lets anybody schedule and execute;
around it are a clock and guardians, honest ones who approve of rightful owners only
and look at the account once per unit of time (`Watched`), and corrupt ones.
`RedundantQuery` — one query as an operator of the list of answers, in the order of
the providers: what `classify` makes of each, who agrees, which mode is chosen, and
that a provider's `query` that raises, or a proof with a key too short for
`split_key`, ends the query for all (`Raisers`). `SLARegistry` — stakes and penalties;
`missed` is history. `WalletProofs` has the theorems.

`StateLens`, `GasMeter` — the two objects. `WalletSession` — a wallet that uses
them with `StemClient`: a packet the lens admits is verified, cached and marked for
the meter, accesses are charged, blocks and epochs change. That an application
calls them in this way is not in the repository, which leaves it to the caller;
the meter takes any claim that a stem was verified.

`Embedding` — keys and layouts with the code's constants, compared pairwise across
every boundary; code chunks and leaves of any size, chunks against a marking of the
operand bytes of the whole code (`Remaining` is the loop of `chunk_code` byte by byte;
`OperandsOf` is the set of bytes that a PUSH reaches), leaves by decoding what was
encoded. A leaf is a number to the base `Radix` (256) of `LeafLength` (32) digits, one
slice per field; `Ends` is where the slices end, as the decoders have it, and
`BasicEnds` are those of BASIC_DATA. `VerifiedRpc` — an answer with at most one thing
wrong (a statement, a proof, a type, a method), given to each of the four readers; a
witness states its stem prefix too, and a key may be too short, which `Verify` does
not accept (the code raises).

`CoverSet` — `build_cover_bucket_set`, one turn of its loop per step.

`Release` — the scripts on `dist/`: bundle, supply chain files, checks, handoff
package, rollback drill. A script is a list of steps, one per file it writes. It can
be cut off between any two (`Cut`) and started again; files already written stay. A
file's hash is its content. Of the gates in the manifest those in `REQUIRED_GATES` are
told apart from others: the validator looks at the former, the packager lists all.
`RELEASE_NOTES.md` may be absent, which the checks allow for what is not eligible and
`Package` does not: it fails, and the last package stays. The commit that is checked
out and the policy change between scripts (`Commit`); the tests a drill runs are
assumed to pass. `ReleaseProofs` has the theorems.

Parts that share no state are checked in one run where they belong to one question:
`MCWallet`, `MCWalletSession` and `MCProgress` choose a part (or one input) in
the initial state, and a behaviour is one of that part. Nothing is lost, since no
property relates two of them.

## 3. Runs

| Run | Instance | Shows |
|---|---|---|
| `tree` | 4 stems, 3 bits, 2 leaves; 256 states | canonical tree, root a function of the map, unwinding, refinement of the map |
| `tree_bare` | the same, EMPTY_VALUE inserted | violation: the root depends on the history |
| `proofs` | 3 stems, 2 leaves, 1 kept proof or batch; 32 192 states | proofs verify exactly for present stems; kept proofs and batches that verify are current |
| `proofs_absent` | the same | violation: an absent stem's proof does not verify |
| `heap` | 3 stems, 1 leaf, an old root kept; 3 977 states | caches coherent, refinement of `PBTree` |
| `heap_kept` | the same | violation: a kept root changes under its owner |
| `heap_switch` | two hash functions | violation: the cached empty hash is of the old function |
| `client` | 3 stems of 2 leaves, cache of 2, packets of two kinds of leaves put together from any two; wires of every format, three packets that no reader takes among them; 3 588 states up to symmetry | accepted packets are true; cache bounded, block-scoped, LRU; damaged wires rejected, decoding inverts encoding |
| `fetch` | 5 providers, 2 faulty, quorum 3, 3 attempts, 2 fetches, packets that raise; 44 695 states up to symmetry | no forged agreement, no honest provider blamed, the honest quorum reached unless a faulty packet raises |
| `wallet` | 3 guardians, 2 transfers, timelock 2, quorums not given, -1, 0, 1, 2, 4; lists of up to 4 providers; 3 bonds; 639 759 states up to symmetry | large theft is stopped, a minority never recovers, a wrong value takes a quorum of liars and one of them is enough to make a query raise, bonds are exact |
| `session` | 2 stems, cache of 1, 3 epochs; every code of up to 8 bytes in chunks of 3, leaves of 6 bytes to the base 3; 268 371 states up to symmetry | discounts are of this block, gas is exact, lens quota; keys apart, chunks and leaves right; RPC answers true |
| `progress` | 5 providers, 3 honest, quorum 3 and no spare; 4 buckets; 2 versions, 2 bundles, 2 cuts; 175 292 states | fetches and draws end; drills pass and restore, packages are of one bundle |

Why these bounds are enough: every case of insert and delete depends on at most
two stems sharing a path and on the kind of the sibling, so four stems with
forks at bits 0, 1 and 2 produce chains, hoists over one and over two levels, and
InternalNodes that must not be hoisted; two leaves make "last leaf cleared"
differ from "a leaf cleared". Proof staleness needs a change to the stem, to a
sibling subtree and to the depth: three stems. One kept proof is enough, since
kept proofs do not interact. Two leaves a stem, each with a value of its own, tell a
leaf of another subindex, of another stem and of another block apart, and exchanging
fields of two honest packets, alone or with the field they are compared with, breaks
each check of a packet by itself. Eviction needs more stems than places, and two
places to have an order. For the fetch, three honest of five with quorum three
and a first plan of four is the smallest setting in which a first plan can miss
the quorum while a wider one reaches it, with two faulty providers that may each
send two packets. Counters are bounded by `MaxReads` (client) and `MaxFetches`
(fetch); `MaxCaptures` bounds kept proofs.

In `wallet`, three guardians tell majority, minority and half rounded down apart; the
quorums are one of each kind: not given, given as nothing, negative, a minority, a
majority, unreachable. One unit of time is half a timelock, so there is a moment
between schedule and due, and time goes on for one unit after the first large transfer
can be executed. Two transfers let one be canceled while another runs. Four providers
allow two against two. In `progress`, a first plan without a spare, of three
providers, can have two packets fresh enough to be booked and one that raises, with an
honest provider before or after it (that nobody honest is blamed by what is booked then is
proved, `HonestKeepsItsRecord`). In `session`, two stems over a cache of one evict,
and rotate with and without clearing; keys are taken at every boundary between header
stem, pages and metadata; eight bytes are three chunks, the last not full, and
`MaxPush` of four is an operand longer than a chunk, as a PUSH32 (32 of chunks of 31)
is. Six bytes hold the four slices of BASIC_DATA with two lengths among them, and
every field is tried up to one more than fits. In `progress`, two cuts allow one in
the run that repairs the damage of another, and two bundles an older one to be
mistaken for a newer. Loops of the cover set end by `BucketCount`; `MaxCover` of five
exceeds it.

Deadlock is checked except in `fetch`, `wallet` and `progress`: a wallet that has
made its fetches stops, so does an account whose bounded clock and transfers are
used up, and a release whose versions, bundles and cuts are. A query is a single
state.

Every property of a passing run has a mutant in the modules, a plausible bug of
the definition it follows, under which the property fails.

Fairness is assumed in `progress` alone, and only of steps that code takes:
`FetchFairness` (an attempt that runs is finished: `fetch_fn` returns, with
whatever came), `ReleaseFairness` (a running script takes its next step; cuts are
not fair, and are bounded by `MaxCuts`) and `CoverFairness` (the hash of an
increasing nonce falls into every bucket again and again, which is what
`build_cover_bucket_set` needs to end; it is the only assumption about a hash
beyond freedom from collisions). Nobody is assumed to start anything. All other
properties are safety properties.

### What the runs found

* `tree_bare`: `insert` of EMPTY_VALUE keeps an empty stem in the tree
  (tree.py:94-106), against README.md:225 and README.md:86.
* `proofs_absent`: `get_proof` for an absent stem yields a proof that does not
  verify (tree.py:312), against tree.py:289-290.
* `heap_kept`: `insert` changes InternalNodes in place (tree.py:112), against
  tree.py:80-81.
* `heap_switch`: the empty sentinel survives a change of hash function
  (nodes.py:29), against nodes.py:22-23.
* No run: `validate_network_readiness.py:69-77` counts required gates,
  `build_ef_handoff.py:72-77` all, against the quickstart in the package
  (`build_ef_handoff.py:134-135`): with another gate pending, an eligible package has a
  blocking gate. `PackageIsOneBundle` is stated for the required ones.
* No run: `build_ef_handoff.py:148-154` needs the release notes that
  `validate_release_notes.py:75` calls optional (production_eligible=false): an allowed
  drill fails. `DrillPasses` is stated for releases with notes.
* No run: one packet with a key of fewer than two bytes, with the expected root and
  fresh, raises ValueError out of `simulate_epoch_fetch_with_fallback`
  (stem_subscription.py:1284), and one provider that raises ends a redundant query
  (wallet.py:107). No document promises otherwise; `HonestQuorumWins`, `FetchEnds` and
  `WrongBalanceTakesQuorum` say what is left.
* No run: README.md:227-230 speaks of collapsing single-child InternalNodes in
  general; the code keeps one whose only child is an InternalNode, and must,
  since children sit at the depth of their bit. `Canonical` states what it does.
* No run: with `adaptive_tuning` faulty providers that send valid packets for
  another key are credited with successes, and tuning may then never widen.
  `HonestQuorumWins` is stated with that exception. A large
  `tuning_failure_streak_threshold` has the same effect (section 4).
* No run: `verify_*_response` compares no id with a request (verified_rpc.py:99); an
  answer is true of the key it names (`AnswerIsTrue`) and the caller matches it.
* No run: `verify_provider_sla` checks a record that the registry never reads;
  `stake` replaces a position and forgets its penalties.
* No run: after a drill is cut off while `dist/` holds the simulated older
  release, those files verify; the next drill takes them for the current ones and
  the next package contains them. `SimulationIsUndone` excludes the case
  (`swapped`); `PackageIsOneBundle` and `DrillPasses` hold in it.
* No run: a bundle that verifies is kept after a commit, while the handoff manifest
  names the commit checked out (build_ef_handoff.py:42).

## 4. Proofs

`PBTreeProofs`, for every set of stems, every depth, width and value set that
meets `ConstantAssumption` and `PathsDiverge`:

* `TypeCorrect`: `Spec => []TypeOK`.
* `CanonicalForm`: `Spec => []Canonical`.
* `RootDeterminism`: `Spec => []RootIsFunctionOfMap`, if EMPTY_VALUE is not in
  `InsertValue`; the run `tree_bare` shows the assumption is needed.
* `MapRefinement`: `Spec => RefinesMap`.
* `UnwindingIsRecursion`: `Spec => []UnwindIsFrameByFrame`.

`Canonical` says the tree equals the tree built from what `get` finds in it. It
is not inductive as it stands: `get` is only known to find a stem when the shape
is already right. The invariant proved instead, `IInv`, says that there are a
set of stems and leaves for them whose canonical tree is the tree
(`InductiveInvariant`). Each operation then is computed on canonical trees: the
descent for a stem stops where it hangs or where it would hang; `Place` and
`Split` give the canonical tree of one more stem, `Overwrite` of other leaves,
`Unwound` of one stem less, whether the survivor is hoisted or not. `Canonical`
and the content of the tree follow from `IInv`, and with them the refinement.
Lemmas about paths (two paths meet exactly as far as their bits agree) and the
least-number principle carry the arithmetic. That `Frame` is the recursion needs no
canonical tree: it satisfies the rule of one frame (`FrameStep`), whose other child may
be empty, a stem or an InternalNode, and so the recursion, by induction over frames
(`FramesUnwind`).

`MerkleProofs`, for the same parameters, and any finite batches and order of keys
(`BatchKeysAssumption`, `KeyRankAssumption`):

* `SessionTypeCorrect`: `SessionSpec => []SessionTypeOK`.
* `ProofsVerify`: `SessionSpec => []ProofVerifiesIffStemPresent`.
* `StaleProofsAreRefused`: `SessionSpec => []KeptProofIsCurrent`.
* `KeptBatchesAreSound`: `SessionSpec => []KeptBatchIsSound`.
* `BatchProofsAreConjunctions`: `SessionSpec => []BatchIsConjunction`.

None of them is inductive. The session only makes steps of `PBTree`, so `IInv` is an
invariant of it; `SessionInv` adds that each kept proof is filed under its key and
follows the path of its stem (`OnPath`), whatever tree it was made from. The rest is
about one tree: hashes are equal exactly if their preimages are, so a proof that
verifies fixes, from the root down, each sibling, the place where the path ends and
the leaves there. On a canonical tree the descent for a stem ends at its node or where
it would hang, which makes the proof that of `get_proof`. That both recursive functions
exist and satisfy their equation is proved first, by induction over depths.

`NodeHeapProofs`, for the same parameters, any hash functions, and `NamesAssumption`:

* `HeapTypeCorrect`: `Spec => []HeapTypeOK`.
* `HeapRefinesTree`: `Spec => RefinesTree`.
* `CachesAreCoherent`: `Spec /\ [][active' = active]_vars => []CachesCoherent`. Nobody
  installs another hash function: without that the property is false, and the run
  `heap` has one function only.

The type invariant is not inductive; `HeapInv` is. By it the name of an object fixes
its class and its place: an InternalNode has at a bit nothing, an InternalNode made
for the next place or a StemNode whose path goes through it (`Sound`, `Fits`,
`IsRoot`). So no object is reached on two ways from one root, and with two roots at
most one of the two names is taken when a new object is made (`FreshStem`,
`FreshPosition`). A call touches the path of its stem only (`Stepped`): every object
off it is unchanged, and what is reached on it has no hash any more. What the
references lead to afterwards follows place by place (`RewiredIs`), and read as a tree
it is what `PBTree` says: `PlaceIs`, `OverwriteIs` and `SplitIs` for an insert
(`InsertIs`), and for a delete the frames one by one, a hoisted stem leaving its place
for one above (`FramesReturn`, `FramesRise`, `DeleteIs`). The old root may share
objects with the current one, and stays well-formed although its contents change.
`CachesCoherent` is inductive with that: of the objects below a root a call leaves
unhashed or unchanged, with all below them, the hash is the same (`SameTrueHash`, by
induction on the height), and `node_hash` only writes what it computed
(`CoherentHashes`, `OnlyCaches`).

`SessionProofs`, for every set of stems, cost, lens and cache size that meets
`SessionAssumption` and `ClientAssumption`:

* `ClientTypeCorrect`: `Spec => []ClientTypeOK`.
* `CacheHoldsThisBlock`: `Spec => []CacheIsBlockScoped`, for every set of packets: those
  that are accepted, and all leaves cached under a stem, those nobody asked for too.
* `CacheHoldsMostRecent`: `Spec => []CacheIsMostRecent`.
* `SessionRunsTheClient`: `SessionSpec => Spec`, so that these three hold in every
  session.
* `DiscountsAreOfThisBlock`: `SessionSpec => []DiscountIsCurrent`, which is
  inductive as it stands.
* `GasIsExact`: `SessionSpec => []BlockGasIsExact`. Inductive with the types of the
  numbers and finiteness; each access adds one stem to the discounted, or to the
  other opened ones, or none (`ChargeIsExact`).
* `LensIsBounded`: `SessionSpec => []LensKeepsItsTerms`. The property speaks of active
  lenses; `LensInv` says of every lens what is left of it, and that a used-up one
  is disposed, so that no later step makes it active again.

`AcceptedIsBound` is what an accepted packet's checks come to: prefix, key, value and the
leaves that are going to be cached are all of one stem under the trusted root.
`CacheInv` says that the stems used since the last clear are listed once each, and
that the cache is the end of that list, as long as it may be. Using a stem moves one
element of both sequences to the end, or drops the first of the cache
(`MovedToEnd`, `PutAtEnd`): the cases of an entry that is cached, of one to be evicted
for, and of free room are proved one by one. The session's steps are first reduced to
those the client, the meter (`MeterStep`) and the lens (`LensStep`) see.

The same module, for all accounts, chunks, slots, layouts, bytecodes and payloads
(`EmbeddingAssumption`: numbers are natural, a chunk and a PUSH have at least one byte):

* `PartsDoNotMeet`: `SetupSpec => []PartsHaveOwnLeaves`. A key is in the header stem
  of its account, with a subindex that names one part only (`InHeader`), or on a page
  of code or of slots, from which the number can be read back (`OnPage`).
* `ChunksStandAlone`: `SetupSpec => []ChunksAreSelfContained`. The operand bytes left
  after n bytes are what some PUSH takes of the bytes behind them, and no PUSH takes
  more (`LeftIsReach`, by induction), so that the bytes `chunk_code` counts are the
  operands; from the first byte that is none, the rest of a chunk is counted like a
  code of its own (`LeftStartsAnew`).
* `LeavesAreReadBack`: `SetupSpec => []LeafEncodingsInvert` (`LeafAssumption`: four
  slices fill the leaf, as `encode_basic_data` asserts). Of a joined number what is
  behind a slice is less than the power of the bytes there (`JoinedSplits`, by
  induction over the slices), so that dividing by it gives the number joined so far,
  and its remainder the field (`Division`, `PowerSum`).
* `AnswersAreTrue`: `SetupSpec => []AnswerIsTrue`, which needs no invariant: it holds
  of any payload a reader is given.

`FetchProofs`, for every set of providers, quorum and set of answers that meets
`FetchAssumption` and `AnswerAssumption`:

* `QuorumAttests`: `Spec => []AcceptedIsAttested`. A quorum greater than the number
  of the faulty has an honest member (`OneIsHonest`), and an honest provider agrees
  on the target only. The property is inductive once plans are known to be sets of
  providers.
* `FetchTypeCorrect`: `Spec => []FetchTypeOK`. The counters of a provider add up after
  each packet of an answer, by induction over its packets.
* `HonestKeepsItsRecord`: `Spec => []HonestIsNeverBlamed`. The good packet is booked as a
  success, and nothing else books an honest provider (`StateInv`), in a booking that is
  broken off neither.
* `PlainFetchSucceeds`: a fetch that is not tuned, with enough honest providers and
  attempts to ask everyone, is never given up: plans grow by one provider a turn, and one
  of all providers has the quorum. If it does not accept, it raises, on the packet of a
  provider that is not honest.
* `HonestQuorumIsReached`: `Spec => []HonestQuorumWins`, tuned or not: the fetch is
  given up only if it is tuned and a faulty provider was credited, and raises only on
  the packet of a faulty one. It is proved provided that
  `Required + Redundancy + MaxAttempts - StreakThreshold` is no less than the number
  of providers; with the defaults of the code (2, 1, 3 and 2) that is four of them.
  A plan of honest providers only succeeds (`HonestPlanAccepts`), so each plan that
  fails has a faulty provider, which stays in it as plans grow. While it is credited
  with no success, its streak is its attempts (`Unbroken`, kept by every packet that
  is booked: `BookedAllAges`), and from attempt `StreakThreshold` on each one widens
  the plan, whatever `MinRate` is (`TunedInv`). The proviso is needed: of five
  providers, with `StreakThreshold` 3 and `MinRate` 0, TLC finds a tuned fetch of the
  run's other bounds that fails although nobody faulty was credited.

`WalletProofs`, for every set of guardians, quorum, threshold, timelock and bound that
meets `AccountAssumption`, every bond and penalty that meets `RegistryAssumption`, and
every list of answers:

* `TransfersEndOnce`: `Spec => []AccountTypeOK`.
* `OneGuardianSuffices`: `Spec => []LargeTheftIsStopped`.
* `NoMinorityRecovers`: `Spec => []MinorityNeverOwns`.
* `BondsAreExact`: `RegistrySpec => []BondCoversPenalties`.
* `WrongBalanceTakesLiars`: `WrongBalanceTakesQuorum` of any list of answers. Who
  attests the true and the false value are disjoint sets of positions, of which the
  larger wins, the one heard first if they tie, if nobody raises; an honest answer
  never does.

That no large transfer of a thief is executed is not inductive: it says nothing of
those that are pending. `AccountInv` adds that each of them has yet to fall due
while one guardian watches (`Sound`), so that execution finds it canceled or too
early; the clock is the step that needs `Watched`. For recovery, the approvals a
thief can have are a subset of the corrupt guardians, and `SmallSetsFallShort`
counts them against the quorum, whether given or the default majority.

`WireProofs`, for every set of cells and of numbers, records of any length and any
limits (`LimitAssumption`: they are numbers; `RecordAssumption`: what is sent can be
written), of `LetterSpec`, which is what becomes of `letter` in the run `client`:

* `WhatIsWrittenIsRead`: `LetterSpec => []DecodeInvertsEncode`.
* `OneWireForOneRecord`: `LetterSpec => []AcceptedIsCanonical`.
* `DamageShows`: `LetterSpec => []DamageIsDetected`.

A letter does not change, so all is in the initial states; what they need is an
account of the readers. What a reader takes from the front of a wire, written again,
is the front it took (`CellRead`, `DataRead`), and so on to the last cell: an accepted
wire is the one its record is written as (`PacketIsCanonical`, `RegistrationIsCanonical`,
`ManifestIsCanonical`). The other way around, what a wire starts with is what is read
from it (`StartsShorter`, `CellBack`, `DataBack`). Two records of one payload are the
same (`PayloadsDiffer`, by the lengths in it), so a packet that ends in the hash of
another is the other. Of a manifest the root covers the commitments only: a cell cut off
or exchanged shows in their number or in the root (`ForgedManifestsAreRefused`). A
bundle's commitment has no lengths in it, and the damage keeps those of the provider
and the locator (`SplitAlike`, `BundlesDiffer`).

`ReleaseProofs`, for any bounds at all:

* `PackagesAreWhole`: `ReleaseSpec => []PackageIsOneBundle`, where a package that says it
  is eligible has no required gate open. Of other gates it is not so (section 3).
* `DrillsAreUndone`: `ReleaseSpec => []SimulationIsUndone`.

Neither says anything of a script that is half done. `ReleaseInv` does: what is left
of a script is the rest of the handoff, of the drill or of a build before one of them
(`AtHandoff`, `AtDrill`, `AtBuild`); where it is says what is known of the files. After
the check they are complete and agree; in a swap, the first snapshot is what the drill
found, and every file that differs from it is still to be copied back
(`ToBeRestored`); outside a swap, and unless a drill was cut off in one, no summary is
made up. TLC checked this invariant before it was proved; it showed that `swapped` was
set too easily by a cut before the snapshot, and the history says so now.

Induction is stated with sets (`InductionUp`), by the well-foundedness of the natural
numbers. A recursion that is proved about is written as a recursive function, and that it
exists and satisfies its equation is proved first: `FrameByFrame`, `NodeHashAt`,
`FoldedHash`, `Refs`, `NodeHashes`, `BookedFirst`, `Remaining`, `Power` and the one in
`Encode`.

Only model-checked:

* `HonestQuorumWins` under adaptive tuning where the attempts do not make up for the
  `StreakThreshold` the plan waits for: it then depends on how `MinRate` meets the
  histories of the providers.
* `FetchEnds`, `CoverIsDrawn`, `DrillPasses`: liveness.

## 5. Not modelled

* Cost profiles and verifier budgets: closed formulas over floating-point
  constants; no state.
* Release proof policy, dashboards, brief and report generators: one pass over
  records, and text.
* The Rust tree and `migrate_account`: a second implementation of the tree by
  ownership, not sharing. `PBTree` is about the Python one.
* Hash-only helpers: interest digests, nullifiers, key rotation, `bucket_for_stem`
  are each one hash of their arguments. `measure_query_pattern_leakage` is
  statistics.
* Inside modelled parts: hex and number syntax of RPC answers (one case, malformed),
  the dictionary form of an envelope, the bytes of zlib (external), parsing and
  printing in the session, registration of hash functions and their backends.
* Demos, `build/` and `dist/` (copies).

## 6. Plan

Modelled: the tree (`PBTNodes`, `PBTMap`, `PBTree`, `Merkle`, `NodeHeap`), retrieval
(`StemClient`, `StemFetch`, `Wire`, `WireDamage`, `CoverSet`), the wallet
(`SmartAccount`, `RedundantQuery`, `SLARegistry`, `StateLens`, `GasMeter`,
`WalletSession`), the encodings (`Embedding`, `VerifiedRpc`) and the release
(`Release`). Proved: what section 4 lists.

Left to model: the Rust tree as a second implementation of `PBTree`, with
`migrate_account` step by step; one abstract "verified view" that `StemClient`
and the session implement.

Theorems next: those of such a view.
