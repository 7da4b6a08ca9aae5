-------------------------------- MODULE Wire --------------------------------
(***************************************************************************)
(* The binary formats of pbt/stem_subscription.py (SUB_REG_V1, STEM_PKT_V1 *)
(* and BUCKET_MANIFEST_V1), the commitments inside them, and the           *)
(* compression envelope of pbt/witness_compression.py.                     *)
(*                                                                         *)
(* A wire is a sequence of cells.  A field of fixed width is one cell, a   *)
(* length-prefixed field is one cell for the length and one for every byte *)
(* of its data.  A hash is the cell of what was hashed: equal hashes are   *)
(* of equal data.  Every decoder reads front to back from an offset and    *)
(* raises where it would read past the end.                                *)
(***************************************************************************)
EXTENDS Naturals, Sequences, FiniteSets, SequencesExt, TLC

CONSTANTS
  StemWidth,      \* stem_values_count: 256
  MaxKey,         \* MAX_KEY_BYTES
  MaxStemPrefix,  \* MAX_STEM_PREFIX_BYTES
  MaxPath,        \* MAX_PATH_COMPONENTS
  MaxManifest,    \* MAX_MANIFEST_PACKET_COUNT
  MaxBlob,        \* MAX_PROOF_BLOB_BYTES
  MaxWire,        \* MAX_PACKET_WIRE_BYTES
  MaxPayload      \* max_uncompressed_length

ASSUME LimitAssumption ==
  {StemWidth, MaxKey, MaxStemPrefix, MaxPath, MaxManifest, MaxBlob, MaxWire, MaxPayload} \subseteq Nat

Num(n)  == <<"number", n>>
Hash(x) == <<"hash", x>>
Version == Num(1)
Error   == [error |-> TRUE]

\* _pack_u16_len, _pack_u32_len
Packed(data) == <<Num(Len(data))>> \o data

\* _read_exact of one cell.  Past the end there is nothing to read, and an
\* offset beyond the end is never one a decoder may finish at.
Cell(w, at) == IF at <= Len(w) THEN w[at] ELSE Num(0)

\* A number read from a wire; other data in its place is a number too large.
NumAt(w, at) == IF Cell(w, at)[1] = "number" THEN Cell(w, at)[2] ELSE Len(w) + 1

\* _read_u16_len, _read_u32_len: the data, and the offset after it
Data(w, at)  == SubSeq(w, at + 1, at + NumAt(w, at))
After(w, at) == at + 1 + NumAt(w, at)

AllRead(w, at) == at = Len(w) + 1

-----------------------------------------------------------------------------
(* Proofs, inside a packet *)

EncodableProof(pr) ==
  /\ Len(pr.stemValues) = StemWidth
  /\ Len(pr.siblings) = Len(pr.bits)
  /\ \A n \in DOMAIN pr.bits : pr.bits[n] \in {Num(0), Num(1)}

EncodeProof(pr) ==
  Packed(pr.key) \o <<pr.value>> \o Packed(pr.stemValues)
    \o Packed(pr.siblings) \o Packed(pr.bits)

DecodeProof(w) ==
  LET stem  == After(w, 1) + 1
      sibs  == After(w, stem)
      bits  == After(w, sibs)
      proof == [key |-> Data(w, 1), value |-> Cell(w, After(w, 1)), stemValues |-> Data(w, stem),
                siblings |-> Data(w, sibs), bits |-> Data(w, bits)]
  IN  IF /\ Len(w) <= MaxBlob
         /\ NumAt(w, 1) <= MaxKey
         /\ NumAt(w, sibs) <= MaxPath
         /\ AllRead(w, After(w, bits))
         /\ EncodableProof(proof)
      THEN proof ELSE Error

-----------------------------------------------------------------------------
(* STEM_PKT_V1 *)

\* _packet_payload_without_commitment
Payload(p) ==
  <<Version, p.epoch, p.blockNumber, p.blockRoot, p.bucket>>
    \o Packed(p.stemPrefix) \o Packed(p.key) \o <<p.value>> \o Packed(EncodeProof(p.proof))

\* The encoder limits neither the key nor the path, as the decoder does, and
\* does not compare the packet with its proof.
EncodePacket(p) ==
  IF EncodableProof(p.proof) THEN Payload(p) \o <<Hash(Payload(p))>> ELSE Error

\* Mutant: the commitment is read and not compared.
DecodeUncommitted(w) ==
  LET key   == After(w, 6)
      value == After(w, key)
      blob  == value + 1
      end   == After(w, blob)
      proof == DecodeProof(Data(w, blob))
  IN  IF /\ Len(w) <= MaxWire /\ Cell(w, 1) = Version
         /\ NumAt(w, 6) <= MaxStemPrefix /\ NumAt(w, key) <= MaxKey
         /\ AllRead(w, end + 1) /\ proof # Error
         /\ proof.key = Data(w, key) /\ proof.value = Cell(w, value)
      THEN [epoch |-> w[2], blockNumber |-> w[3], blockRoot |-> w[4], bucket |-> w[5],
            stemPrefix |-> Data(w, 6), key |-> proof.key, value |-> proof.value, proof |-> proof]
      ELSE Error

DecodePacket(w) ==
  LET key   == After(w, 6)
      value == After(w, key)
      blob  == value + 1
      end   == After(w, blob)
      proof == DecodeProof(Data(w, blob))
      p     == [epoch |-> w[2], blockNumber |-> w[3], blockRoot |-> w[4], bucket |-> w[5],
                stemPrefix |-> Data(w, 6), key |-> Data(w, key), value |-> Cell(w, value),
                proof |-> proof]
  IN  IF /\ Len(w) <= MaxWire
         /\ Cell(w, 1) = Version
         /\ NumAt(w, 6) <= MaxStemPrefix
         /\ NumAt(w, key) <= MaxKey
         /\ NumAt(w, blob) <= MaxBlob
         /\ AllRead(w, end + 1)
         /\ proof # Error
         /\ proof.key = Data(w, key)
         /\ proof.value = Cell(w, value)
         /\ Cell(w, end) = Hash(Payload(p))
      THEN p ELSE Error

-----------------------------------------------------------------------------
(* SUB_REG_V1: no commitment to its own fields *)

EncodeRegistration(r) ==
  IF r.windowEnd[2] < r.windowStart[2] THEN Error
  ELSE <<Version, r.commitment, r.windowStart, r.windowEnd, r.maxBuckets>> \o Packed(r.pubkey)

\* Mutant: what follows the record is not looked at.
DecodeRegistrationPrefix(w) ==
  LET r == [commitment |-> Cell(w, 2), windowStart |-> Cell(w, 3), windowEnd |-> Cell(w, 4),
            maxBuckets |-> Cell(w, 5), pubkey |-> Data(w, 6)]
  IN  IF /\ Cell(w, 1) = Version /\ After(w, 6) <= Len(w) + 1 /\ NumAt(w, 4) >= NumAt(w, 3)
      THEN r ELSE Error

DecodeRegistration(w) ==
  LET r == [commitment |-> Cell(w, 2), windowStart |-> Cell(w, 3), windowEnd |-> Cell(w, 4),
            maxBuckets |-> Cell(w, 5), pubkey |-> Data(w, 6)]
  IN  IF /\ Cell(w, 1) = Version
         /\ AllRead(w, After(w, 6))
         /\ NumAt(w, 4) >= NumAt(w, 3)
      THEN r ELSE Error

-----------------------------------------------------------------------------
(* BUCKET_MANIFEST_V1 *)

\* _hash_concat: a chain of hashes over the commitments in their order.
HashConcat(items) == Hash(items)

\* sorted(...): one arrangement of the hashes, the same for all their orders
Ordered(hashes) ==
  LET Order == Bijection(DOMAIN hashes, DOMAIN hashes)
  IN  CHOOSE sorted \in {[n \in DOMAIN hashes |-> hashes[m[n]]] : m \in Order} : TRUE

\* Mutant: the commitments stay in the order of the packets.
ManifestUnsorted(epoch, bucket, packets) ==
  LET C == [n \in DOMAIN packets |-> Hash(Payload(packets[n]))]
  IN  [epoch |-> epoch, bucket |-> bucket, commitments |-> C, root |-> HashConcat(C)]

\* build_bucket_manifest
BuildManifest(epoch, bucket, packets) ==
  LET C == Ordered([n \in DOMAIN packets |-> Hash(Payload(packets[n]))])
  IN  IF \A n \in DOMAIN packets : packets[n].epoch = epoch /\ packets[n].bucket = bucket
      THEN [epoch |-> epoch, bucket |-> bucket, commitments |-> C, root |-> HashConcat(C)]
      ELSE Error

VerifyManifest(m) == HashConcat(m.commitments) = m.root

\* Neither the size nor the root is looked at by the encoder.
EncodeManifest(m) ==
  <<Version, m.epoch, m.bucket>> \o Packed(m.commitments) \o <<m.root>>

DecodeManifest(w) ==
  LET m == [epoch |-> Cell(w, 2), bucket |-> Cell(w, 3), commitments |-> Data(w, 4),
            root |-> Cell(w, After(w, 4))]
  IN  IF /\ Cell(w, 1) = Version
         /\ NumAt(w, 4) <= MaxManifest
         /\ AllRead(w, After(w, 4) + 1)
         /\ VerifyManifest(m)
      THEN m ELSE Error

-----------------------------------------------------------------------------
(* Commitments that travel beside their fields *)

\* build_witness_bundle: provider_id and storage_locator_hash are of any length
\* and nothing marks where they end.
BundleCommitment(b) ==
  Hash(<<b.epoch, b.blockNumber, b.blockRoot>> \o b.provider
         \o <<b.blobHash, HashConcat(Ordered(b.commitments))>> \o b.locator)

VerifyBundle(b, commitment) == BundleCommitment(b) = commitment

\* make_subscription_commitment of a seed, a wallet key and a window
SubscriptionCommitment(seed, wallet, start, end, buckets) ==
  IF end < start \/ buckets = 0 THEN Error
  ELSE Hash(seed \o wallet \o <<Num(start), Num(end), Num(buckets)>>)

-----------------------------------------------------------------------------
(* CompressedWitnessEnvelope *)

\* zlib: a stream of data, that ends or not, with more bytes behind it or not.
Stream(data, eof, tail) == [data |-> data, eof |-> eof, tail |-> tail]

Compress(payload) ==
  IF Len(payload) > MaxPayload THEN Error
  ELSE [length |-> Len(payload), commitment |-> Hash(payload),
        stream |-> Stream(payload, TRUE, FALSE)]

Decompress(e) ==
  IF /\ e.length <= MaxPayload
     /\ Len(e.stream.data) <= MaxPayload
     /\ e.stream.eof
     /\ ~ e.stream.tail
     /\ e.length = Len(e.stream.data)
     /\ e.commitment = Hash(e.stream.data)
  THEN e.stream.data ELSE Error
=============================================================================
