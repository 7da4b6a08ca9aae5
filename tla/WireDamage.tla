----------------------------- MODULE WireDamage -----------------------------
(***************************************************************************)
(* What the readers of Wire make of records that arrive: whole, or cut     *)
(* off, extended, or with a cell exchanged; and, for the formats that end  *)
(* in a hash, also damaged and sealed again by who damaged them.           *)
(***************************************************************************)
EXTENDS Wire

CONSTANTS
  Field,    \* the cells that records are made of
  Record,   \* what is sent: a set of [kind, body], for manifests with the packets
  Digit     \* the numbers a damaged cell may hold

VARIABLE letter  \* a record and what arrived, or NoLetter

-----------------------------------------------------------------------------
(* Records *)

IsNumber(c) == c = Num(c[2]) /\ c[2] \in Nat
NumberField == {c \in Field : IsNumber(c)}

ProofRecord == [key : Seq(Field), value : Field, stemValues : Seq(Field), siblings : Seq(Field),
                bits : Seq(Field)]
PacketRecord == [epoch : Field, blockNumber : Field, blockRoot : Field, bucket : Field,
                 stemPrefix : Seq(Field), key : Seq(Field), value : Field, proof : ProofRecord]
RegistrationRecord == [commitment : Field, windowStart : NumberField, windowEnd : NumberField,
                       maxBuckets : NumberField, pubkey : Seq(NumberField)]
BundleRecord == [epoch : Field, blockNumber : Field, blockRoot : Field, provider : Seq(Field),
                 blobHash : Field, commitments : Seq(Field), locator : Seq(Field)]

\* What the writers do not raise for.
Writable(r) ==
  /\ r.kind \in {"packet", "registration", "manifest", "envelope", "bundle"}
  /\ r.kind = "packet"       => r.body \in PacketRecord /\ EncodableProof(r.body.proof)
  /\ r.kind = "registration" =>
       r.body \in RegistrationRecord /\ r.body.windowEnd[2] >= r.body.windowStart[2]
  /\ r.kind = "manifest"     =>
       /\ r.packets \in Seq(PacketRecord) /\ r.body.epoch \in Field /\ r.body.bucket \in Field
       /\ r.body = BuildManifest(r.body.epoch, r.body.bucket, r.packets)
       /\ \A n \in DOMAIN r.packets : r.packets[n].epoch = r.body.epoch
                                    /\ r.packets[n].bucket = r.body.bucket
  /\ r.kind = "envelope"     => r.body \in Seq(Field) /\ Len(r.body) <= MaxPayload
  /\ r.kind = "bundle"       => r.body \in BundleRecord

ASSUME RecordAssumption ==
  /\ \A c \in Field : c[1] = "number" => IsNumber(c)
  /\ \A r \in Record : Writable(r)
  /\ Digit \subseteq Nat

\* What the readers have a limit for, and the writers have not.
Readable(r) ==
  LET p == r.body
  IN  /\ r.kind = "packet" =>
           /\ Len(p.stemPrefix) <= MaxStemPrefix /\ Len(p.key) <= MaxKey
           /\ Len(p.proof.siblings) <= MaxPath /\ Len(EncodeProof(p.proof)) <= MaxBlob
           /\ Len(EncodePacket(p)) <= MaxWire
           /\ p.proof.key = p.key /\ p.proof.value = p.value
      /\ r.kind = "manifest" => Len(p.commitments) <= MaxManifest

NoLetter == [sent |-> [kind |-> "none"]]

Sealed(b) == [fields |-> b, commitment |-> BundleCommitment(b)]

Write(kind, body) ==
  CASE kind = "packet"       -> EncodePacket(body)
    [] kind = "registration" -> EncodeRegistration(body)
    [] kind = "manifest"     -> EncodeManifest(body)
    [] kind = "envelope"     -> Compress(body)
    [] kind = "bundle"       -> Sealed(body)

Read(kind, x) ==
  CASE kind = "packet"       -> DecodePacket(x)
    [] kind = "registration" -> DecodeRegistration(x)
    [] kind = "manifest"     -> DecodeManifest(x)
    [] kind = "envelope"     -> Decompress(x)
    [] kind = "bundle"       -> IF VerifyBundle(x.fields, x.commitment) THEN x.fields ELSE Error

-----------------------------------------------------------------------------
(* Damage *)

Number == {Num(d) : d \in Digit}

DamagedWire(w) ==
       {SubSeq(w, 1, n) : n \in 0..(Len(w) - 1)}
  \cup {Append(w, d) : d \in Number}
  \cup {ReplaceAt(w, n, d) : n \in DOMAIN w, d \in Number}
  \cup {RemoveAt(w, n) : n \in DOMAIN w}

\* Damage to the payload of a packet by somebody who can hash.
Resealed(w) == {Append(v, Hash(v)) : v \in DamagedWire(Front(w))}

DamagedStream(s) ==
  {Stream(data, eof, tail) :
     data \in {s.data} \cup DamagedWire(s.data), eof \in BOOLEAN, tail \in BOOLEAN}

DamagedEnvelope(e) ==
       {[e EXCEPT !.length = n] : n \in 0..(MaxPayload + 1)}
  \cup {[e EXCEPT !.stream = s] : s \in DamagedStream(e.stream)}

DamagedFields(b) ==
       {[b EXCEPT !.epoch = d] : d \in Number} \cup {[b EXCEPT !.blockRoot = d] : d \in Number}
  \cup {[b EXCEPT !.blobHash = d] : d \in Number}
  \cup {[b EXCEPT !.provider = ReplaceAt(@, n, d)] : n \in DOMAIN b.provider, d \in Number}
  \cup {[b EXCEPT !.locator = ReplaceAt(@, n, d)] : n \in DOMAIN b.locator, d \in Number}
  \cup {[b EXCEPT !.commitments = v] : v \in DamagedWire(b.commitments)}

DamagedBundle(x) == {[x EXCEPT !.fields = f] : f \in DamagedFields(x.fields)}

Arriving(kind, x) ==
  {x} \cup CASE kind = "packet"   -> DamagedWire(x) \cup Resealed(x)
             [] kind = "envelope" -> DamagedEnvelope(x)
             [] kind = "bundle"   -> DamagedBundle(x)
             [] kind \in {"registration", "manifest"} -> DamagedWire(x)

LetterInit ==
  \/ letter = NoLetter
  \/ \E r \in Record : \E x \in Arriving(r.kind, Write(r.kind, r.body)) :
       letter = [sent |-> r, got |-> x]

\* A letter that has arrived does not change.
LetterSpec == LetterInit /\ [][FALSE]_letter

-----------------------------------------------------------------------------
(* Properties *)

\* What was written within the limits of the reader is read as the same record,
\* at the limits too; and the manifest of a set of packets is one whatever the
\* order a provider has them in.
DecodeInvertsEncode ==
  letter # NoLetter =>
    LET r == letter.sent
    IN  /\ Readable(r) /\ letter.got = Write(r.kind, r.body) => Read(r.kind, letter.got) = r.body
        /\ r.kind = "manifest" =>
             r.body = BuildManifest(r.body.epoch, r.body.bucket, Reverse(r.packets))

\* No reader accepts two wires for one record: whatever it accepts, forged or
\* not, is what the writer makes of the record it returns.
AcceptedIsCanonical ==
  letter # NoLetter =>
    LET kind == letter.sent.kind
        body == Read(kind, letter.got)
    IN  body # Error /\ kind # "bundle" => Write(kind, body) = letter.got

\* A packet, manifest, bundle or envelope that is damaged and still ends in its
\* own hash is refused or read as what was sent: no cell is left open but the
\* epoch and the bucket of a manifest, which its root does not cover.  (Bundles
\* are told apart at fields of one length each: nothing marks where the provider
\* and the locator end.)
DamageIsDetected ==
  letter # NoLetter =>
    LET r    == letter.sent
        body == Read(r.kind, letter.got)
        own  == r.kind = "packet" => letter.got # <<>> /\ Last(letter.got) = Last(EncodePacket(r.body))
    IN  r.kind # "registration" /\ own /\ body # Error =>
          \/ body = r.body
          \/ r.kind = "manifest" /\ body.commitments = r.body.commitments
          \/ r.kind = "bundle" /\ [body EXCEPT !.commitments = Ordered(@)] =
                                    [r.body EXCEPT !.commitments = Ordered(@)]
=============================================================================
