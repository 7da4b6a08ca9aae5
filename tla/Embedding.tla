------------------------------ MODULE Embedding ------------------------------
(***************************************************************************)
(* Where the parts of an account are kept in the tree and how they are     *)
(* written there (pbt/embedding.py, pbt/metadata.py).  Keys are built from *)
(* the real constants of pbt/constants.py; a hash is what was hashed.      *)
(* A leaf is the number its bytes are in big-endian order.                 *)
(***************************************************************************)
EXTENDS Integers, Sequences, FiniteSets, SequencesExt, FiniteSetsExt

CONSTANTS
  Address,    \* accounts
  ChunkId,    \* code chunks looked at
  SlotId,     \* storage slots looked at
  Layouts,    \* metadata layouts tried: four subindices each
  ChunkSize,  \* 31
  MaxPush,    \* operand bytes of PUSH32
  MaxCode,    \* bound on the length of a bytecode
  Radix,      \* 256, the values of a byte of a leaf
  LeafLength, \* 32
  BasicEnds,  \* <<4, 12, 20, 32>>, where the slices of BASIC_DATA end
  EpochLength \* 8, bytes an expiry epoch has to fit in

ASSUME EmbeddingAssumption ==
  /\ ChunkId \cup SlotId \subseteq Nat
  /\ {ChunkSize, MaxPush} \subseteq Nat \ {0} /\ MaxCode \in Nat
  /\ Layouts \subseteq [1..4 -> Nat]

\* encode_basic_data asserts that its four slices fill the leaf.
ASSUME LeafAssumption ==
  /\ {Radix, LeafLength} \subseteq Nat \ {0} /\ Radix # 1
  /\ BasicEnds \in [1..4 -> 1..LeafLength] /\ BasicEnds[4] = LeafLength
  /\ \A n \in 1..3 : BasicEnds[n] < BasicEnds[n + 1]
  /\ EpochLength \in 0..LeafLength

VARIABLE input  \* what is stored: a part of an account, a bytecode, a leaf

NoInput == [kind |-> "none"]
Error   == [error |-> TRUE]

Width      == 256  \* STEM_SUBTREE_WIDTH
HeaderCode == 16   \* CODE_CHUNKS_IN_HEADER
HeaderSlot == 4    \* STORAGE_CHUNKS_IN_HEADER

-----------------------------------------------------------------------------
(* Keys *)

Key(type, position, sub) == [stem |-> <<type>> \o position, sub |-> sub]
HeaderKey(addr, sub)     == Key(0, <<<<addr>>>>, sub)

\* Mutant: one chunk more in the header.
CodeKeyLate(addr, id) ==
  LET over == id - HeaderCode
  IN  IF id <= HeaderCode THEN HeaderKey(addr, 4 + id)
      ELSE Key(1, <<<<addr, over \div Width>>>>, over % Width)

\* get_tree_key_for_code_chunk
CodeKey(addr, id) ==
  LET over == id - HeaderCode
  IN  IF id < HeaderCode THEN HeaderKey(addr, 4 + id)
      ELSE Key(1, <<<<addr, over \div Width>>>>, over % Width)

\* get_tree_key_for_storage_slot
SlotKey(addr, id) ==
  LET over == id - HeaderSlot
  IN  IF id < HeaderSlot THEN HeaderKey(addr, 20 + id)
      ELSE Key(255, <<<<addr>>, <<addr, over \div Width>>>>, over % Width)

\* page_index_for_code, page_index_for_storage
CodePage(id) == IF id < HeaderCode THEN 0 ELSE 1 + (id - HeaderCode) \div Width
SlotPage(id) == IF id < HeaderSlot THEN 0 ELSE 1 + (id - HeaderSlot) \div Width

\* _occupied_header_subindices, validate_metadata_layout
Occupied == 0..3 \cup 4..(4 + HeaderCode - 1) \cup 20..(20 + HeaderSlot - 1)

ValidLayout(layout) ==
  /\ IsInjective(layout)
  /\ \A n \in DOMAIN layout : layout[n] \in (0..(Width - 1)) \ Occupied

\* metadata_keys_for_address
MetadataKey(addr, layout, n) ==
  IF ValidLayout(layout) THEN HeaderKey(addr, layout[n]) ELSE Error

\* A part of an account: BASIC_DATA, CODE_HASH, a chunk, a slot, or metadata.
KeyOf(x) ==
  CASE x.part = "basic"    -> HeaderKey(x.addr, 0)
    [] x.part = "codehash" -> HeaderKey(x.addr, 1)
    [] x.part = "code"     -> CodeKey(x.addr, x.id)
    [] x.part = "slot"     -> SlotKey(x.addr, x.id)
    [] x.part = "metadata" -> MetadataKey(x.addr, x.layout, x.id)

PageOf(x) ==
  CASE x.part = "code"               -> CodePage(x.id)
    [] x.part = "slot"               -> SlotPage(x.id)
    [] x.part \notin {"code", "slot"} -> 0

-----------------------------------------------------------------------------
(* chunk_code *)

\* A byte n in 1..MaxPush is a PUSH of n bytes, 0 any other instruction.
Byte == 0..MaxPush

\* Mutant: the operand count is one short.
AfterByteShort(left, byte) ==
  IF left > 0 THEN left - 1 ELSE IF byte > 1 THEN byte - 1 ELSE 0

\* What a byte makes of the operand bytes left before it
AfterByte(left, byte) == IF left > 0 THEN left - 1 ELSE byte

\* pushdata_remaining after so many bytes of a code
Remaining[x \in Seq(Byte) \X Nat] ==
  IF x[2] = 0 THEN 0 ELSE AfterByte(Remaining[<<x[1], x[2] - 1>>], x[1][x[2]])

\* encode_code_chunk pads the last slice.
Padded(slice) == slice \o [n \in 1..(ChunkSize - Len(slice)) |-> 0]

ChunkCode(code) ==
  LET from(c) == (c - 1) * ChunkSize
      raw(c)  == SubSeq(code, from(c) + 1, Min({from(c) + ChunkSize, Len(code)}))
  IN  [c \in 1..((Len(code) + ChunkSize - 1) \div ChunkSize) |->
         [offset |-> Min({Remaining[<<code, from(c)>>], Len(raw(c))}), slice |-> Padded(raw(c))]]

-----------------------------------------------------------------------------
(* Leaf encodings: fields written one after the other, big-endian *)

\* Where the slices of a leaf end: the four fields of BASIC_DATA; the first byte of
\* a leaf and the rest of it; a leaf as one number.  How long each is.
Ends(leaf) ==
  CASE leaf = "basic"               -> BasicEnds
    [] leaf \in {"hot", "tier"}     -> <<1, LeafLength>>
    [] leaf \in {"expiry", "flags"} -> <<LeafLength>>

Length(leaf, n) == Ends(leaf)[n] - (IF n = 1 THEN 0 ELSE Ends(leaf)[n - 1])

\* How many numbers fit in n bytes
Power[n \in Nat] == IF n = 0 THEN 1 ELSE Radix * Power[n - 1]

\* Mutant: a field may be as large as the bound itself.
FitsLoosely(leaf, fields) ==
  \A n \in DOMAIN fields : fields[n] \in 0..Power[Length(leaf, n)]

\* The range checks of the encoders; the rest of a byte's leaf is zero.
Fits(leaf, fields) ==
  /\ \A n \in DOMAIN fields : fields[n] \in 0..(Power[Length(leaf, n)] - 1)
  /\ leaf \in {"hot", "tier"} => fields[2] = 0
  /\ leaf = "hot" => fields[1] <= 1
  /\ leaf = "expiry" => fields[1] < Power[EpochLength]

Encode(leaf, fields) ==
  LET joined[n \in 0..Len(fields)] ==
        IF n = 0 THEN 0 ELSE joined[n - 1] * Power[Length(leaf, n)] + fields[n]
  IN  IF Fits(leaf, fields) THEN joined[Len(fields)] ELSE -1

\* No decoder checks a range: an expiry is the whole leaf.
Decode(leaf, value) ==
  [n \in DOMAIN Ends(leaf) |->
     (value \div Power[LeafLength - Ends(leaf)[n]]) % Power[Length(leaf, n)]]

-----------------------------------------------------------------------------
(* Inputs *)

Parts ==
       [kind : {"part"}, part : {"basic", "codehash"}, addr : Address]
  \cup [kind : {"part"}, part : {"code"}, addr : Address, id : ChunkId]
  \cup [kind : {"part"}, part : {"slot"}, addr : Address, id : SlotId]
  \cup [kind : {"part"}, part : {"metadata"}, addr : Address, id : 1..4, layout : Layouts]

Codes == [kind : {"code"}, code : BoundedSeq({0, 1, MaxPush}, MaxCode)]

Leaves ==
       (LET upto(n) == 0..Power[Length("basic", n)]
        IN  [kind : {"leaf"}, leaf : {"basic"}, fields : upto(1) \X upto(2) \X upto(3) \X upto(4)])
  \cup [kind : {"leaf"}, leaf : {"hot", "tier"}, fields : (0..Power[1]) \X {0}]
  \cup [kind : {"leaf"}, leaf : {"expiry", "flags"}, fields : {<<n>> : n \in 0..Power[LeafLength]}]

EmbeddingInit == input \in {NoInput} \cup Parts \cup Codes \cup Leaves

-----------------------------------------------------------------------------
(* Properties *)

\* The same part, or metadata under another layout: one account uses one.
Comparable(x, y) ==
  x # y /\ (x.part = "metadata" /\ y.part = "metadata" => x.layout = y.layout)

\* No two parts of any accounts share a leaf, whichever metadata layout passes
\* the check; parts of one kind share a stem exactly on the same page; and no
\* stem is the beginning of another, which the tree relies on.
PartsHaveOwnLeaves ==
  input.kind = "part" => \A y \in Parts :
    LET k == KeyOf(input)
        l == KeyOf(y)
    IN  Comparable(input, y) /\ k # Error /\ l # Error =>
          /\ k # l
          /\ k.sub \in 0..(Width - 1)
          /\ input.part = y.part /\ input.addr = y.addr =>
               (k.stem = l.stem <=> PageOf(input) = PageOf(y))
          /\ ~ IsStrictPrefix(k.stem, l.stem)

\* The bytes of a code that are operands: those that a PUSH before them, which is no
\* operand itself, reaches.
OperandsOf(code) ==
  CHOOSE operands \in SUBSET DOMAIN code :
    \A n \in DOMAIN code :
      n \in operands <=> \E m \in 1..(n - 1) : m \notin operands /\ code[m] >= n - m

\* Every chunk can be read by itself: skipping as many bytes as its offset says,
\* the operands found in it are those of the whole code, however many chunks a
\* PUSH reaches over and wherever the code ends.
ChunksAreSelfContained ==
  input.kind = "code" =>
    LET chunks == ChunkCode(input.code)
        global == OperandsOf(input.code)
    IN  \A c \in DOMAIN chunks :
          LET skip  == chunks[c].offset
              local == OperandsOf(SubSeq(chunks[c].slice, skip + 1, ChunkSize))
          IN  \A n \in 1..ChunkSize :
                LET at == (c - 1) * ChunkSize + n
                IN  at <= Len(input.code) =>
                      at \in global <=> n <= skip \/ n - skip \in local

\* What is encoded is decoded to the same fields, out of range fields are refused
\* and do not spill into their neighbours, and only fields that are all zero are
\* written as EMPTY_VALUE, the leaf that reads as absent.
LeafEncodingsInvert ==
  input.kind = "leaf" =>
    LET v == Encode(input.leaf, input.fields)
    IN  v # -1 => /\ v < Power[LeafLength]
                  /\ Decode(input.leaf, v) = input.fields
                  /\ (v = 0) = (\A n \in DOMAIN input.fields : input.fields[n] = 0)
=============================================================================
