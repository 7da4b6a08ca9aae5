----------------------------- MODULE WireProofs -----------------------------
(***************************************************************************)
(* Theorems about the wire formats, for records of any length, all limits  *)
(* and everything that DamagedWire does to a wire.                         *)
(***************************************************************************)
EXTENDS WireDamage, SequenceTheorems, FunctionTheorems, TLAPS

-----------------------------------------------------------------------------
(* Sequences of whatever they hold *)

IsSeq(s) == s \in Seq(ToSet(s))

Pre(w, n) == SubSeq(w, 1, n)

LEMMA SeqIsSeq ==
  ASSUME NEW S, NEW s \in Seq(S)
  PROVE  IsSeq(s)
<1>1. Len(s) \in Nat /\ s \in [1..Len(s) -> S] /\ DOMAIN s = 1..Len(s)
  BY LenProperties
<1>2. s \in [1..Len(s) -> ToSet(s)]
  BY <1>1 DEF ToSet
<1>3. QED
  BY <1>1, <1>2, SeqDef DEF IsSeq

LEMMA LenOf ==
  ASSUME NEW s, IsSeq(s)
  PROVE  Len(s) \in Nat /\ DOMAIN s = 1..Len(s)
BY LenProperties DEF IsSeq

\* Two sequences are sequences over one set.
LEMMA OverBoth ==
  ASSUME NEW s, NEW t, IsSeq(s), IsSeq(t)
  PROVE  s \in Seq(ToSet(s) \cup ToSet(t)) /\ t \in Seq(ToSet(s) \cup ToSet(t))
<1>1. s \in Seq(ToSet(s) \cup ToSet(t))
  BY SeqMonotonic, ToSet(s) \subseteq ToSet(s) \cup ToSet(t) DEF IsSeq
<1>2. t \in Seq(ToSet(s) \cup ToSet(t))
  BY SeqMonotonic, ToSet(t) \subseteq ToSet(s) \cup ToSet(t) DEF IsSeq
<1>3. QED
  BY <1>1, <1>2

LEMMA Joined ==
  ASSUME NEW s, NEW t, IsSeq(s), IsSeq(t)
  PROVE  /\ IsSeq(s \o t)
         /\ Len(s \o t) = Len(s) + Len(t)
         /\ \A i \in 1..Len(s) : (s \o t)[i] = s[i]
         /\ \A i \in 1..Len(t) : (s \o t)[Len(s) + i] = t[i]
<1>1. Len(s) \in Nat /\ Len(t) \in Nat
  BY LenOf
<1>2. /\ s \o t \in Seq(ToSet(s) \cup ToSet(t))
      /\ Len(s \o t) = Len(s) + Len(t)
      /\ \A i \in 1 .. Len(s) + Len(t) : (s \o t)[i] = IF i <= Len(s) THEN s[i] ELSE t[i - Len(s)]
  BY OverBoth, ConcatProperties
<1>3. IsSeq(s \o t)
  BY <1>2, SeqIsSeq
<1>4. ASSUME NEW i \in 1..Len(s) PROVE (s \o t)[i] = s[i]
  BY <1>1, <1>2
<1>5. ASSUME NEW i \in 1..Len(t) PROVE (s \o t)[Len(s) + i] = t[i]
  <2>1. PICK j \in Nat : j = Len(s) + i
    BY <1>1
  <2>2. j \in 1 .. Len(s) + Len(t) /\ ~ (j <= Len(s)) /\ j - Len(s) = i
    BY <1>1, <2>1
  <2>3. (s \o t)[j] = t[i]
    BY <1>2, <2>2
  <2>4. QED
    BY <2>1, <2>3
<1>6. QED
  BY <1>2, <1>3, <1>4, <1>5

LEMMA SameSeq ==
  ASSUME NEW s, NEW t, IsSeq(s), IsSeq(t), Len(s) = Len(t), \A i \in 1..Len(s) : s[i] = t[i]
  PROVE  s = t
BY OverBoth, SeqEqual

LEMMA OneCell ==
  ASSUME NEW c
  PROVE  IsSeq(<<c>>) /\ Len(<<c>>) = 1 /\ <<c>>[1] = c
<1>1. <<c>> \in Seq({c}) /\ Len(<<c>>) = 1 /\ <<c>>[1] = c
  OBVIOUS
<1>2. QED
  BY <1>1, SeqIsSeq

LEMMA FiveCells ==
  ASSUME NEW a, NEW b, NEW c, NEW d, NEW e
  PROVE  LET s == <<a, b, c, d, e>>
         IN  /\ IsSeq(s) /\ Len(s) = 5
             /\ s[1] = a /\ s[2] = b /\ s[3] = c /\ s[4] = d /\ s[5] = e
<1> DEFINE s == <<a, b, c, d, e>>
<1>1. s \in Seq({a, b, c, d, e}) /\ Len(s) = 5
      /\ s[1] = a /\ s[2] = b /\ s[3] = c /\ s[4] = d /\ s[5] = e
  OBVIOUS
<1>2. QED
  BY <1>1, SeqIsSeq

LEMMA ThreeCells ==
  ASSUME NEW a, NEW b, NEW c
  PROVE  LET s == <<a, b, c>>
         IN  IsSeq(s) /\ Len(s) = 3 /\ s[1] = a /\ s[2] = b /\ s[3] = c
<1> DEFINE s == <<a, b, c>>
<1>1. s \in Seq({a, b, c}) /\ Len(s) = 3 /\ s[1] = a /\ s[2] = b /\ s[3] = c
  OBVIOUS
<1>2. QED
  BY <1>1, SeqIsSeq

\* A stretch of a sequence.
LEMMA Stretch ==
  ASSUME NEW w, IsSeq(w), NEW m \in Nat, NEW n \in Nat, 1 <= m, m <= n + 1, n <= Len(w)
  PROVE  /\ IsSeq(SubSeq(w, m, n))
         /\ Len(SubSeq(w, m, n)) = n + 1 - m
         /\ \A i \in 1..(n + 1 - m) : SubSeq(w, m, n)[i] = w[m + i - 1]
<1>1. Len(w) \in Nat /\ \A i \in 1..Len(w) : w[i] \in ToSet(w)
  BY LenOf DEF ToSet
<1>2. \A i \in m..n : w[i] \in ToSet(w)
  BY <1>1
<1>3. /\ SubSeq(w, m, n) \in Seq(ToSet(w))
      /\ Len(SubSeq(w, m, n)) = IF m <= n THEN n - m + 1 ELSE 0
      /\ \A i \in 1 .. n - m + 1 : SubSeq(w, m, n)[i] = w[m + i - 1]
  BY <1>2, SubSeqProperties
<1>4. n - m + 1 = n + 1 - m /\ (~ (m <= n) => n + 1 - m = 0)
  OBVIOUS
<1>5. IsSeq(SubSeq(w, m, n))
  BY <1>3, SeqIsSeq
<1>6. QED
  BY <1>3, <1>4, <1>5

LEMMA PrefixOf ==
  ASSUME NEW w, IsSeq(w), NEW n \in Nat, n <= Len(w)
  PROVE  IsSeq(Pre(w, n)) /\ Len(Pre(w, n)) = n /\ \A i \in 1..n : Pre(w, n)[i] = w[i]
<1>1. /\ IsSeq(SubSeq(w, 1, n)) /\ Len(SubSeq(w, 1, n)) = n + 1 - 1
      /\ \A i \in 1..(n + 1 - 1) : SubSeq(w, 1, n)[i] = w[1 + i - 1]
  BY Stretch
<1>2. QED
  BY <1>1 DEF Pre

LEMMA WholePrefix ==
  ASSUME NEW w, IsSeq(w)
  PROVE  Pre(w, Len(w)) = w
BY SubSeqFull DEF IsSeq, Pre

-----------------------------------------------------------------------------
(* Reading forward: what has been read is written again *)

\* Cells that say they are numbers are.
IsWire(w) == IsSeq(w) /\ \A n \in 1..Len(w) : w[n][1] = "number" => IsNumber(w[n])

LEMMA NumAtIsNat ==
  ASSUME NEW w, IsWire(w), NEW at \in Nat, 1 <= at
  PROVE  /\ NumAt(w, at) \in Nat /\ After(w, at) \in Nat /\ After(w, at) > at
         /\ at > Len(w) => After(w, at) > Len(w) + 1
         /\ After(w, at) <= Len(w) + 1 => at <= Len(w) /\ w[at] = Num(NumAt(w, at))
<1>1. Len(w) \in Nat
  BY LenOf DEF IsWire
<1>2. CASE at > Len(w)
  <2>1. Cell(w, at) = <<"number", 0>>
    BY <1>1, <1>2 DEF Cell, Num
  <2>2. NumAt(w, at) = 0
    BY <2>1 DEF NumAt
  <2>3. QED
    BY <1>1, <1>2, <2>2 DEF After
<1>3. CASE at <= Len(w)
  <2>1. Cell(w, at) = w[at] /\ at \in 1..Len(w)
    BY <1>1, <1>3 DEF Cell
  <2>2. CASE w[at][1] = "number"
    <3>1. w[at] = Num(w[at][2]) /\ w[at][2] \in Nat
      BY <2>1, <2>2 DEF IsWire, IsNumber
    <3>2. NumAt(w, at) = w[at][2]
      BY <2>1, <2>2 DEF NumAt
    <3>3. QED
      BY <1>1, <1>3, <3>1, <3>2 DEF After
  <2>3. CASE w[at][1] # "number"
    <3>1. NumAt(w, at) = Len(w) + 1
      BY <2>1, <2>3 DEF NumAt
    <3>2. QED
      BY <1>1, <1>3, <3>1 DEF After
  <2>4. QED
    BY <2>2, <2>3
<1>4. QED
  BY <1>1, <1>2, <1>3

\* A prefix and the cell after it.
LEMMA CellRead ==
  ASSUME NEW w, IsSeq(w), NEW at \in Nat, 1 <= at, at <= Len(w)
  PROVE  Cell(w, at) = w[at] /\ Pre(w, at - 1) \o <<Cell(w, at)>> = Pre(w, at)
<1>1. Len(w) \in Nat
  BY LenOf
<1>2. Cell(w, at) = w[at]
  BY DEF Cell
<1>3. 1 \in 1..Len(w) /\ at \in 1..Len(w)
  BY <1>1
<1>4. SubSeq(w, 1, at) = SubSeq(w, 1, at - 1) \o <<w[at]>>
  BY <1>3, SubSeqRecursiveSecond DEF IsSeq
<1>5. QED
  BY <1>2, <1>4 DEF Pre

LEMMA Associated ==
  ASSUME NEW s, NEW t, NEW u, IsSeq(s), IsSeq(t), IsSeq(u)
  PROVE  (s \o t) \o u = s \o (t \o u)
<1> DEFINE S == ToSet(s) \cup ToSet(t) \cup ToSet(u)
<1>1. /\ ToSet(s) \subseteq S /\ ToSet(t) \subseteq S /\ ToSet(u) \subseteq S
  OBVIOUS
<1> HIDE DEF S
<1>2. s \in Seq(S) /\ t \in Seq(S) /\ u \in Seq(S)
  BY <1>1, SeqMonotonic DEF IsSeq
<1>3. QED
  BY <1>2, ConcatAssociative

LEMMA PackedIsSeq ==
  ASSUME NEW s, IsSeq(s)
  PROVE  IsSeq(Packed(s)) /\ Len(Packed(s)) = Len(s) + 1
<1>1. IsSeq(<<Num(Len(s))>>) /\ Len(<<Num(Len(s))>>) = 1
  BY OneCell
<1>2. Len(s) \in Nat
  BY LenOf
<1>3. QED
  BY <1>1, <1>2, Joined DEF Packed

\* A prefix and the length-prefixed field after it.
LEMMA DataRead ==
  ASSUME NEW w, IsWire(w), NEW at \in Nat, 1 <= at, After(w, at) <= Len(w) + 1
  PROVE  /\ IsWire(Data(w, at)) /\ Len(Data(w, at)) = NumAt(w, at)
         /\ Pre(w, at - 1) \o Packed(Data(w, at)) = Pre(w, After(w, at) - 1)
<1> DEFINE n == NumAt(w, at)
<1>1. n \in Nat /\ at <= Len(w) /\ w[at] = Num(n)
  BY NumAtIsNat
<1>2. Len(w) \in Nat /\ After(w, at) = at + 1 + n /\ at + n <= Len(w) /\ IsSeq(w)
  BY <1>1, LenOf DEF IsWire, After
<1>3. /\ IsSeq(Data(w, at)) /\ Len(Data(w, at)) = n
      /\ \A i \in 1..n : Data(w, at)[i] = w[at + i]
  <2>1. PICK m \in Nat : m = at + 1
    OBVIOUS
  <2>2. PICK k \in Nat : k = at + n
    BY <1>1
  <2>3. 1 <= m /\ m <= k + 1 /\ k <= Len(w) /\ k + 1 - m = n
    BY <1>1, <1>2, <2>1, <2>2
  <2>4. /\ IsSeq(SubSeq(w, m, k)) /\ Len(SubSeq(w, m, k)) = n
        /\ \A i \in 1..n : SubSeq(w, m, k)[i] = w[m + i - 1]
    BY <1>2, <2>3, Stretch
  <2>5. Data(w, at) = SubSeq(w, m, k)
    BY <2>1, <2>2 DEF Data
  <2>6. \A i \in 1..n : m + i - 1 = at + i
    BY <1>1, <2>1
  <2>7. QED
    BY <2>4, <2>5, <2>6
<1>4. ASSUME NEW i \in 1..n, Data(w, at)[i][1] = "number"
      PROVE  IsNumber(Data(w, at)[i])
  <2>1. PICK j \in 1..Len(w) : j = at + i
    BY <1>1, <1>2
  <2>2. Data(w, at)[i] = w[j]
    BY <1>3, <2>1
  <2>3. QED
    BY <1>4, <2>2 DEF IsWire
<1> HIDE DEF n
<1>5. IsWire(Data(w, at))
  BY <1>3, <1>4 DEF IsWire
<1>6. Pre(w, at) \o Data(w, at) = Pre(w, at + n)
  <2>1. /\ 1 \in 1..(Len(w) + 1) /\ at \in (1 - 1)..Len(w) /\ at + n \in at..Len(w)
    BY <1>1, <1>2
  <2>2. SubSeq(w, 1, at) \o SubSeq(w, at + 1, at + n) = SubSeq(w, 1, at + n)
    BY <1>2, <2>1, ConcatAdjacentSubSeq DEF IsSeq
  <2>3. QED
    BY <2>2 DEF Pre, Data, n
<1>7. Pre(w, at - 1) \o <<Num(n)>> = Pre(w, at)
  BY <1>1, <1>2, CellRead
<1>8. PICK k \in Nat : k = at - 1
  OBVIOUS
<1>9. IsSeq(Pre(w, at - 1))
  BY <1>1, <1>2, <1>8, PrefixOf
<1>10. Pre(w, at - 1) \o Packed(Data(w, at)) = (Pre(w, at - 1) \o <<Num(n)>>) \o Data(w, at)
  <2>1. Packed(Data(w, at)) = <<Num(n)>> \o Data(w, at)
    BY <1>3 DEF Packed
  <2>2. IsSeq(<<Num(n)>>)
    BY OneCell
  <2>3. IsSeq(Data(w, at))
    BY <1>3
  <2>4. (Pre(w, at - 1) \o <<Num(n)>>) \o Data(w, at) = Pre(w, at - 1) \o (<<Num(n)>> \o Data(w, at))
    BY <1>9, <2>2, <2>3, Associated
  <2>5. QED
    BY <2>1, <2>4
<1>11. After(w, at) - 1 = at + n
  BY <1>1, <1>2
<1>12. QED
  BY <1>3, <1>5, <1>6, <1>7, <1>10, <1>11 DEF n

-----------------------------------------------------------------------------
(* What a reader accepts is what the writer makes of it *)

\* A proof and a packet, whatever their cells are.
IsProof(p) ==
  /\ p = [key |-> p.key, value |-> p.value, stemValues |-> p.stemValues,
          siblings |-> p.siblings, bits |-> p.bits]
  /\ IsSeq(p.key) /\ IsSeq(p.stemValues) /\ IsSeq(p.siblings) /\ IsSeq(p.bits)

IsPacket(p) ==
  /\ p = [epoch |-> p.epoch, blockNumber |-> p.blockNumber, blockRoot |-> p.blockRoot,
          bucket |-> p.bucket, stemPrefix |-> p.stemPrefix, key |-> p.key,
          value |-> p.value, proof |-> p.proof]
  /\ IsSeq(p.stemPrefix) /\ IsSeq(p.key) /\ IsProof(p.proof)

LEMMA ProofIsCanonical ==
  ASSUME NEW w, IsWire(w), DecodeProof(w) # Error
  PROVE  LET p == DecodeProof(w)
         IN  IsProof(p) /\ EncodableProof(p) /\ EncodeProof(p) = w
<1> DEFINE value == After(w, 1)
           stem  == value + 1
           sibs  == After(w, stem)
           bits  == After(w, sibs)
           end   == After(w, bits)
           p == [key |-> Data(w, 1), value |-> Cell(w, value), stemValues |-> Data(w, stem),
                 siblings |-> Data(w, sibs), bits |-> Data(w, bits)]
<1>1. DecodeProof(w) = p /\ EncodableProof(p) /\ end = Len(w) + 1
  BY DEF DecodeProof, AllRead
<1>2. Len(w) \in Nat /\ IsSeq(w)
  BY LenOf DEF IsWire
<1>3. value \in Nat /\ value > 1
  BY NumAtIsNat
<1>4. stem \in Nat /\ stem > 1 /\ stem - 1 = value
  BY <1>3
<1> HIDE DEF value, stem
<1>5. sibs \in Nat /\ sibs > stem
  BY <1>4, NumAtIsNat
<1> HIDE DEF sibs
<1>6. bits \in Nat /\ bits > sibs
  BY <1>4, <1>5, NumAtIsNat
<1> HIDE DEF bits
<1>7. end > bits /\ bits <= Len(w) + 1 /\ sibs <= Len(w) + 1 /\ value <= Len(w)
  <2>1. bits \in Nat /\ 1 <= bits
    BY <1>4, <1>5, <1>6
  <2>2. end > bits
    BY <2>1, NumAtIsNat
  <2>3. QED
    BY <1>1, <1>2, <1>3, <1>4, <1>5, <1>6, <2>2
<1>8. /\ IsWire(Data(w, 1)) /\ Pre(w, 0) \o Packed(Data(w, 1)) = Pre(w, value - 1)
  <2>1. value <= Len(w) + 1 /\ 1 - 1 = 0
    BY <1>2, <1>3, <1>7
  <2>2. QED
    BY <2>1, DataRead DEF value
<1>9. Pre(w, value - 1) \o <<Cell(w, value)>> = Pre(w, stem - 1)
  BY <1>2, <1>3, <1>4, <1>7, CellRead
<1>10. IsWire(Data(w, stem)) /\ Pre(w, stem - 1) \o Packed(Data(w, stem)) = Pre(w, sibs - 1)
  <2>1. After(w, stem) <= Len(w) + 1 /\ 1 <= stem
    BY <1>4, <1>7 DEF sibs
  <2>2. QED
    BY <1>4, <2>1, DataRead DEF sibs
<1>11. IsWire(Data(w, sibs)) /\ Pre(w, sibs - 1) \o Packed(Data(w, sibs)) = Pre(w, bits - 1)
  BY <1>4, <1>5, <1>7, DataRead DEF bits
<1>12. IsWire(Data(w, bits)) /\ Pre(w, bits - 1) \o Packed(Data(w, bits)) = Pre(w, end - 1)
  <2>1. After(w, bits) <= Len(w) + 1 /\ bits \in Nat /\ 1 <= bits
    BY <1>1, <1>2, <1>4, <1>5, <1>6
  <2>2. QED
    BY <2>1, DataRead
<1>13. Pre(w, 0) \o Packed(Data(w, 1)) = Packed(Data(w, 1))
  <2>1. Pre(w, 0) = <<>>
    BY SubSeqEmpty DEF Pre
  <2>2. IsSeq(Packed(Data(w, 1)))
    BY <1>8, PackedIsSeq DEF IsWire
  <2>3. QED
    BY <2>1, <2>2, ConcatEmptySeq DEF IsSeq
<1>14. Pre(w, end - 1) = w
  BY <1>1, <1>2, WholePrefix
<1>15. EncodeProof(p) = w
  BY <1>8, <1>9, <1>10, <1>11, <1>12, <1>13, <1>14 DEF EncodeProof
<1>16. IsSeq(p.key) /\ IsSeq(p.stemValues) /\ IsSeq(p.siblings) /\ IsSeq(p.bits)
  BY <1>8, <1>10, <1>11, <1>12 DEF IsWire
<1> HIDE DEF end
<1>17. p = [key |-> p.key, value |-> p.value, stemValues |-> p.stemValues,
            siblings |-> p.siblings, bits |-> p.bits]
  OBVIOUS
<1>18. QED
  BY <1>1, <1>15, <1>16, <1>17 DEF IsProof

LEMMA FiveRead ==
  ASSUME NEW w, IsSeq(w), 5 <= Len(w)
  PROVE  <<w[1], w[2], w[3], w[4], w[5]>> = Pre(w, 5)
<1> DEFINE s == <<w[1], w[2], w[3], w[4], w[5]>>
<1>1. /\ IsSeq(s) /\ Len(s) = 5
      /\ s[1] = w[1] /\ s[2] = w[2] /\ s[3] = w[3] /\ s[4] = w[4] /\ s[5] = w[5]
  BY FiveCells
<1>2. IsSeq(Pre(w, 5)) /\ Len(Pre(w, 5)) = 5 /\ \A i \in 1..5 : Pre(w, 5)[i] = w[i]
  BY PrefixOf
<1> HIDE DEF s
<1>3. \A i \in 1..5 : s[i] = w[i]
  <2>1. \A i \in 1..5 : i = 1 \/ i = 2 \/ i = 3 \/ i = 4 \/ i = 5
    OBVIOUS
  <2>2. QED
    BY <1>1, <2>1
<1>4. s = Pre(w, 5)
  BY <1>1, <1>2, <1>3, SameSeq
<1>5. QED
  BY <1>4 DEF s

LEMMA ThreeRead ==
  ASSUME NEW w, IsSeq(w), 3 <= Len(w)
  PROVE  <<w[1], w[2], w[3]>> = Pre(w, 3)
<1> DEFINE s == <<w[1], w[2], w[3]>>
<1>1. IsSeq(s) /\ Len(s) = 3 /\ s[1] = w[1] /\ s[2] = w[2] /\ s[3] = w[3]
  BY ThreeCells
<1>2. IsSeq(Pre(w, 3)) /\ Len(Pre(w, 3)) = 3 /\ \A i \in 1..3 : Pre(w, 3)[i] = w[i]
  BY PrefixOf
<1> HIDE DEF s
<1>3. \A i \in 1..3 : s[i] = w[i]
  <2>1. \A i \in 1..3 : i = 1 \/ i = 2 \/ i = 3
    OBVIOUS
  <2>2. QED
    BY <1>1, <2>1
<1>4. s = Pre(w, 3)
  BY <1>1, <1>2, <1>3, SameSeq
<1>5. QED
  BY <1>4 DEF s

\* Of a packet that is accepted: the parts of the record, and the wire.
LEMMA PacketIsCanonical ==
  ASSUME NEW w, IsWire(w), DecodePacket(w) # Error
  PROVE  LET p == DecodePacket(w)
         IN  /\ IsPacket(p) /\ EncodableProof(p.proof)
             /\ EncodePacket(p) = w /\ w = Payload(p) \o <<Hash(Payload(p))>>
<1> DEFINE key   == After(w, 6)
           value == After(w, key)
           blob  == value + 1
           end   == After(w, blob)
           proof == DecodeProof(Data(w, blob))
           p     == [epoch |-> w[2], blockNumber |-> w[3], blockRoot |-> w[4], bucket |-> w[5],
                     stemPrefix |-> Data(w, 6), key |-> Data(w, key), value |-> Cell(w, value),
                     proof |-> proof]
<1>1. /\ DecodePacket(w) = p /\ Cell(w, 1) = Version /\ end + 1 = Len(w) + 1
      /\ proof # Error /\ Cell(w, end) = Hash(Payload(p))
  BY DEF DecodePacket, AllRead
<1>2. Len(w) \in Nat /\ IsSeq(w)
  BY LenOf DEF IsWire
<1>3. key \in Nat /\ key > 6
  BY NumAtIsNat
<1> HIDE DEF key
<1>4. value \in Nat /\ value > key
  BY <1>3, NumAtIsNat
<1>5. blob \in Nat /\ blob > key /\ blob - 1 = value /\ 1 <= blob
  BY <1>3, <1>4
<1> HIDE DEF value, blob
<1>6. end \in Nat /\ end > blob
  BY <1>5, NumAtIsNat
<1> HIDE DEF end
<1>7. end = Len(w) /\ value <= Len(w) /\ key <= Len(w) + 1 /\ 5 <= Len(w) /\ 1 <= key /\ 1 <= value
  BY <1>1, <1>2, <1>3, <1>4, <1>5, <1>6
<1>8. <<Version, w[2], w[3], w[4], w[5]>> = Pre(w, 6 - 1)
  <2>1. w[1] = Version
    BY <1>1, <1>2, <1>7 DEF Cell
  <2>2. 6 - 1 = 5
    OBVIOUS
  <2>3. QED
    BY <1>2, <1>7, <2>1, <2>2, FiveRead
<1>9. IsWire(Data(w, 6)) /\ Pre(w, 6 - 1) \o Packed(Data(w, 6)) = Pre(w, key - 1)
  BY <1>7, DataRead DEF key
<1>10. IsWire(Data(w, key)) /\ Pre(w, key - 1) \o Packed(Data(w, key)) = Pre(w, value - 1)
  <2>1. After(w, key) <= Len(w) + 1
    BY <1>2, <1>4, <1>7 DEF value
  <2>2. QED
    BY <1>3, <1>7, <2>1, DataRead DEF value
<1>11. Pre(w, value - 1) \o <<Cell(w, value)>> = Pre(w, blob - 1)
  BY <1>2, <1>4, <1>5, <1>7, CellRead
<1>12. IsWire(Data(w, blob)) /\ Pre(w, blob - 1) \o Packed(Data(w, blob)) = Pre(w, end - 1)
  <2>1. After(w, blob) <= Len(w) + 1
    BY <1>2, <1>7 DEF end
  <2>2. QED
    BY <1>5, <2>1, DataRead DEF end
<1>13. Pre(w, end - 1) \o <<Cell(w, end)>> = Pre(w, end)
  BY <1>2, <1>5, <1>6, <1>7, CellRead
<1>14. Pre(w, end) = w
  BY <1>2, <1>7, WholePrefix
<1>15. IsProof(proof) /\ EncodableProof(proof) /\ EncodeProof(proof) = Data(w, blob)
  BY <1>1, <1>12, ProofIsCanonical
<1> HIDE DEF proof
<1>16. Payload(p) = Pre(w, end - 1)
  BY <1>8, <1>9, <1>10, <1>11, <1>12, <1>15 DEF Payload
<1>17. w = Payload(p) \o <<Hash(Payload(p))>>
  BY <1>1, <1>13, <1>14, <1>16
<1>18. EncodePacket(p) = w
  BY <1>15, <1>17 DEF EncodePacket
<1>19. /\ p = [epoch |-> p.epoch, blockNumber |-> p.blockNumber, blockRoot |-> p.blockRoot,
               bucket |-> p.bucket, stemPrefix |-> p.stemPrefix, key |-> p.key,
               value |-> p.value, proof |-> p.proof]
       /\ p.proof = proof /\ IsSeq(p.stemPrefix) /\ IsSeq(p.key)
  BY <1>9, <1>10 DEF IsWire
<1> HIDE DEF p
<1>20. QED
  BY <1>1, <1>15, <1>17, <1>18, <1>19 DEF IsPacket

\* The numbers of a registration's window are numbers.
LEMMA RegistrationIsCanonical ==
  ASSUME NEW w, IsWire(w), DecodeRegistration(w) # Error,
         3 <= Len(w) => IsNumber(w[3]), 4 <= Len(w) => IsNumber(w[4])
  PROVE  EncodeRegistration(DecodeRegistration(w)) = w
<1> DEFINE end == After(w, 6)
           r == [commitment |-> Cell(w, 2), windowStart |-> Cell(w, 3), windowEnd |-> Cell(w, 4),
                 maxBuckets |-> Cell(w, 5), pubkey |-> Data(w, 6)]
<1>1. /\ DecodeRegistration(w) = r /\ Cell(w, 1) = Version /\ end = Len(w) + 1
      /\ NumAt(w, 4) >= NumAt(w, 3)
  BY DEF DecodeRegistration, AllRead
<1>2. Len(w) \in Nat /\ IsSeq(w)
  BY LenOf DEF IsWire
<1>3. end \in Nat /\ end > 6 /\ 6 <= Len(w)
  <2>1. end \in Nat /\ end > 6
    <3>1. 6 \in Nat /\ 1 <= 6
      OBVIOUS
    <3>2. QED
      BY <3>1, NumAtIsNat
  <2>2. QED
    BY <1>1, <1>2, <2>1
<1>4. /\ Cell(w, 1) = w[1] /\ Cell(w, 2) = w[2] /\ Cell(w, 3) = w[3]
      /\ Cell(w, 4) = w[4] /\ Cell(w, 5) = w[5]
  BY <1>2, <1>3 DEF Cell
<1>5. <<Version, r.commitment, r.windowStart, r.windowEnd, r.maxBuckets>> = Pre(w, 6 - 1)
  <2>1. 6 - 1 = 5 /\ 5 <= Len(w)
    BY <1>2, <1>3
  <2>2. QED
    BY <1>1, <1>2, <1>4, <2>1, FiveRead
<1>6. Pre(w, 6 - 1) \o Packed(r.pubkey) = Pre(w, end - 1)
  <2>1. After(w, 6) <= Len(w) + 1 /\ 6 \in Nat /\ 1 <= 6
    BY <1>1, <1>2
  <2>2. Pre(w, 6 - 1) \o Packed(Data(w, 6)) = Pre(w, After(w, 6) - 1)
    BY <2>1, DataRead
  <2>3. QED
    BY <2>2
<1>7. Pre(w, end - 1) = w
  BY <1>1, <1>2, WholePrefix
<1>8. ~ (r.windowEnd[2] < r.windowStart[2])
  <2>1. IsNumber(w[3]) /\ IsNumber(w[4])
    BY <1>2, <1>3
  <2>2. NumAt(w, 3) = w[3][2] /\ NumAt(w, 4) = w[4][2] /\ w[3][2] \in Nat /\ w[4][2] \in Nat
    BY <1>4, <2>1 DEF NumAt, IsNumber, Num
  <2>3. QED
    BY <1>1, <1>4, <2>2
<1>9. QED
  BY <1>1, <1>5, <1>6, <1>7, <1>8 DEF EncodeRegistration

LEMMA ManifestIsCanonical ==
  ASSUME NEW w, IsWire(w), DecodeManifest(w) # Error
  PROVE  LET m == DecodeManifest(w)
         IN  /\ EncodeManifest(m) = w
             /\ m.commitments = Data(w, 4) /\ 4 <= Len(w) /\ IsSeq(m.commitments)
             /\ w[4] = Num(Len(m.commitments)) /\ Len(w) = Len(m.commitments) + 5
             /\ w[Len(w)] = HashConcat(m.commitments)
<1> DEFINE last == After(w, 4)
           m == [epoch |-> Cell(w, 2), bucket |-> Cell(w, 3), commitments |-> Data(w, 4),
                 root |-> Cell(w, last)]
<1>1. /\ DecodeManifest(w) = m /\ Cell(w, 1) = Version /\ last + 1 = Len(w) + 1
      /\ HashConcat(m.commitments) = m.root
  BY DEF DecodeManifest, AllRead, VerifyManifest
<1>2. Len(w) \in Nat /\ IsSeq(w)
  BY LenOf DEF IsWire
<1>3. last \in Nat /\ last > 4 /\ last = Len(w)
  <2>1. last \in Nat /\ last > 4
    BY NumAtIsNat
  <2>2. QED
    BY <1>1, <1>2, <2>1
<1>4. Cell(w, 1) = w[1] /\ Cell(w, 2) = w[2] /\ Cell(w, 3) = w[3] /\ Cell(w, last) = w[last]
  BY <1>2, <1>3 DEF Cell
<1>5. <<Version, m.epoch, m.bucket>> = Pre(w, 4 - 1)
  <2>1. 4 - 1 = 3 /\ 3 <= Len(w)
    BY <1>2, <1>3
  <2>2. QED
    BY <1>1, <1>2, <1>4, <2>1, ThreeRead
<1>6. /\ IsWire(m.commitments) /\ Len(m.commitments) = NumAt(w, 4)
      /\ Pre(w, 4 - 1) \o Packed(m.commitments) = Pre(w, last - 1)
  BY <1>2, <1>3, DataRead
<1>7. NumAt(w, 4) \in Nat /\ w[4] = Num(NumAt(w, 4)) /\ last = 5 + NumAt(w, 4)
  <2>1. NumAt(w, 4) \in Nat /\ w[4] = Num(NumAt(w, 4))
    <3>1. 4 \in Nat /\ 1 <= 4 /\ After(w, 4) <= Len(w) + 1
      BY <1>2, <1>3
    <3>2. QED
      BY <3>1, NumAtIsNat
  <2>2. QED
    BY <2>1 DEF After
<1>8. Pre(w, last - 1) \o <<m.root>> = w
  <2>1. last \in Nat /\ 1 <= last /\ last <= Len(w)
    BY <1>2, <1>3
  <2>2. Pre(w, last - 1) \o <<Cell(w, last)>> = Pre(w, last)
    BY <1>2, <2>1, CellRead
  <2>3. Pre(w, last) = w
    BY <1>2, <1>3, WholePrefix
  <2>4. QED
    BY <2>2, <2>3
<1>9. EncodeManifest(m) = w
  BY <1>5, <1>6, <1>8 DEF EncodeManifest
<1> HIDE DEF last
<1>10. m.commitments = Data(w, 4) /\ m.root = w[Len(w)]
  BY <1>3, <1>4
<1> HIDE DEF m
<1>11. w[4] = Num(Len(m.commitments)) /\ Len(w) = Len(m.commitments) + 5 /\ 4 <= Len(w)
  BY <1>3, <1>6, <1>7
<1>12. IsSeq(m.commitments)
  BY <1>6 DEF IsWire
<1>13. QED
  BY <1>1, <1>9, <1>10, <1>11, <1>12

-----------------------------------------------------------------------------
(* Reading back: what was written is read *)

Starts(u, w) ==
  /\ IsSeq(u) /\ IsSeq(w) /\ Len(u) <= Len(w)
  /\ \A i \in 1..Len(u) : w[i] = u[i]

LEMMA StartsShorter ==
  ASSUME NEW u, NEW x, NEW w, IsSeq(u), IsSeq(x), Starts(u \o x, w)
  PROVE  Starts(u, w)
<1>1. Len(u) \in Nat /\ Len(x) \in Nat /\ Len(w) \in Nat
  BY LenOf DEF Starts
<1>2. /\ Len(u \o x) = Len(u) + Len(x)
      /\ \A i \in 1..Len(u) : (u \o x)[i] = u[i]
  BY Joined
<1>3. Len(u) <= Len(w) /\ \A i \in 1..Len(u) : i \in 1..Len(u \o x)
  BY <1>1, <1>2 DEF Starts
<1>4. \A i \in 1..Len(u) : w[i] = u[i]
  BY <1>2, <1>3 DEF Starts
<1>5. QED
  BY <1>3, <1>4 DEF Starts

LEMMA CellBack ==
  ASSUME NEW u, NEW c, NEW w, IsSeq(u), Starts(u \o <<c>>, w)
  PROVE  /\ Starts(u, w) /\ IsSeq(u \o <<c>>)
         /\ Len(u \o <<c>>) = Len(u) + 1 /\ Len(u) + 1 <= Len(w)
         /\ Cell(w, Len(u) + 1) = c /\ w[Len(u) + 1] = c
<1>1. Len(u) \in Nat /\ Len(w) \in Nat
  BY LenOf DEF Starts
<1>2. IsSeq(<<c>>) /\ Len(<<c>>) = 1 /\ <<c>>[1] = c
  BY OneCell
<1>3. Starts(u, w)
  BY <1>2, StartsShorter
<1>4. /\ IsSeq(u \o <<c>>) /\ Len(u \o <<c>>) = Len(u) + 1
      /\ \A i \in 1..1 : (u \o <<c>>)[Len(u) + i] = <<c>>[i]
  BY <1>2, Joined
<1>5. (u \o <<c>>)[Len(u) + 1] = c
  BY <1>2, <1>4
<1>6. Len(u) + 1 <= Len(w) /\ Len(u) + 1 \in 1..Len(u \o <<c>>)
  BY <1>1, <1>4 DEF Starts
<1>7. w[Len(u) + 1] = (u \o <<c>>)[Len(u) + 1]
  BY <1>6 DEF Starts
<1>8. Cell(w, Len(u) + 1) = w[Len(u) + 1]
  BY <1>6 DEF Cell
<1>9. QED
  BY <1>3, <1>4, <1>5, <1>6, <1>7, <1>8

LEMMA DataBack ==
  ASSUME NEW u, NEW d, NEW w, IsSeq(u), IsSeq(d), Starts(u \o Packed(d), w)
  PROVE  /\ Starts(u, w) /\ IsSeq(u \o Packed(d))
         /\ NumAt(w, Len(u) + 1) = Len(d) /\ Data(w, Len(u) + 1) = d
         /\ After(w, Len(u) + 1) = Len(u \o Packed(d)) + 1
         /\ Len(u \o Packed(d)) \in Nat /\ Len(u \o Packed(d)) > Len(u)
<1> DEFINE at == Len(u) + 1
           n  == Len(d)
           v  == u \o <<Num(n)>>
<1>1. Len(u) \in Nat /\ n \in Nat /\ Len(w) \in Nat
  BY LenOf DEF Starts
<1>2. IsSeq(Packed(d)) /\ Len(Packed(d)) = n + 1
  BY PackedIsSeq
<1>3. /\ Starts(u, w) /\ IsSeq(u \o Packed(d))
      /\ Len(u \o Packed(d)) = Len(u) + (n + 1)
  BY <1>2, StartsShorter, Joined
<1>4. IsSeq(v) /\ Len(v) = at
  BY OneCell, Joined
<1>5. u \o Packed(d) = v \o d
  <2>1. IsSeq(<<Num(n)>>)
    BY OneCell
  <2>2. QED
    BY <2>1, Associated DEF Packed
<1>6. /\ \A i \in 1..n : (v \o d)[at + i] = d[i]
      /\ Len(v \o d) = at + n
  BY <1>4, Joined
<1>7. Starts(v \o d, w)
  BY <1>5
<1> HIDE DEF v
<1>8. Starts(v, w)
  BY <1>4, <1>7, StartsShorter
<1>9. Cell(w, at) = Num(n)
  BY <1>8, CellBack DEF v
<1>10. NumAt(w, at) = n
  BY <1>9 DEF NumAt, Num
<1>11. After(w, at) = at + 1 + n
  BY <1>10 DEF After
<1>12. at + n <= Len(w)
  BY <1>6, <1>7 DEF Starts
<1>13. Data(w, at) = d
  <2>1. PICK m \in Nat : m = at + 1
    BY <1>1
  <2>2. PICK k \in Nat : k = at + n
    BY <1>1
  <2>3. 1 <= m /\ m <= k + 1 /\ k <= Len(w) /\ k + 1 - m = n
    BY <1>1, <1>12, <2>1, <2>2
  <2>4. /\ IsSeq(SubSeq(w, m, k)) /\ Len(SubSeq(w, m, k)) = n
        /\ \A i \in 1..n : SubSeq(w, m, k)[i] = w[m + i - 1]
    <3>1. IsSeq(w)
      BY <1>8 DEF Starts
    <3>2. QED
      BY <2>3, <3>1, Stretch
  <2>5. ASSUME NEW i \in 1..n PROVE SubSeq(w, m, k)[i] = d[i]
    <3>1. m + i - 1 = at + i /\ at + i \in 1..Len(v \o d)
      BY <1>1, <1>6, <2>1
    <3>2. w[at + i] = (v \o d)[at + i]
      BY <1>7, <3>1 DEF Starts
    <3>3. QED
      BY <1>6, <2>4, <3>1, <3>2
  <2>6. Data(w, at) = SubSeq(w, m, k)
    BY <1>10, <2>1, <2>2 DEF Data
  <2>7. QED
    BY <2>4, <2>5, <2>6, SameSeq
<1>14. After(w, at) = Len(u \o Packed(d)) + 1 /\ Len(u \o Packed(d)) > Len(u)
  BY <1>1, <1>3, <1>11
<1>15. Len(u \o Packed(d)) \in Nat
  BY <1>3, LenOf
<1>16. QED
  BY <1>3, <1>10, <1>13, <1>14, <1>15

LEMMA StartsItself ==
  ASSUME NEW w, IsSeq(w)
  PROVE  Starts(w, w)
BY LenOf DEF Starts

LEMMA ProofBack ==
  ASSUME NEW p, IsProof(p)
  PROVE  LET w    == EncodeProof(p)
             stem == After(w, 1) + 1
             sibs == After(w, stem)
             bits == After(w, sibs)
         IN  /\ IsSeq(w) /\ After(w, bits) = Len(w) + 1
             /\ NumAt(w, 1) = Len(p.key) /\ NumAt(w, sibs) = Len(p.siblings)
             /\ p = [key |-> Data(w, 1), value |-> Cell(w, After(w, 1)),
                     stemValues |-> Data(w, stem), siblings |-> Data(w, sibs),
                     bits |-> Data(w, bits)]
<1> DEFINE w    == EncodeProof(p)
           stem == After(w, 1) + 1
           sibs == After(w, stem)
           bits == After(w, sibs)
           u1 == Packed(p.key)
           u2 == u1 \o <<p.value>>
           u3 == u2 \o Packed(p.stemValues)
           u4 == u3 \o Packed(p.siblings)
           u5 == u4 \o Packed(p.bits)
<1>1. IsSeq(p.key) /\ IsSeq(p.stemValues) /\ IsSeq(p.siblings) /\ IsSeq(p.bits)
  BY DEF IsProof
<1>2. w = u5
  BY DEF EncodeProof
<1>3. IsSeq(<<>>) /\ Len(<<>>) = 0 /\ <<>> \o u1 = u1 /\ IsSeq(u1)
  <2>1. IsSeq(u1)
    BY <1>1, PackedIsSeq
  <2>2. <<>> \in Seq({}) /\ Len(<<>>) = 0
    OBVIOUS
  <2>3. <<>> \o u1 = u1
    BY <2>1, ConcatEmptySeq DEF IsSeq
  <2>4. QED
    BY <2>1, <2>2, <2>3, SeqIsSeq
<1> HIDE DEF u1
<1>4. IsSeq(u2)
  BY <1>3, OneCell, Joined
<1> HIDE DEF u2
<1>5. IsSeq(u3)
  BY <1>1, <1>4, PackedIsSeq, Joined
<1> HIDE DEF u3
<1>6. IsSeq(u4)
  BY <1>1, <1>5, PackedIsSeq, Joined
<1> HIDE DEF u4
<1>7. IsSeq(u5)
  BY <1>1, <1>6, PackedIsSeq, Joined
<1> HIDE DEF w
<1>8. Starts(u4 \o Packed(p.bits), w)
  BY <1>2, <1>7, StartsItself
<1>9. /\ Starts(u4, w) /\ Data(w, Len(u4) + 1) = p.bits
      /\ After(w, Len(u4) + 1) = Len(w) + 1
  BY <1>1, <1>2, <1>6, <1>8, DataBack
<1>10. /\ Starts(u3, w) /\ Data(w, Len(u3) + 1) = p.siblings
       /\ NumAt(w, Len(u3) + 1) = Len(p.siblings) /\ After(w, Len(u3) + 1) = Len(u4) + 1
  BY <1>1, <1>5, <1>9, DataBack DEF u4
<1>11. /\ Starts(u2, w) /\ Data(w, Len(u2) + 1) = p.stemValues
       /\ After(w, Len(u2) + 1) = Len(u3) + 1
  BY <1>1, <1>4, <1>10, DataBack DEF u3
<1>12. Starts(u1, w) /\ Cell(w, Len(u1) + 1) = p.value /\ Len(u2) = Len(u1) + 1
  BY <1>3, <1>11, CellBack DEF u2
<1>13. Data(w, 1) = p.key /\ NumAt(w, 1) = Len(p.key) /\ After(w, 1) = Len(u1) + 1
  <2>1. Starts(<<>> \o Packed(p.key), w)
    BY <1>3, <1>12 DEF u1
  <2>2. /\ Data(w, Len(<<>>) + 1) = p.key /\ NumAt(w, Len(<<>>) + 1) = Len(p.key)
        /\ After(w, Len(<<>>) + 1) = Len(<<>> \o Packed(p.key)) + 1
    <3>1. IsSeq(<<>>) /\ IsSeq(p.key)
      BY <1>1, <1>3
    <3>2. QED
      BY <2>1, <3>1, DataBack
  <2>3. <<>> \o Packed(p.key) = u1 /\ Len(<<>>) + 1 = 1
    BY <1>3 DEF u1
  <2>4. QED
    BY <2>2, <2>3
<1>14. stem = Len(u2) + 1 /\ sibs = Len(u3) + 1 /\ bits = Len(u4) + 1
  BY <1>10, <1>11, <1>12, <1>13
<1>15. p = [key |-> Data(w, 1), value |-> Cell(w, After(w, 1)), stemValues |-> Data(w, stem),
            siblings |-> Data(w, sibs), bits |-> Data(w, bits)]
  <2>1. p = [key |-> p.key, value |-> p.value, stemValues |-> p.stemValues,
             siblings |-> p.siblings, bits |-> p.bits]
    BY DEF IsProof
  <2>2. QED
    BY <1>9, <1>10, <1>11, <1>12, <1>13, <1>14, <2>1
<1>16. After(w, bits) = Len(w) + 1 /\ NumAt(w, sibs) = Len(p.siblings) /\ IsSeq(w)
  BY <1>2, <1>7, <1>9, <1>10, <1>14
<1>17. QED
  BY <1>13, <1>15, <1>16 DEF w

LEMMA ProofsDiffer ==
  ASSUME NEW p, NEW q, IsProof(p), IsProof(q), EncodeProof(p) = EncodeProof(q)
  PROVE  p = q
BY ProofBack

LEMMA ProofIsRead ==
  ASSUME NEW p, IsProof(p), EncodableProof(p), Len(p.key) <= MaxKey,
         Len(p.siblings) <= MaxPath, Len(EncodeProof(p)) <= MaxBlob
  PROVE  DecodeProof(EncodeProof(p)) = p /\ p # Error
<1> DEFINE w    == EncodeProof(p)
           stem == After(w, 1) + 1
           sibs == After(w, stem)
           bits == After(w, sibs)
           q == [key |-> Data(w, 1), value |-> Cell(w, After(w, 1)), stemValues |-> Data(w, stem),
                 siblings |-> Data(w, sibs), bits |-> Data(w, bits)]
<1>1. /\ After(w, bits) = Len(w) + 1 /\ p = q
      /\ NumAt(w, 1) = Len(p.key) /\ NumAt(w, sibs) = Len(p.siblings)
  BY ProofBack
<1>2. DecodeProof(w) = q
  BY <1>1 DEF DecodeProof, AllRead
<1>3. p # Error
  <2>1. p = [key |-> p.key, value |-> p.value, stemValues |-> p.stemValues,
             siblings |-> p.siblings, bits |-> p.bits]
    BY DEF IsProof
  <2>2. DOMAIN p # DOMAIN Error
    BY <2>1 DEF Error
  <2>3. QED
    BY <2>2
<1>4. QED
  BY <1>1, <1>2, <1>3

LEMMA PayloadIsSeq ==
  ASSUME NEW p, IsPacket(p)
  PROVE  IsSeq(Payload(p))
<1> DEFINE u0 == <<Version, p.epoch, p.blockNumber, p.blockRoot, p.bucket>>
           u1 == u0 \o Packed(p.stemPrefix)
           u2 == u1 \o Packed(p.key)
           u3 == u2 \o <<p.value>>
<1>1. IsSeq(p.stemPrefix) /\ IsSeq(p.key) /\ IsSeq(EncodeProof(p.proof))
  BY ProofBack DEF IsPacket
<1>2. IsSeq(u0)
  BY FiveCells
<1> HIDE DEF u0
<1>3. IsSeq(u1)
  BY <1>1, <1>2, PackedIsSeq, Joined
<1> HIDE DEF u1
<1>4. IsSeq(u2)
  BY <1>1, <1>3, PackedIsSeq, Joined
<1> HIDE DEF u2
<1>5. IsSeq(u3)
  BY <1>4, OneCell, Joined
<1> HIDE DEF u3
<1>6. IsSeq(u3 \o Packed(EncodeProof(p.proof)))
  BY <1>1, <1>5, PackedIsSeq, Joined
<1>7. QED
  BY <1>6 DEF Payload, u0, u1, u2, u3

LEMMA PayloadBack ==
  ASSUME NEW p, IsPacket(p), NEW w, Starts(Payload(p), w)
  PROVE  LET key   == After(w, 6)
             value == After(w, key)
             blob  == value + 1
         IN  /\ 5 <= Len(w) /\ w[1] = Version
             /\ NumAt(w, 6) = Len(p.stemPrefix) /\ NumAt(w, key) = Len(p.key)
             /\ NumAt(w, blob) = Len(EncodeProof(p.proof))
             /\ Data(w, blob) = EncodeProof(p.proof)
             /\ After(w, blob) = Len(Payload(p)) + 1
             /\ p = [epoch |-> w[2], blockNumber |-> w[3], blockRoot |-> w[4], bucket |-> w[5],
                     stemPrefix |-> Data(w, 6), key |-> Data(w, key), value |-> Cell(w, value),
                     proof |-> p.proof]
<1> DEFINE key   == After(w, 6)
           value == After(w, key)
           blob  == value + 1
           u0 == <<Version, p.epoch, p.blockNumber, p.blockRoot, p.bucket>>
           u1 == u0 \o Packed(p.stemPrefix)
           u2 == u1 \o Packed(p.key)
           u3 == u2 \o <<p.value>>
<1>1. IsSeq(p.stemPrefix) /\ IsSeq(p.key) /\ IsSeq(EncodeProof(p.proof))
  BY ProofBack DEF IsPacket
<1>2. Payload(p) = u3 \o Packed(EncodeProof(p.proof))
  BY DEF Payload
<1>3. /\ IsSeq(u0) /\ Len(u0) = 5
      /\ u0[1] = Version /\ u0[2] = p.epoch /\ u0[3] = p.blockNumber
      /\ u0[4] = p.blockRoot /\ u0[5] = p.bucket
  BY FiveCells
<1> HIDE DEF u0
<1>4. IsSeq(u1)
  BY <1>1, <1>3, PackedIsSeq, Joined
<1> HIDE DEF u1
<1>5. IsSeq(u2)
  BY <1>1, <1>4, PackedIsSeq, Joined
<1> HIDE DEF u2
<1>6. IsSeq(u3)
  BY <1>5, OneCell, Joined
<1> HIDE DEF u3
<1>8. Starts(u3 \o Packed(EncodeProof(p.proof)), w)
  BY <1>2
<1>9. /\ Starts(u3, w) /\ Data(w, Len(u3) + 1) = EncodeProof(p.proof)
      /\ NumAt(w, Len(u3) + 1) = Len(EncodeProof(p.proof)) /\ After(w, Len(u3) + 1) = Len(Payload(p)) + 1
  BY <1>1, <1>2, <1>6, <1>8, DataBack
<1>10. Starts(u2, w) /\ Cell(w, Len(u2) + 1) = p.value /\ Len(u3) = Len(u2) + 1
  BY <1>5, <1>9, CellBack DEF u3
<1>11. /\ Starts(u1, w) /\ Data(w, Len(u1) + 1) = p.key
       /\ NumAt(w, Len(u1) + 1) = Len(p.key) /\ After(w, Len(u1) + 1) = Len(u2) + 1
  BY <1>1, <1>4, <1>10, DataBack DEF u2
<1>12. /\ Starts(u0, w) /\ Data(w, 6) = p.stemPrefix
       /\ NumAt(w, 6) = Len(p.stemPrefix) /\ After(w, 6) = Len(u1) + 1
  <2>1. /\ Starts(u0, w) /\ Data(w, Len(u0) + 1) = p.stemPrefix
        /\ NumAt(w, Len(u0) + 1) = Len(p.stemPrefix) /\ After(w, Len(u0) + 1) = Len(u1) + 1
    <3>1. IsSeq(u0) /\ IsSeq(p.stemPrefix) /\ Starts(u0 \o Packed(p.stemPrefix), w)
      BY <1>1, <1>3, <1>11 DEF u1
    <3>2. QED
      BY <3>1, DataBack DEF u1
  <2>2. Len(u0) + 1 = 6
    BY <1>3
  <2>3. QED
    BY <2>1, <2>2
<1>13. key = Len(u1) + 1 /\ value = Len(u2) + 1 /\ blob = Len(u3) + 1
  BY <1>10, <1>11, <1>12
<1>14. /\ 5 <= Len(w) /\ w[1] = Version /\ w[2] = p.epoch /\ w[3] = p.blockNumber
       /\ w[4] = p.blockRoot /\ w[5] = p.bucket
  <2>1. Len(u0) <= Len(w) /\ \A i \in 1..5 : w[i] = u0[i]
    BY <1>3, <1>12 DEF Starts
  <2>2. w[1] = u0[1] /\ w[2] = u0[2] /\ w[3] = u0[3] /\ w[4] = u0[4] /\ w[5] = u0[5]
    BY <2>1
  <2>3. QED
    BY <1>3, <2>1, <2>2
<1>15. p = [epoch |-> w[2], blockNumber |-> w[3], blockRoot |-> w[4], bucket |-> w[5],
            stemPrefix |-> Data(w, 6), key |-> Data(w, key), value |-> Cell(w, value),
            proof |-> p.proof]
  <2>1. p = [epoch |-> p.epoch, blockNumber |-> p.blockNumber, blockRoot |-> p.blockRoot,
             bucket |-> p.bucket, stemPrefix |-> p.stemPrefix, key |-> p.key,
             value |-> p.value, proof |-> p.proof]
    BY DEF IsPacket
  <2>2. QED
    BY <1>10, <1>11, <1>12, <1>13, <1>14, <2>1
<1>16. QED
  BY <1>9, <1>11, <1>12, <1>13, <1>14, <1>15

LEMMA PayloadsDiffer ==
  ASSUME NEW p, NEW q, IsPacket(p), IsPacket(q), Payload(p) = Payload(q)
  PROVE  p = q
<1> DEFINE w     == Payload(p)
           key   == After(w, 6)
           value == After(w, key)
           blob  == value + 1
           part(x) == [epoch |-> w[2], blockNumber |-> w[3], blockRoot |-> w[4], bucket |-> w[5],
                       stemPrefix |-> Data(w, 6), key |-> Data(w, key), value |-> Cell(w, value),
                       proof |-> x]
<1>1. IsSeq(w)
  BY PayloadIsSeq
<1>2. Starts(w, w)
  BY <1>1, StartsItself
<1>3. p = part(p.proof) /\ Data(w, blob) = EncodeProof(p.proof)
  BY <1>2, PayloadBack
<1>4. q = part(q.proof) /\ Data(w, blob) = EncodeProof(q.proof)
  BY <1>2, PayloadBack
<1>5. p.proof = q.proof
  BY <1>3, <1>4, ProofsDiffer DEF IsPacket
<1>6. QED
  BY <1>3, <1>4, <1>5

LEMMA PacketIsRead ==
  ASSUME NEW p, IsPacket(p), EncodableProof(p.proof), Len(p.stemPrefix) <= MaxStemPrefix,
         Len(p.key) <= MaxKey, Len(p.proof.siblings) <= MaxPath,
         Len(EncodeProof(p.proof)) <= MaxBlob, Len(EncodePacket(p)) <= MaxWire,
         p.proof.key = p.key, p.proof.value = p.value
  PROVE  DecodePacket(EncodePacket(p)) = p
<1> DEFINE u == Payload(p)
           w == EncodePacket(p)
           key   == After(w, 6)
           value == After(w, key)
           blob  == value + 1
           end   == After(w, blob)
           q == [epoch |-> w[2], blockNumber |-> w[3], blockRoot |-> w[4], bucket |-> w[5],
                 stemPrefix |-> Data(w, 6), key |-> Data(w, key), value |-> Cell(w, value),
                 proof |-> DecodeProof(Data(w, blob))]
<1>1. w = u \o <<Hash(u)>>
  BY DEF EncodePacket
<1>2. IsSeq(u)
  BY PayloadIsSeq
<1>3. Starts(u \o <<Hash(u)>>, w)
  <2>1. IsSeq(u \o <<Hash(u)>>)
    BY <1>2, OneCell, Joined
  <2>2. QED
    BY <1>1, <2>1, StartsItself
<1>4. Starts(u, w) /\ Cell(w, Len(u) + 1) = Hash(u) /\ Len(w) = Len(u) + 1
  BY <1>1, <1>2, <1>3, CellBack
<1>5. Len(u) \in Nat /\ IsProof(p.proof)
  BY <1>2, LenOf DEF IsPacket
<1> HIDE DEF w, u
<1>6. /\ 5 <= Len(w) /\ w[1] = Version /\ NumAt(w, 6) = Len(p.stemPrefix)
      /\ NumAt(w, key) = Len(p.key) /\ NumAt(w, blob) = Len(EncodeProof(p.proof))
      /\ Data(w, blob) = EncodeProof(p.proof) /\ end = Len(u) + 1
      /\ p = [epoch |-> w[2], blockNumber |-> w[3], blockRoot |-> w[4], bucket |-> w[5],
              stemPrefix |-> Data(w, 6), key |-> Data(w, key), value |-> Cell(w, value),
              proof |-> p.proof]
  BY <1>4, PayloadBack DEF u
<1> HIDE DEF key, value, blob, end
<1>7. DecodeProof(Data(w, blob)) = p.proof /\ p.proof # Error
  BY <1>5, <1>6, ProofIsRead
<1>8. q = p
  BY <1>6, <1>7
<1>9. Cell(w, 1) = Version
  BY <1>6, <1>4, <1>5 DEF Cell
<1>10. AllRead(w, end + 1)
  BY <1>4, <1>5, <1>6 DEF AllRead
<1>11. /\ p.key = Data(w, key) /\ p.value = Cell(w, value)
  BY <1>6
<1>12. /\ Len(w) <= MaxWire /\ NumAt(w, 6) <= MaxStemPrefix /\ NumAt(w, key) <= MaxKey
       /\ NumAt(w, blob) <= MaxBlob /\ Cell(w, end) = Hash(Payload(q))
  BY <1>4, <1>6, <1>8 DEF w, u
<1>13. DecodePacket(w) = q
  BY <1>7, <1>9, <1>10, <1>11, <1>12 DEF DecodePacket, key, value, blob, end
<1>14. QED
  BY <1>8, <1>13 DEF w

LEMMA RegistrationIsRead ==
  ASSUME NEW r, IsSeq(r.pubkey), IsNumber(r.windowStart), IsNumber(r.windowEnd),
         r.windowEnd[2] >= r.windowStart[2],
         r = [commitment |-> r.commitment, windowStart |-> r.windowStart,
              windowEnd |-> r.windowEnd, maxBuckets |-> r.maxBuckets, pubkey |-> r.pubkey]
  PROVE  DecodeRegistration(EncodeRegistration(r)) = r
<1> DEFINE u == <<Version, r.commitment, r.windowStart, r.windowEnd, r.maxBuckets>>
           w == u \o Packed(r.pubkey)
           q == [commitment |-> Cell(w, 2), windowStart |-> Cell(w, 3), windowEnd |-> Cell(w, 4),
                 maxBuckets |-> Cell(w, 5), pubkey |-> Data(w, 6)]
<1>1. r.windowEnd[2] \in Nat /\ r.windowStart[2] \in Nat
  BY DEF IsNumber
<1>2. EncodeRegistration(r) = w
  BY <1>1 DEF EncodeRegistration
<1>3. /\ IsSeq(u) /\ Len(u) = 5
      /\ u[1] = Version /\ u[2] = r.commitment /\ u[3] = r.windowStart
      /\ u[4] = r.windowEnd /\ u[5] = r.maxBuckets
  BY FiveCells
<1> HIDE DEF u
<1>4. Starts(u \o Packed(r.pubkey), w)
  <2>1. IsSeq(w)
    BY <1>3, PackedIsSeq, Joined
  <2>2. QED
    BY <2>1, StartsItself
<1>5. Starts(u, w) /\ Data(w, 6) = r.pubkey /\ After(w, 6) = Len(w) + 1
  <2>1. IsSeq(u)
    BY <1>3
  <2>2. /\ Starts(u, w) /\ Data(w, Len(u) + 1) = r.pubkey
        /\ After(w, Len(u) + 1) = Len(u \o Packed(r.pubkey)) + 1
    BY <1>4, <2>1, DataBack
  <2>3. Len(u) + 1 = 6
    BY <1>3
  <2>4. QED
    BY <2>2, <2>3
<1> HIDE DEF w
<1>6. /\ Cell(w, 1) = Version /\ Cell(w, 2) = r.commitment /\ Cell(w, 3) = r.windowStart
      /\ Cell(w, 4) = r.windowEnd /\ Cell(w, 5) = r.maxBuckets
  <2>1. Len(w) \in Nat /\ 5 <= Len(w) /\ \A i \in 1..5 : w[i] = u[i]
    BY <1>3, <1>5, LenOf DEF Starts
  <2>2. w[1] = u[1] /\ w[2] = u[2] /\ w[3] = u[3] /\ w[4] = u[4] /\ w[5] = u[5]
    BY <2>1
  <2>3. QED
    BY <1>3, <2>1, <2>2 DEF Cell
<1>7. NumAt(w, 3) = r.windowStart[2] /\ NumAt(w, 4) = r.windowEnd[2]
  BY <1>6 DEF NumAt, IsNumber, Num
<1>8. q = r
  BY <1>5, <1>6
<1>9. DecodeRegistration(w) = q
  BY <1>5, <1>6, <1>7 DEF DecodeRegistration, AllRead
<1>10. QED
  BY <1>2, <1>8, <1>9

LEMMA ManifestIsRead ==
  ASSUME NEW m, IsSeq(m.commitments), VerifyManifest(m), Len(m.commitments) <= MaxManifest,
         m = [epoch |-> m.epoch, bucket |-> m.bucket, commitments |-> m.commitments,
              root |-> m.root]
  PROVE  DecodeManifest(EncodeManifest(m)) = m
<1> DEFINE u == <<Version, m.epoch, m.bucket>>
           v == u \o Packed(m.commitments)
           w == v \o <<m.root>>
           last == After(w, 4)
           q == [epoch |-> Cell(w, 2), bucket |-> Cell(w, 3), commitments |-> Data(w, 4),
                 root |-> Cell(w, last)]
<1>1. EncodeManifest(m) = w
  BY DEF EncodeManifest
<1>2. IsSeq(u) /\ Len(u) = 3 /\ u[1] = Version /\ u[2] = m.epoch /\ u[3] = m.bucket
  BY ThreeCells
<1> HIDE DEF u
<1>3. IsSeq(v) /\ Len(v) \in Nat
  BY <1>2, PackedIsSeq, Joined, LenOf
<1>4. Starts(v \o <<m.root>>, w)
  BY <1>3, OneCell, Joined, StartsItself
<1>5. Starts(v, w) /\ Cell(w, Len(v) + 1) = m.root /\ Len(w) = Len(v) + 1
  BY <1>3, <1>4, CellBack
<1> HIDE DEF w
<1>6. /\ Starts(u, w) /\ NumAt(w, 4) = Len(m.commitments) /\ Data(w, 4) = m.commitments
      /\ last = Len(v) + 1
  <2>1. IsSeq(u) /\ Starts(u \o Packed(m.commitments), w)
    BY <1>2, <1>5
  <2>2. /\ Starts(u, w) /\ NumAt(w, Len(u) + 1) = Len(m.commitments)
        /\ Data(w, Len(u) + 1) = m.commitments /\ After(w, Len(u) + 1) = Len(v) + 1
    BY <2>1, DataBack
  <2>3. Len(u) + 1 = 4
    BY <1>2
  <2>4. QED
    BY <2>2, <2>3
<1> HIDE DEF v
<1>7. Cell(w, 1) = Version /\ Cell(w, 2) = m.epoch /\ Cell(w, 3) = m.bucket
  <2>1. Len(w) \in Nat /\ 3 <= Len(w) /\ \A i \in 1..3 : w[i] = u[i]
    BY <1>2, <1>6, LenOf DEF Starts
  <2>2. w[1] = u[1] /\ w[2] = u[2] /\ w[3] = u[3]
    BY <2>1
  <2>3. QED
    BY <1>2, <2>1, <2>2 DEF Cell
<1>8. q = m
  BY <1>5, <1>6, <1>7
<1>9. AllRead(w, last + 1)
  BY <1>3, <1>5, <1>6 DEF AllRead
<1> HIDE DEF last
<1>10. DecodeManifest(w) = q
  BY <1>6, <1>7, <1>8, <1>9 DEF DecodeManifest, last
<1>11. QED
  BY <1>1, <1>8, <1>10

-----------------------------------------------------------------------------
(* One arrangement for every order *)

LEMMA OrderedIsOrdered ==
  ASSUME NEW s, IsSeq(s)
  PROVE  /\ IsSeq(Ordered(s)) /\ Len(Ordered(s)) = Len(s)
         /\ \A n \in 1..Len(s) : \E k \in 1..Len(s) : Ordered(s)[n] = s[k]
<1> DEFINE D == DOMAIN s
           Orders == {[n \in D |-> s[m[n]]] : m \in Bijection(D, D)}
<1>1. Len(s) \in Nat /\ D = 1..Len(s)
  BY LenOf
<1>2. [n \in D |-> n] \in Bijection(D, D)
  BY DEF Bijection, Injection, Surjection, IsInjective
<1>3. Ordered(s) \in Orders
  <2>1. [n \in D |-> s[[i \in D |-> i][n]]] \in Orders
    BY <1>2
  <2>2. QED
    BY <2>1 DEF Ordered
<1>4. PICK m \in Bijection(D, D) : Ordered(s) = [n \in D |-> s[m[n]]]
  BY <1>3
<1>5. m \in [D -> D]
  BY DEF Bijection, Injection
<1>6. Ordered(s) \in [1..Len(s) -> ToSet(s)]
  BY <1>1, <1>4, <1>5 DEF ToSet
<1>7. Ordered(s) \in Seq(ToSet(s)) /\ Len(Ordered(s)) = Len(s)
  BY <1>1, <1>6, SeqDef
<1>8. QED
  BY <1>1, <1>4, <1>5, <1>7, SeqIsSeq

LEMMA ReversedIsOrderedAlike ==
  ASSUME NEW s, NEW t, IsSeq(s), IsSeq(t), Len(s) = Len(t),
         \A n \in 1..Len(s) : t[n] = s[(Len(s) - n) + 1]
  PROVE  Ordered(s) = Ordered(t)
<1> DEFINE D == 1..Len(s)
           turn == [n \in D |-> (Len(s) - n) + 1]
           Orders(u) == {[n \in D |-> u[m[n]]] : m \in Bijection(D, D)}
<1>1. Len(s) \in Nat /\ DOMAIN s = D /\ DOMAIN t = D
  BY LenOf
<1>2. turn \in [D -> D] /\ \A n \in D : turn[turn[n]] = n
  BY <1>1
<1>3. \A n \in D : t[n] = s[turn[n]] /\ s[n] = t[turn[n]]
  BY <1>1, <1>2
<1> HIDE DEF turn
<1>4. ASSUME NEW m \in Bijection(D, D)
      PROVE  [n \in D |-> turn[m[n]]] \in Bijection(D, D)
  <2>1. m \in [D -> D] /\ (\A i, j \in D : m[i] = m[j] => i = j) /\ \A k \in D : \E n \in D : m[n] = k
    BY DEF Bijection, Injection, Surjection, IsInjective
  <2>2. \A i, j \in D : turn[i] = turn[j] => i = j
    BY <1>2
  <2>3. \A k \in D : \E n \in D : turn[m[n]] = k
    <3>1. TAKE k \in D
    <3>2. PICK n \in D : m[n] = turn[k]
      BY <1>2, <2>1
    <3>3. QED
      BY <1>2, <3>2
  <2> DEFINE c == [n \in D |-> turn[m[n]]]
  <2>4. c \in [D -> D] /\ \A n \in D : c[n] = turn[m[n]]
    BY <1>2, <2>1
  <2> HIDE DEF c
  <2>5. ASSUME NEW i \in D, NEW j \in D, c[i] = c[j] PROVE i = j
    <3>1. m[i] \in D /\ m[j] \in D /\ turn[m[i]] = turn[m[j]]
      BY <2>1, <2>4, <2>5
    <3>2. QED
      BY <2>1, <2>2, <3>1
  <2>6. \A k \in D : \E n \in D : c[n] = k
    BY <2>3, <2>4
  <2>7. c \in Bijection(D, D)
    BY <2>4, <2>5, <2>6 DEF Bijection, Injection, Surjection, IsInjective
  <2>8. QED
    BY <2>7 DEF c
<1>5. Orders(s) \subseteq Orders(t)
  <2>1. SUFFICES ASSUME NEW m \in Bijection(D, D)
                 PROVE  [n \in D |-> s[m[n]]] \in Orders(t)
    OBVIOUS
  <2>2. PICK c \in Bijection(D, D) : c = [n \in D |-> turn[m[n]]]
    BY <1>4
  <2>3. \A n \in D : m[n] \in D
    BY DEF Bijection, Injection
  <2>4. \A n \in D : t[c[n]] = s[m[n]]
    BY <1>3, <2>2, <2>3
  <2>5. [n \in D |-> s[m[n]]] = [n \in D |-> t[c[n]]]
    BY <2>4
  <2>6. QED
    BY <2>5
<1>6. Orders(t) \subseteq Orders(s)
  <2>1. SUFFICES ASSUME NEW m \in Bijection(D, D)
                 PROVE  [n \in D |-> t[m[n]]] \in Orders(s)
    OBVIOUS
  <2>2. PICK c \in Bijection(D, D) : c = [n \in D |-> turn[m[n]]]
    BY <1>4
  <2>3. \A n \in D : m[n] \in D
    BY DEF Bijection, Injection
  <2>4. \A n \in D : s[c[n]] = t[m[n]]
    BY <1>3, <2>2, <2>3
  <2>5. [n \in D |-> t[m[n]]] = [n \in D |-> s[c[n]]]
    BY <2>4
  <2>6. QED
    BY <2>5
<1>7. Orders(s) = Orders(t)
  BY <1>5, <1>6
<1>8. Ordered(s) = CHOOSE sorted \in Orders(s) : TRUE
  BY <1>1 DEF Ordered
<1>9. Ordered(t) = CHOOSE sorted \in Orders(t) : TRUE
  BY <1>1 DEF Ordered
<1> HIDE DEF Orders
<1>10. QED
  BY <1>7, <1>8, <1>9

-----------------------------------------------------------------------------
(* Wires *)

LEMMA WireJoined ==
  ASSUME NEW s, NEW t, IsWire(s), IsWire(t)
  PROVE  IsWire(s \o t)
<1>1. IsSeq(s) /\ IsSeq(t) /\ Len(s) \in Nat /\ Len(t) \in Nat
  BY LenOf DEF IsWire
<1>2. /\ IsSeq(s \o t) /\ Len(s \o t) = Len(s) + Len(t)
      /\ \A i \in 1..Len(s) : (s \o t)[i] = s[i]
      /\ \A i \in 1..Len(t) : (s \o t)[Len(s) + i] = t[i]
  BY <1>1, Joined
<1>3. ASSUME NEW n \in 1..Len(s \o t), (s \o t)[n][1] = "number"
      PROVE  IsNumber((s \o t)[n])
  <2>1. CASE n <= Len(s)
    <3>1. n \in 1..Len(s)
      BY <1>1, <1>2, <2>1
    <3>2. (s \o t)[n] = s[n]
      BY <1>2, <3>1
    <3>3. QED
      BY <1>3, <3>1, <3>2 DEF IsWire
  <2>2. CASE ~ (n <= Len(s))
    <3>1. PICK i \in 1..Len(t) : n = Len(s) + i
      <4>1. n - Len(s) \in 1..Len(t) /\ n = Len(s) + (n - Len(s))
        BY <1>1, <1>2, <2>2
      <4>2. QED
        BY <4>1
    <3>2. (s \o t)[n] = t[i]
      BY <1>2, <3>1
    <3>3. QED
      BY <1>3, <3>2 DEF IsWire
  <2>3. QED
    BY <2>1, <2>2
<1>4. QED
  BY <1>2, <1>3 DEF IsWire

LEMMA CellIsWire ==
  ASSUME NEW c, c[1] = "number" => IsNumber(c)
  PROVE  IsWire(<<c>>)
<1>1. IsSeq(<<c>>) /\ Len(<<c>>) = 1 /\ <<c>>[1] = c
  BY OneCell
<1>2. \A n \in 1..1 : n = 1
  OBVIOUS
<1>3. QED
  BY <1>1, <1>2 DEF IsWire

LEMMA NumAndHash ==
  /\ \A n \in Nat : IsNumber(Num(n))
  /\ \A x : Hash(x)[1] # "number"
BY DEF IsNumber, Num, Hash

LEMMA PackedIsWire ==
  ASSUME NEW s, IsWire(s)
  PROVE  IsWire(Packed(s))
<1>1. Len(s) \in Nat
  BY LenOf DEF IsWire
<1>2. IsWire(<<Num(Len(s))>>)
  BY <1>1, NumAndHash, CellIsWire
<1>3. QED
  BY <1>2, WireJoined DEF Packed

LEMMA FieldsAreWires ==
  /\ \A c \in Field : c[1] = "number" => IsNumber(c)
  /\ \A s \in Seq(Field) : IsWire(s)
<1>1. \A c \in Field : c[1] = "number" => IsNumber(c)
  BY RecordAssumption
<1>2. ASSUME NEW s \in Seq(Field)
      PROVE  IsWire(s)
  <2>1. \A n \in 1..Len(s) : s[n] \in Field
    BY ElementOfSeq
  <2>2. QED
    BY <1>1, <2>1, SeqIsSeq DEF IsWire
<1>3. QED
  BY <1>1, <1>2

LEMMA VersionIsWire == IsNumber(Version)
BY NumAndHash DEF Version

LEMMA PacketWires ==
  ASSUME NEW p \in PacketRecord, EncodableProof(p.proof)
  PROVE  /\ IsPacket(p) /\ IsWire(Payload(p))
         /\ EncodePacket(p) = Payload(p) \o <<Hash(Payload(p))>> /\ IsWire(EncodePacket(p))
<1> DEFINE f == p.proof
           u0 == <<Version, p.epoch, p.blockNumber, p.blockRoot, p.bucket>>
           u1 == u0 \o Packed(p.stemPrefix)
           u2 == u1 \o Packed(p.key)
           u3 == u2 \o <<p.value>>
           f1 == Packed(f.key)
           f2 == f1 \o <<f.value>>
           f3 == f2 \o Packed(f.stemValues)
           f4 == f3 \o Packed(f.siblings)
<1>1. /\ p.epoch \in Field /\ p.blockNumber \in Field /\ p.blockRoot \in Field
      /\ p.bucket \in Field /\ p.value \in Field
      /\ p.stemPrefix \in Seq(Field) /\ p.key \in Seq(Field) /\ f \in ProofRecord
      /\ p = [epoch |-> p.epoch, blockNumber |-> p.blockNumber, blockRoot |-> p.blockRoot,
              bucket |-> p.bucket, stemPrefix |-> p.stemPrefix, key |-> p.key,
              value |-> p.value, proof |-> p.proof]
  BY DEF PacketRecord
<1>2. /\ f.key \in Seq(Field) /\ f.value \in Field /\ f.stemValues \in Seq(Field)
      /\ f.siblings \in Seq(Field) /\ f.bits \in Seq(Field)
      /\ f = [key |-> f.key, value |-> f.value, stemValues |-> f.stemValues,
              siblings |-> f.siblings, bits |-> f.bits]
  BY <1>1 DEF ProofRecord
<1> HIDE DEF f
<1>3. /\ IsWire(p.stemPrefix) /\ IsWire(p.key) /\ IsWire(<<p.value>>)
      /\ IsWire(f.key) /\ IsWire(f.stemValues) /\ IsWire(f.siblings) /\ IsWire(f.bits)
      /\ IsWire(<<f.value>>)
  BY <1>1, <1>2, FieldsAreWires, CellIsWire
<1>4. IsPacket(p)
  BY <1>1, <1>2, <1>3 DEF IsPacket, IsProof, IsWire, f
<1>5. IsWire(f1)
  BY <1>3, PackedIsWire
<1> HIDE DEF f1
<1>6. IsWire(f2)
  BY <1>3, <1>5, WireJoined
<1> HIDE DEF f2
<1>7. IsWire(f3)
  BY <1>3, <1>6, PackedIsWire, WireJoined
<1> HIDE DEF f3
<1>8. IsWire(f4)
  BY <1>3, <1>7, PackedIsWire, WireJoined
<1> HIDE DEF f4
<1>9. IsWire(f4 \o Packed(f.bits))
  BY <1>3, <1>8, PackedIsWire, WireJoined
<1>10. IsWire(EncodeProof(p.proof))
  BY <1>9 DEF EncodeProof, f, f1, f2, f3, f4
<1>11. IsWire(u0)
  <2>1. IsSeq(u0) /\ Len(u0) = 5
    BY FiveCells
  <2>2. /\ u0[1] = Version /\ u0[2] = p.epoch /\ u0[3] = p.blockNumber /\ u0[4] = p.blockRoot
        /\ u0[5] = p.bucket
    BY FiveCells
  <2> HIDE DEF u0
  <2>3. \A n \in 1..5 : n = 1 \/ n = 2 \/ n = 3 \/ n = 4 \/ n = 5
    OBVIOUS
  <2>4. \A n \in 1..5 : u0[n] = Version \/ u0[n] \in Field
    BY <1>1, <2>2, <2>3
  <2>5. QED
    BY <2>1, <2>4, FieldsAreWires, VersionIsWire DEF IsWire
<1> HIDE DEF u0
<1>12. IsWire(u1)
  BY <1>3, <1>11, PackedIsWire, WireJoined
<1> HIDE DEF u1
<1>13. IsWire(u2)
  BY <1>3, <1>12, PackedIsWire, WireJoined
<1> HIDE DEF u2
<1>14. IsWire(u3)
  BY <1>3, <1>13, WireJoined
<1> HIDE DEF u3
<1>15. IsWire(u3 \o Packed(EncodeProof(p.proof)))
  BY <1>10, <1>14, PackedIsWire, WireJoined
<1>16. IsWire(Payload(p))
  BY <1>15 DEF Payload, u0, u1, u2, u3
<1>17. IsWire(Payload(p) \o <<Hash(Payload(p))>>)
  BY <1>16, NumAndHash, CellIsWire, WireJoined
<1>18. EncodePacket(p) = Payload(p) \o <<Hash(Payload(p))>>
  BY DEF EncodePacket
<1>19. QED
  BY <1>4, <1>16, <1>17, <1>18

\* From the third cell on, numbers.
Numbered(w) == \A n \in 3..Len(w) : IsNumber(w[n])

LEMMA RegistrationWires ==
  ASSUME NEW r \in RegistrationRecord, r.windowEnd[2] >= r.windowStart[2]
  PROVE  /\ IsWire(EncodeRegistration(r)) /\ Numbered(EncodeRegistration(r))
         /\ DecodeRegistration(EncodeRegistration(r)) = r
<1> DEFINE u == <<Version, r.commitment, r.windowStart, r.windowEnd, r.maxBuckets>>
           k == r.pubkey
           w == u \o Packed(k)
<1>1. /\ r.commitment \in Field /\ r.windowStart \in NumberField /\ r.windowEnd \in NumberField
      /\ r.maxBuckets \in NumberField /\ k \in Seq(NumberField)
      /\ r = [commitment |-> r.commitment, windowStart |-> r.windowStart,
              windowEnd |-> r.windowEnd, maxBuckets |-> r.maxBuckets, pubkey |-> r.pubkey]
  BY DEF RegistrationRecord
<1>2. IsNumber(r.windowStart) /\ IsNumber(r.windowEnd) /\ IsNumber(r.maxBuckets)
  BY <1>1 DEF NumberField
<1>3. IsSeq(k) /\ Len(k) \in Nat /\ \A n \in 1..Len(k) : IsNumber(k[n])
  BY <1>1, SeqIsSeq, LenOf, ElementOfSeq DEF NumberField
<1>4. EncodeRegistration(r) = w
  <2>1. r.windowEnd[2] \in Nat /\ r.windowStart[2] \in Nat
    BY <1>2 DEF IsNumber
  <2>2. QED
    BY <2>1 DEF EncodeRegistration
<1>5. DecodeRegistration(EncodeRegistration(r)) = r
  BY <1>1, <1>2, <1>3, RegistrationIsRead
<1>6. /\ IsSeq(u) /\ Len(u) = 5
      /\ u[1] = Version /\ u[2] = r.commitment /\ u[3] = r.windowStart
      /\ u[4] = r.windowEnd /\ u[5] = r.maxBuckets
  BY FiveCells
<1> HIDE DEF u
<1>7. \A n \in 1..5 : (u[n][1] = "number" => IsNumber(u[n])) /\ (n >= 3 => IsNumber(u[n]))
  <2>1. \A n \in 1..5 : n = 1 \/ n = 2 \/ n = 3 \/ n = 4 \/ n = 5
    OBVIOUS
  <2>2. r.commitment[1] = "number" => IsNumber(r.commitment)
    BY <1>1, FieldsAreWires
  <2>3. QED
    BY <1>2, <1>6, <2>1, <2>2, VersionIsWire
<1>8. IsWire(k) /\ IsWire(u)
  BY <1>3, <1>6, <1>7 DEF IsWire
<1>9. IsWire(w)
  BY <1>8, PackedIsWire, WireJoined
<1>10. ASSUME NEW n \in 3..Len(w)
       PROVE  IsNumber(w[n])
  <2>1. /\ IsSeq(Packed(k)) /\ Len(Packed(k)) = Len(k) + 1
        /\ \A i \in 1..Len(Packed(k)) : IsNumber(Packed(k)[i])
    <3> DEFINE h == <<Num(Len(k))>>
    <3>1. IsSeq(h) /\ Len(h) = 1 /\ h[1] = Num(Len(k))
      BY OneCell
    <3> HIDE DEF h
    <3>2. /\ IsSeq(h \o k) /\ Len(h \o k) = 1 + Len(k)
          /\ \A i \in 1..1 : (h \o k)[i] = h[i]
          /\ \A i \in 1..Len(k) : (h \o k)[1 + i] = k[i]
      <4>1. IsSeq(h) /\ IsSeq(k)
        BY <1>3, <3>1
      <4>2. /\ IsSeq(h \o k) /\ Len(h \o k) = Len(h) + Len(k)
            /\ \A i \in 1..Len(h) : (h \o k)[i] = h[i]
            /\ \A i \in 1..Len(k) : (h \o k)[Len(h) + i] = k[i]
        BY <4>1, Joined
      <4>3. QED
        BY <3>1, <4>2
    <3>3. ASSUME NEW i \in 1..(1 + Len(k)) PROVE IsNumber((h \o k)[i])
      <4>1. CASE i = 1
        BY <1>3, <3>1, <3>2, <4>1, NumAndHash
      <4>2. CASE i # 1
        <5>1. PICK j \in 1..Len(k) : i = 1 + j
          <6>1. i - 1 \in 1..Len(k) /\ i = 1 + (i - 1)
            BY <1>3, <4>2
          <6>2. QED
            BY <6>1
        <5>2. QED
          BY <1>3, <3>2, <5>1
      <4>3. QED
        BY <4>1, <4>2
    <3>4. QED
      BY <1>3, <3>2, <3>3 DEF Packed, h
  <2>2. /\ Len(w) = 5 + Len(Packed(k))
        /\ \A i \in 1..5 : w[i] = u[i]
        /\ \A i \in 1..Len(Packed(k)) : w[5 + i] = Packed(k)[i]
    <3>1. IsSeq(u) /\ IsSeq(Packed(k))
      BY <1>6, <2>1
    <3>2. /\ Len(w) = Len(u) + Len(Packed(k))
          /\ \A i \in 1..Len(u) : w[i] = u[i]
          /\ \A i \in 1..Len(Packed(k)) : w[Len(u) + i] = Packed(k)[i]
      BY <3>1, Joined
    <3>3. QED
      BY <1>6, <3>2
  <2>3. CASE n <= 5
    BY <1>7, <2>2, <2>3
  <2>4. CASE ~ (n <= 5)
    <3>1. PICK j \in 1..Len(Packed(k)) : n = 5 + j
      <4>1. n - 5 \in 1..Len(Packed(k)) /\ n = 5 + (n - 5)
        BY <1>3, <2>1, <2>2, <2>4
      <4>2. QED
        BY <4>1
    <3>2. QED
      BY <2>1, <2>2, <3>1
  <2>5. QED
    BY <2>3, <2>4
<1>11. QED
  BY <1>4, <1>5, <1>9, <1>10 DEF Numbered

LEMMA ManifestWires ==
  ASSUME NEW epoch \in Field, NEW bucket \in Field, NEW packets \in Seq(PacketRecord),
         \A n \in DOMAIN packets : packets[n].epoch = epoch /\ packets[n].bucket = bucket
  PROVE  LET m == BuildManifest(epoch, bucket, packets)
         IN  /\ IsWire(EncodeManifest(m))
             /\ m = [epoch |-> epoch, bucket |-> bucket, commitments |-> m.commitments,
                     root |-> HashConcat(m.commitments)]
             /\ IsSeq(m.commitments) /\ BuildManifest(epoch, bucket, Reverse(packets)) = m
<1> DEFINE hashes(ps) == [n \in DOMAIN ps |-> Hash(Payload(ps[n]))]
           s == hashes(packets)
           back == Reverse(packets)
           C == Ordered(s)
           m == [epoch |-> epoch, bucket |-> bucket, commitments |-> C, root |-> HashConcat(C)]
           u == <<Version, epoch, bucket>>
<1>1. Len(packets) \in Nat /\ DOMAIN packets = 1..Len(packets)
  BY LenProperties
<1>2. BuildManifest(epoch, bucket, packets) = m
  BY DEF BuildManifest
<1>3. IsSeq(s) /\ Len(s) = Len(packets) /\ \A n \in 1..Len(packets) : s[n] = Hash(Payload(packets[n]))
  <2>1. s \in [1..Len(packets) -> {Hash(Payload(packets[n])) : n \in 1..Len(packets)}]
    BY <1>1
  <2>2. s \in Seq({Hash(Payload(packets[n])) : n \in 1..Len(packets)}) /\ Len(s) = Len(packets)
    BY <1>1, <2>1, SeqDef
  <2>3. QED
    BY <1>1, <2>2, SeqIsSeq
<1>4. /\ DOMAIN back = 1..Len(packets)
      /\ \A n \in 1..Len(packets) : back[n] = packets[(Len(packets) - n) + 1]
  BY DEF Reverse
<1>5. /\ IsSeq(hashes(back)) /\ Len(hashes(back)) = Len(packets)
      /\ \A n \in 1..Len(packets) : hashes(back)[n] = s[(Len(packets) - n) + 1]
  <2>1. \A n \in 1..Len(packets) : (Len(packets) - n) + 1 \in 1..Len(packets)
    BY <1>1
  <2>2. \A n \in 1..Len(packets) : hashes(back)[n] = s[(Len(packets) - n) + 1]
    BY <1>3, <1>4, <2>1
  <2>3. hashes(back) \in [1..Len(packets) -> {Hash(Payload(back[n])) : n \in 1..Len(packets)}]
    BY <1>4
  <2>4. /\ hashes(back) \in Seq({Hash(Payload(back[n])) : n \in 1..Len(packets)})
        /\ Len(hashes(back)) = Len(packets)
    BY <1>1, <2>3, SeqDef
  <2>5. QED
    BY <2>2, <2>4, SeqIsSeq
<1> HIDE DEF s
<1>6. Ordered(hashes(back)) = C
  <2> DEFINE t == hashes(back)
  <2>1. IsSeq(t) /\ Len(t) = Len(s) /\ \A n \in 1..Len(s) : t[n] = s[(Len(s) - n) + 1]
    BY <1>3, <1>5
  <2> HIDE DEF t
  <2>2. Ordered(s) = Ordered(t)
    BY <1>3, <2>1, ReversedIsOrderedAlike
  <2>3. QED
    BY <2>2 DEF t
<1>7. BuildManifest(epoch, bucket, back) = m
  <2>1. \A n \in DOMAIN back : back[n].epoch = epoch /\ back[n].bucket = bucket
    <3>1. \A n \in 1..Len(packets) : (Len(packets) - n) + 1 \in 1..Len(packets)
      BY <1>1
    <3>2. QED
      BY <1>1, <1>4, <3>1
  <2>2. QED
    BY <1>6, <2>1 DEF BuildManifest
<1>8. /\ IsSeq(C) /\ Len(C) = Len(s)
      /\ \A n \in 1..Len(s) : \E k \in 1..Len(s) : C[n] = s[k]
  BY <1>3, OrderedIsOrdered
<1> HIDE DEF C
<1>9. IsWire(C)
  <2>1. \A n \in 1..Len(C) : \E k \in 1..Len(packets) : C[n] = Hash(Payload(packets[k]))
    BY <1>3, <1>8
  <2>2. \A n \in 1..Len(C) : C[n][1] # "number"
    BY <2>1, NumAndHash
  <2>3. QED
    BY <1>8, <2>2 DEF IsWire
<1>10. IsWire(u)
  <2>1. IsSeq(u) /\ Len(u) = 3 /\ u[1] = Version /\ u[2] = epoch /\ u[3] = bucket
    BY ThreeCells
  <2> HIDE DEF u
  <2>2. \A n \in 1..3 : n = 1 \/ n = 2 \/ n = 3
    OBVIOUS
  <2>3. QED
    BY <2>1, <2>2, FieldsAreWires, VersionIsWire DEF IsWire
<1> HIDE DEF u
<1>11. IsWire(u \o Packed(C))
  BY <1>9, <1>10, PackedIsWire, WireJoined
<1>12. IsWire(<<HashConcat(C)>>)
  BY NumAndHash, CellIsWire DEF HashConcat
<1>13. IsWire((u \o Packed(C)) \o <<HashConcat(C)>>)
  BY <1>11, <1>12, WireJoined
<1>14. IsWire(EncodeManifest(m))
  BY <1>13 DEF EncodeManifest, u
<1>15. QED
  BY <1>2, <1>7, <1>8, <1>14

-----------------------------------------------------------------------------
(* Damage *)

LEMMA Appended ==
  ASSUME NEW s, IsSeq(s), NEW e
  PROVE  /\ Append(s, e) = s \o <<e>> /\ IsSeq(Append(s, e))
         /\ Len(Append(s, e)) = Len(s) + 1 /\ Append(s, e)[Len(s) + 1] = e
         /\ \A i \in 1..Len(s) : Append(s, e)[i] = s[i]
<1> DEFINE S == ToSet(s) \cup {e}
<1>1. s \in Seq(S) /\ e \in S
  <2>1. ToSet(s) \subseteq S /\ e \in S
    OBVIOUS
  <2> HIDE DEF S
  <2>2. QED
    BY <2>1, SeqMonotonic DEF IsSeq
<1> HIDE DEF S
<1>2. Append(s, e) = s \o <<e>>
  BY <1>1, AppendIsConcat
<1>3. /\ Append(s, e) \in Seq(S) /\ Len(Append(s, e)) = Len(s) + 1
      /\ Append(s, e)[Len(s) + 1] = e /\ \A i \in 1..Len(s) : Append(s, e)[i] = s[i]
  BY <1>1, AppendProperties
<1>4. QED
  BY <1>2, <1>3, SeqIsSeq

LEMMA Replaced ==
  ASSUME NEW s, IsSeq(s), NEW e, NEW n \in 1..Len(s)
  PROVE  /\ IsSeq(ReplaceAt(s, n, e)) /\ Len(ReplaceAt(s, n, e)) = Len(s)
         /\ \A i \in 1..Len(s) : ReplaceAt(s, n, e)[i] = IF i = n THEN e ELSE s[i]
<1> DEFINE S == ToSet(s) \cup {e}
<1>1. s \in Seq(S) /\ e \in S
  <2>1. ToSet(s) \subseteq S /\ e \in S
    OBVIOUS
  <2> HIDE DEF S
  <2>2. QED
    BY <2>1, SeqMonotonic DEF IsSeq
<1> HIDE DEF S
<1> DEFINE t == [s EXCEPT ![n] = e]
<1>2. /\ t \in Seq(S) /\ Len(t) = Len(s)
      /\ \A i \in 1..Len(s) : t[i] = IF i = n THEN e ELSE s[i]
  BY <1>1, ExceptSeq
<1>3. ReplaceAt(s, n, e) = t
  BY DEF ReplaceAt
<1> HIDE DEF t
<1>4. QED
  BY <1>2, <1>3, SeqIsSeq

LEMMA Removed ==
  ASSUME NEW s, IsSeq(s), NEW n \in 1..Len(s)
  PROVE  /\ IsSeq(RemoveAt(s, n)) /\ Len(RemoveAt(s, n)) = Len(s) - 1
         /\ \A i \in 1..(Len(s) - 1) : RemoveAt(s, n)[i] = IF i < n THEN s[i] ELSE s[i + 1]
<1> DEFINE a == SubSeq(s, 1, n - 1)
           b == SubSeq(s, n + 1, Len(s))
<1>1. Len(s) \in Nat /\ n \in Nat
  BY LenOf
<1>2. IsSeq(a) /\ Len(a) = n - 1 /\ \A i \in 1..(n - 1) : a[i] = s[i]
  <2>1. PICK m \in Nat : m = n - 1 /\ m <= Len(s)
    BY <1>1
  <2>2. QED
    BY <2>1, PrefixOf DEF Pre
<1>3. IsSeq(b) /\ Len(b) = Len(s) - n /\ \A i \in 1..(Len(s) - n) : b[i] = s[n + i]
  <2>1. PICK m \in Nat : m = n + 1
    BY <1>1
  <2>2. PICK k \in Nat : k = Len(s)
    BY <1>1
  <2>3. 1 <= m /\ m <= k + 1 /\ k <= Len(s) /\ k + 1 - m = Len(s) - n
    BY <1>1, <2>1, <2>2
  <2>4. /\ IsSeq(SubSeq(s, m, k)) /\ Len(SubSeq(s, m, k)) = Len(s) - n
        /\ \A i \in 1..(Len(s) - n) : SubSeq(s, m, k)[i] = s[m + i - 1]
    BY <2>3, Stretch
  <2>5. b = SubSeq(s, m, k) /\ \A i \in 1..(Len(s) - n) : m + i - 1 = n + i
    BY <1>1, <2>1, <2>2
  <2> HIDE DEF b
  <2>6. QED
    BY <2>4, <2>5
<1>4. RemoveAt(s, n) = a \o b
  BY DEF RemoveAt
<1> HIDE DEF a, b
<1>5. /\ IsSeq(a \o b) /\ Len(a \o b) = Len(a) + Len(b)
      /\ \A i \in 1..Len(a) : (a \o b)[i] = a[i]
      /\ \A i \in 1..Len(b) : (a \o b)[Len(a) + i] = b[i]
  <2>1. IsSeq(a) /\ IsSeq(b)
    BY <1>2, <1>3
  <2>2. QED
    BY <2>1, Joined
<1>6. ASSUME NEW i \in 1..(Len(s) - 1)
      PROVE  (a \o b)[i] = IF i < n THEN s[i] ELSE s[i + 1]
  <2>1. CASE i < n
    <3>1. i \in 1..(n - 1)
      BY <1>1, <2>1
    <3>2. QED
      BY <1>2, <1>5, <2>1, <3>1
  <2>2. CASE ~ (i < n)
    <3>1. PICK j \in 1..Len(b) : i = Len(a) + j /\ n + j = i + 1
      <4>1. /\ i - (n - 1) \in 1..Len(b) /\ i = Len(a) + (i - (n - 1))
            /\ n + (i - (n - 1)) = i + 1
        BY <1>1, <1>2, <1>3, <2>2
      <4>2. QED
        BY <4>1
    <3>2. (a \o b)[i] = b[j]
      BY <1>5, <3>1
    <3>3. b[j] = s[n + j]
      BY <1>3
    <3>4. QED
      BY <2>2, <3>1, <3>2, <3>3
  <2>3. QED
    BY <2>1, <2>2
<1>7. QED
  BY <1>1, <1>2, <1>3, <1>4, <1>5, <1>6

LEMMA DamagedWires ==
  ASSUME NEW w, IsWire(w), NEW v \in DamagedWire(w)
  PROVE  /\ IsWire(v) /\ (Numbered(w) => Numbered(v))
         /\ \/ Len(v) < Len(w) /\ \A i \in 1..Len(v) : v[i] = w[i]
            \/ 1 <= Len(v) /\ v[Len(v)] \in Number
            \/ 1 <= Len(v) /\ 1 <= Len(w) /\ v[Len(v)] = w[Len(w)]
<1>1. Len(w) \in Nat /\ IsSeq(w) /\ DOMAIN w = 1..Len(w)
  BY LenOf DEF IsWire
<1>2. \A d \in Number : IsNumber(d)
  BY RecordAssumption, NumAndHash DEF Number
\* Every cell of the damaged wire is a number, or was in the wire there or one further on.
<1>3. ASSUME IsSeq(v),
             \A n \in 1..Len(v) : v[n] \in Number \/ \E k \in 1..Len(w) : n <= k /\ v[n] = w[k]
      PROVE  IsWire(v) /\ (Numbered(w) => Numbered(v))
  <2>1. \A n \in 1..Len(v) : v[n][1] = "number" => IsNumber(v[n])
    BY <1>2, <1>3 DEF IsWire
  <2>2. ASSUME Numbered(w), NEW n \in 3..Len(v) PROVE IsNumber(v[n])
    <3>1. n \in 1..Len(v)
      BY <1>3, LenOf
    <3>2. CASE v[n] \in Number
      BY <1>2, <3>2
    <3>3. CASE \E k \in 1..Len(w) : n <= k /\ v[n] = w[k]
      BY <1>1, <2>2, <3>3 DEF Numbered
    <3>4. QED
      BY <1>3, <3>1, <3>2, <3>3
  <2>3. QED
    BY <1>3, <2>1, <2>2 DEF IsWire, Numbered
<1>4. CASE \E n \in 0..(Len(w) - 1) : v = SubSeq(w, 1, n)
  <2>1. PICK n \in Nat : n < Len(w) /\ v = Pre(w, n)
    BY <1>1, <1>4 DEF Pre
  <2>2. IsSeq(v) /\ Len(v) = n /\ \A i \in 1..n : v[i] = w[i]
    BY <1>1, <2>1, PrefixOf
  <2>3. \A i \in 1..n : i \in 1..Len(w) /\ i <= i
    BY <1>1, <2>1
  <2>4. \A i \in 1..Len(v) : v[i] \in Number \/ \E k \in 1..Len(w) : i <= k /\ v[i] = w[k]
    BY <2>2, <2>3
  <2>5. QED
    BY <1>3, <2>1, <2>2, <2>4
<1>5. CASE \E d \in Number : v = Append(w, d)
  <2>1. PICK d \in Number : v = Append(w, d)
    BY <1>5
  <2>2. /\ IsSeq(v) /\ Len(v) = Len(w) + 1 /\ v[Len(w) + 1] = d
        /\ \A i \in 1..Len(w) : v[i] = w[i]
    BY <1>1, <2>1, Appended
  <2>3. ASSUME NEW i \in 1..Len(v)
        PROVE  v[i] \in Number \/ \E k \in 1..Len(w) : i <= k /\ v[i] = w[k]
    <3>1. i = Len(w) + 1 \/ i \in 1..Len(w)
      BY <1>1, <2>2
    <3>2. QED
      BY <2>2, <3>1
  <2>4. 1 <= Len(v) /\ v[Len(v)] \in Number
    BY <1>1, <2>2
  <2>5. QED
    BY <1>3, <2>2, <2>3, <2>4
<1>6. CASE \E n \in DOMAIN w, d \in Number : v = ReplaceAt(w, n, d)
  <2>1. PICK n \in 1..Len(w), d \in Number : v = ReplaceAt(w, n, d)
    BY <1>1, <1>6
  <2>2. /\ IsSeq(v) /\ Len(v) = Len(w)
        /\ \A i \in 1..Len(w) : v[i] = IF i = n THEN d ELSE w[i]
    BY <1>1, <2>1, Replaced
  <2>3. \A i \in 1..Len(v) : v[i] \in Number \/ \E k \in 1..Len(w) : i <= k /\ v[i] = w[k]
    BY <1>1, <2>2
  <2>4. 1 <= Len(w) /\ (v[Len(v)] \in Number \/ v[Len(v)] = w[Len(w)])
    BY <1>1, <2>2
  <2>5. QED
    BY <1>3, <2>2, <2>3, <2>4
<1>7. CASE \E n \in DOMAIN w : v = RemoveAt(w, n)
  <2>1. PICK n \in 1..Len(w) : v = RemoveAt(w, n)
    BY <1>1, <1>7
  <2>2. /\ IsSeq(v) /\ Len(v) = Len(w) - 1
        /\ \A i \in 1..(Len(w) - 1) : v[i] = IF i < n THEN w[i] ELSE w[i + 1]
    BY <1>1, <2>1, Removed
  <2>3. ASSUME NEW i \in 1..Len(v)
        PROVE  v[i] \in Number \/ \E k \in 1..Len(w) : i <= k /\ v[i] = w[k]
    <3>1. i \in 1..(Len(w) - 1) /\ i \in 1..Len(w) /\ i + 1 \in 1..Len(w) /\ i <= i + 1
      BY <1>1, <2>2
    <3>2. QED
      BY <2>2, <3>1
  <2>4. CASE n = Len(w)
    <3>1. Len(v) < Len(w) /\ \A i \in 1..Len(v) : v[i] = w[i]
      BY <1>1, <2>2, <2>4
    <3>2. QED
      BY <1>3, <2>2, <2>3, <3>1
  <2>5. CASE n # Len(w)
    <3>1. PICK j \in Nat : Len(w) = j + 1
      <4>1. Len(w) - 1 \in Nat /\ Len(w) = (Len(w) - 1) + 1
        BY <1>1, <2>1
      <4>2. QED
        BY <4>1
    <3>2. n < Len(w)
      <4>1. Len(w) \in Nat /\ n \in 1..Len(w)
        BY <1>1, <2>1
      <4>2. QED
        BY <2>5, <4>1
    <3>3. Len(v) = j /\ ~ (j < n) /\ 1 <= j /\ 1 <= Len(w) /\ j \in 1..(Len(w) - 1)
      BY <1>1, <2>1, <2>2, <3>1, <3>2
    <3>4. v[Len(v)] = w[Len(w)]
      BY <2>2, <3>1, <3>3
    <3>5. QED
      BY <1>3, <2>2, <2>3, <3>3, <3>4
  <2>6. QED
    BY <2>4, <2>5
<1>8. QED
  BY <1>4, <1>5, <1>6, <1>7 DEF DamagedWire

-----------------------------------------------------------------------------
(* Letters *)

LEMMA WriteOf ==
  ASSUME NEW x
  PROVE  /\ Write("packet", x) = EncodePacket(x)
         /\ Write("registration", x) = EncodeRegistration(x)
         /\ Write("manifest", x) = EncodeManifest(x)
         /\ Write("envelope", x) = Compress(x)
         /\ Write("bundle", x) = Sealed(x)
BY Zenon DEF Write

LEMMA ReadOf ==
  ASSUME NEW x
  PROVE  /\ Read("packet", x) = DecodePacket(x)
         /\ Read("registration", x) = DecodeRegistration(x)
         /\ Read("manifest", x) = DecodeManifest(x)
         /\ Read("envelope", x) = Decompress(x)
         /\ Read("bundle", x) = IF VerifyBundle(x.fields, x.commitment) THEN x.fields ELSE Error
BY Zenon DEF Read

LEMMA ArrivingOf ==
  ASSUME NEW x
  PROVE  /\ Arriving("packet", x) = {x} \cup (DamagedWire(x) \cup Resealed(x))
         /\ Arriving("registration", x) = {x} \cup DamagedWire(x)
         /\ Arriving("manifest", x) = {x} \cup DamagedWire(x)
         /\ Arriving("envelope", x) = {x} \cup DamagedEnvelope(x)
         /\ Arriving("bundle", x) = {x} \cup DamagedBundle(x)
BY Zenon DEF Arriving

\* A letter holds what was written, or what damage made of it.
Delivered(r, x) == r \in Record /\ x \in Arriving(r.kind, Write(r.kind, r.body))

LEMMA LettersAreDelivered ==
  ASSUME LetterInit, letter # NoLetter
  PROVE  \E r, x : Delivered(r, x) /\ letter = [sent |-> r, got |-> x]
BY DEF LetterInit, Delivered

LEMMA PacketLetters ==
  ASSUME NEW r, NEW x, Delivered(r, x), r.kind = "packet"
  PROVE  /\ r.body \in PacketRecord /\ EncodableProof(r.body.proof)
         /\ IsWire(x)
<1> DEFINE p == r.body
           w == EncodePacket(p)
           u == Payload(p)
<1>1. p \in PacketRecord /\ EncodableProof(p.proof)
  BY RecordAssumption DEF Delivered, Writable
<1>2. IsWire(u) /\ IsWire(w) /\ w = u \o <<Hash(u)>>
  BY <1>1, PacketWires
<1>3. x = w \/ x \in DamagedWire(w) \/ x \in Resealed(w)
  BY ArrivingOf, WriteOf DEF Delivered
<1> HIDE DEF w, u
<1>4. Front(w) = u
  <2>1. IsSeq(u) /\ Len(u) \in Nat
    BY <1>2, LenOf DEF IsWire
  <2>2. /\ Len(w) = Len(u) + 1 /\ IsSeq(w) /\ \A i \in 1..Len(u) : w[i] = u[i]
    BY <1>2, <2>1, OneCell, Joined
  <2>3. PICK n \in Nat : n = Len(u) /\ n <= Len(w) /\ Len(w) - 1 = n
    BY <2>1, <2>2
  <2>4. IsSeq(Pre(w, n)) /\ Len(Pre(w, n)) = n /\ \A i \in 1..n : Pre(w, n)[i] = w[i]
    BY <2>2, <2>3, PrefixOf
  <2>5. Pre(w, n) = u
    BY <2>1, <2>2, <2>3, <2>4, SameSeq
  <2>6. QED
    BY <2>3, <2>5 DEF Front, Pre
<1>5. CASE x \in Resealed(w)
  <2>1. PICK v \in DamagedWire(u) : x = Append(v, Hash(v))
    BY <1>4, <1>5 DEF Resealed
  <2>2. IsWire(v)
    BY <1>2, DamagedWires
  <2>3. x = v \o <<Hash(v)>>
    BY <2>1, <2>2, Appended DEF IsWire
  <2>4. QED
    BY <1>1, <2>2, <2>3, NumAndHash, CellIsWire, WireJoined
<1>6. QED
  BY <1>1, <1>2, <1>3, <1>5, DamagedWires

LEMMA RegistrationLetters ==
  ASSUME NEW r, NEW x, Delivered(r, x), r.kind = "registration"
  PROVE  /\ DecodeRegistration(EncodeRegistration(r.body)) = r.body
         /\ IsWire(x) /\ Numbered(x)
<1> DEFINE w == EncodeRegistration(r.body)
<1>1. r.body \in RegistrationRecord /\ r.body.windowEnd[2] >= r.body.windowStart[2]
  BY RecordAssumption DEF Delivered, Writable
<1>2. IsWire(w) /\ Numbered(w) /\ DecodeRegistration(w) = r.body
  BY <1>1, RegistrationWires
<1>3. x = w \/ x \in DamagedWire(w)
  BY ArrivingOf, WriteOf DEF Delivered
<1> HIDE DEF w
<1>4. IsWire(x) /\ Numbered(x)
  BY <1>2, <1>3, DamagedWires
<1>5. QED
  BY <1>2, <1>4 DEF w

LEMMA ManifestLetters ==
  ASSUME NEW r, NEW x, Delivered(r, x), r.kind = "manifest"
  PROVE  LET m == r.body
         IN  /\ m = [epoch |-> m.epoch, bucket |-> m.bucket, commitments |-> m.commitments,
                     root |-> HashConcat(m.commitments)]
             /\ IsSeq(m.commitments) /\ m = BuildManifest(m.epoch, m.bucket, Reverse(r.packets))
             /\ IsWire(EncodeManifest(m)) /\ IsWire(x)
             /\ x = EncodeManifest(m) \/ x \in DamagedWire(EncodeManifest(m))
<1> DEFINE m == r.body
           w == EncodeManifest(m)
<1>1. /\ r.packets \in Seq(PacketRecord) /\ m.epoch \in Field /\ m.bucket \in Field
      /\ m = BuildManifest(m.epoch, m.bucket, r.packets)
      /\ \A n \in DOMAIN r.packets : r.packets[n].epoch = m.epoch /\ r.packets[n].bucket = m.bucket
  BY RecordAssumption DEF Delivered, Writable
<1>2. LET b == BuildManifest(m.epoch, m.bucket, r.packets)
      IN  /\ IsWire(EncodeManifest(b))
          /\ b = [epoch |-> m.epoch, bucket |-> m.bucket, commitments |-> b.commitments,
                  root |-> HashConcat(b.commitments)]
          /\ IsSeq(b.commitments) /\ BuildManifest(m.epoch, m.bucket, Reverse(r.packets)) = b
  BY <1>1, ManifestWires
<1>3. x = w \/ x \in DamagedWire(w)
  BY ArrivingOf, WriteOf DEF Delivered
<1>4. IsWire(w)
  BY <1>1, <1>2
<1> HIDE DEF w
<1>5. IsWire(x)
  BY <1>3, <1>4, DamagedWires
<1>6. QED
  BY <1>1, <1>2, <1>3, <1>4, <1>5 DEF w

LEMMA DamagedStreams ==
  ASSUME NEW q, NEW s \in DamagedStream(q)
  PROVE  \E f : \E eof \in BOOLEAN, tail \in BOOLEAN : s = Stream(f, eof, tail)
BY DEF DamagedStream

LEMMA EnvelopeLetters ==
  ASSUME NEW r, NEW x, Delivered(r, x), r.kind = "envelope"
  PROVE  /\ Decompress(Compress(r.body)) = r.body
         /\ Decompress(x) # Error => Compress(Decompress(x)) = x /\ Decompress(x) = r.body
<1> DEFINE d == r.body
           e == [length |-> Len(d), commitment |-> Hash(d), stream |-> Stream(d, TRUE, FALSE)]
<1>1. d \in Seq(Field) /\ Len(d) <= MaxPayload
  BY RecordAssumption DEF Delivered, Writable
<1>2. Compress(d) = e
  <2>1. Len(d) \in Nat /\ MaxPayload \in Nat
    BY <1>1, LenProperties, LimitAssumption
  <2>2. QED
    BY <1>1, <2>1 DEF Compress
<1>3. Decompress(e) = d
  BY <1>1 DEF Decompress, Stream
<1>4. x = e \/ x \in DamagedEnvelope(e)
  BY <1>2, ArrivingOf, WriteOf DEF Delivered
<1>5. ASSUME Decompress(x) # Error
      PROVE  x = e
  <2>1. /\ x.stream.eof /\ ~ x.stream.tail /\ x.length = Len(x.stream.data)
        /\ x.commitment = Hash(x.stream.data)
    BY <1>5 DEF Decompress
  <2>2. CASE \E n : x = [e EXCEPT !.length = n]
    <3>1. PICK n : x = [e EXCEPT !.length = n]
      BY <2>2
    <3>2. n = Len(d)
      BY <2>1, <3>1 DEF Stream
    <3>3. QED
      BY <3>1, <3>2
  <2>3. CASE \E s \in DamagedStream(e.stream) : x = [e EXCEPT !.stream = s]
    <3>1. PICK s \in DamagedStream(e.stream) : x = [e EXCEPT !.stream = s]
      BY <2>3
    <3>2. \E f : \E eof \in BOOLEAN, tail \in BOOLEAN : s = Stream(f, eof, tail)
      BY <3>1, DamagedStreams
    <3>3. PICK f : \E eof \in BOOLEAN, tail \in BOOLEAN : s = Stream(f, eof, tail)
      BY <3>2
    <3>4. PICK eof \in BOOLEAN, tail \in BOOLEAN : s = Stream(f, eof, tail)
      BY <3>3
    <3>5. x.stream = s /\ x.commitment = Hash(d)
      BY <3>1
    <3>6. s.data = f /\ s.eof = eof /\ s.tail = tail
      BY <3>4 DEF Stream
    <3>7. f = d
      BY <2>1, <3>5, <3>6 DEF Hash
    <3>8. eof = TRUE /\ tail = FALSE
      BY <2>1, <3>5, <3>6
    <3>9. QED
      BY <3>1, <3>4, <3>7, <3>8
  <2>4. CASE x \in DamagedEnvelope(e)
    BY <2>2, <2>3, <2>4 DEF DamagedEnvelope
  <2>5. QED
    BY <1>4, <2>4
<1> HIDE DEF e
<1>6. QED
  BY <1>2, <1>3, <1>5

LEMMA SplitAlike ==
  ASSUME NEW u, NEW v, NEW s, NEW t, IsSeq(u), IsSeq(v), IsSeq(s), IsSeq(t)
  PROVE  u \o s = v \o t /\ Len(u) = Len(v) => u = v /\ s = t
<1>1. Len(u) \in Nat /\ Len(s) \in Nat /\ Len(t) \in Nat
  BY LenOf
<1>2. /\ Len(u \o s) = Len(u) + Len(s)
      /\ \A i \in 1..Len(u) : (u \o s)[i] = u[i]
      /\ \A i \in 1..Len(s) : (u \o s)[Len(u) + i] = s[i]
  BY Joined
<1>3. /\ Len(v \o t) = Len(v) + Len(t)
      /\ \A i \in 1..Len(v) : (v \o t)[i] = v[i]
      /\ \A i \in 1..Len(t) : (v \o t)[Len(v) + i] = t[i]
  BY Joined
<1>. HAVE u \o s = v \o t /\ Len(u) = Len(v)
<1>4. Len(s) = Len(t)
  BY <1>1, <1>2, <1>3
<1>5. u = v
  <2>1. \A i \in 1..Len(u) : u[i] = v[i]
    BY <1>2, <1>3
  <2>2. QED
    BY <2>1, SameSeq
<1>6. s = t
  <2>1. \A i \in 1..Len(s) : s[i] = t[i]
    BY <1>2, <1>3, <1>4
  <2>2. QED
    BY <1>4, <2>1, SameSeq
<1>7. QED
  BY <1>5, <1>6

\* A bundle, whatever its cells are.
IsBundle(b) ==
  /\ b = [epoch |-> b.epoch, blockNumber |-> b.blockNumber, blockRoot |-> b.blockRoot,
          provider |-> b.provider, blobHash |-> b.blobHash, commitments |-> b.commitments,
          locator |-> b.locator]
  /\ IsSeq(b.provider) /\ IsSeq(b.locator)

\* Of providers of one length, the commitment tells every field apart but the
\* order of the commitments.
LEMMA BundlesDiffer ==
  ASSUME NEW b, NEW f, IsBundle(b), IsBundle(f), Len(b.provider) = Len(f.provider),
         BundleCommitment(b) = BundleCommitment(f)
  PROVE  [b EXCEPT !.commitments = Ordered(@)] = [f EXCEPT !.commitments = Ordered(@)]
<1> DEFINE head(g) == <<g.epoch, g.blockNumber, g.blockRoot>>
           mid(g)  == <<g.blobHash, HashConcat(Ordered(g.commitments))>>
           u(g)    == head(g) \o g.provider
           v(g)    == u(g) \o mid(g)
<1>1. ASSUME NEW g, IsBundle(g)
      PROVE  /\ IsSeq(head(g)) /\ Len(head(g)) = 3 /\ IsSeq(mid(g)) /\ Len(mid(g)) = 2
             /\ IsSeq(u(g)) /\ Len(u(g)) = 3 + Len(g.provider)
             /\ IsSeq(v(g)) /\ Len(v(g)) = (3 + Len(g.provider)) + 2
             /\ BundleCommitment(g) = Hash(v(g) \o g.locator)
  <2>1. IsSeq(head(g)) /\ Len(head(g)) = 3
    BY ThreeCells
  <2>2. IsSeq(mid(g)) /\ Len(mid(g)) = 2
    <3>1. /\ mid(g) \in Seq({g.blobHash, HashConcat(Ordered(g.commitments))}) /\ Len(mid(g)) = 2
      OBVIOUS
    <3>2. QED
      BY <3>1, SeqIsSeq
  <2>3. BundleCommitment(g) = Hash(v(g) \o g.locator)
    BY DEF BundleCommitment
  <2> HIDE DEF head, mid
  <2>4. IsSeq(u(g)) /\ Len(u(g)) = 3 + Len(g.provider)
    <3>1. IsSeq(g.provider)
      BY <1>1 DEF IsBundle
    <3>2. IsSeq(head(g) \o g.provider) /\ Len(head(g) \o g.provider) = Len(head(g)) + Len(g.provider)
      BY <2>1, <3>1, Joined, Zenon
    <3>3. QED
      BY <2>1, <3>2
  <2> HIDE DEF u
  <2>5. IsSeq(v(g)) /\ Len(v(g)) = (3 + Len(g.provider)) + 2
    <3>1. IsSeq(u(g) \o mid(g)) /\ Len(u(g) \o mid(g)) = Len(u(g)) + Len(mid(g))
      BY <2>2, <2>4, Joined, Zenon
    <3>2. QED
      BY <2>2, <2>4, <3>1
  <2> HIDE DEF v
  <2>6. QED
    BY <2>1, <2>2, <2>3, <2>4, <2>5
<1> HIDE DEF head, mid, u, v
<1>2. v(b) \o b.locator = v(f) \o f.locator
  <2>1. Hash(v(b) \o b.locator) = Hash(v(f) \o f.locator)
    BY <1>1
  <2>2. QED
    BY <2>1 DEF Hash
<1>3. v(b) = v(f) /\ b.locator = f.locator
  <2>1. IsSeq(v(b)) /\ IsSeq(v(f)) /\ IsSeq(b.locator) /\ IsSeq(f.locator)
    BY <1>1 DEF IsBundle
  <2>2. Len(v(b)) = Len(v(f))
    BY <1>1
  <2>3. QED
    BY <1>2, <2>1, <2>2, SplitAlike, Zenon
<1>4. u(b) = u(f) /\ mid(b) = mid(f)
  <2>1. u(b) \o mid(b) = u(f) \o mid(f)
    BY <1>3 DEF v
  <2>2. IsSeq(u(b)) /\ IsSeq(u(f)) /\ IsSeq(mid(b)) /\ IsSeq(mid(f))
    BY <1>1
  <2>3. Len(u(b)) = Len(u(f))
    BY <1>1
  <2>4. QED
    BY <2>1, <2>2, <2>3, SplitAlike, Zenon
<1>5. head(b) = head(f) /\ b.provider = f.provider
  <2>1. head(b) \o b.provider = head(f) \o f.provider
    BY <1>4 DEF u
  <2>2. IsSeq(head(b)) /\ IsSeq(head(f)) /\ IsSeq(b.provider) /\ IsSeq(f.provider)
    BY <1>1 DEF IsBundle
  <2>3. Len(head(b)) = Len(head(f))
    BY <1>1
  <2>4. QED
    BY <2>1, <2>2, <2>3, SplitAlike, Zenon
<1>6. /\ b.epoch = f.epoch /\ b.blockNumber = f.blockNumber /\ b.blockRoot = f.blockRoot
  BY <1>5 DEF head
<1>7. b.blobHash = f.blobHash /\ Ordered(b.commitments) = Ordered(f.commitments)
  BY <1>4 DEF mid, HashConcat, Hash
<1>8. ASSUME NEW g, IsBundle(g)
      PROVE  [g EXCEPT !.commitments = Ordered(@)] =
               [epoch |-> g.epoch, blockNumber |-> g.blockNumber, blockRoot |-> g.blockRoot,
                provider |-> g.provider, blobHash |-> g.blobHash,
                commitments |-> Ordered(g.commitments), locator |-> g.locator]
  BY <1>8 DEF IsBundle
<1>9. QED
  BY <1>3, <1>5, <1>6, <1>7, <1>8

LEMMA BundleLetters ==
  ASSUME NEW r, NEW x, Delivered(r, x), r.kind = "bundle"
  PROVE  /\ x = Sealed(r.body) => VerifyBundle(x.fields, x.commitment) /\ x.fields = r.body
         /\ VerifyBundle(x.fields, x.commitment) =>
              [x.fields EXCEPT !.commitments = Ordered(@)] =
                [r.body EXCEPT !.commitments = Ordered(@)]
<1> DEFINE b == r.body
<1>1. /\ b \in BundleRecord /\ IsBundle(b)
  <2>1. b \in BundleRecord
    BY RecordAssumption DEF Delivered, Writable
  <2>2. /\ b = [epoch |-> b.epoch, blockNumber |-> b.blockNumber, blockRoot |-> b.blockRoot,
                provider |-> b.provider, blobHash |-> b.blobHash, commitments |-> b.commitments,
                locator |-> b.locator]
        /\ b.provider \in Seq(Field) /\ b.locator \in Seq(Field)
    BY <2>1 DEF BundleRecord
  <2>3. QED
    BY <2>1, <2>2, SeqIsSeq DEF IsBundle
<1>2. x = Sealed(b) \/ x \in DamagedBundle(Sealed(b))
  BY ArrivingOf, WriteOf DEF Delivered
<1> HIDE DEF b
<1>3. ASSUME NEW f \in DamagedFields(b)
      PROVE  IsBundle(f) /\ Len(f.provider) = Len(b.provider)
  <2>1. DOMAIN b.provider = 1..Len(b.provider) /\ DOMAIN b.locator = 1..Len(b.locator)
    BY <1>1, LenOf DEF IsBundle
  <2>2. ASSUME NEW d,
               \/ f = [b EXCEPT !.epoch = d]    \/ f = [b EXCEPT !.blockRoot = d]
               \/ f = [b EXCEPT !.blobHash = d] \/ f = [b EXCEPT !.commitments = d]
        PROVE  IsBundle(f) /\ Len(f.provider) = Len(b.provider)
    BY <1>1, <2>2 DEF IsBundle
  <2>3. CASE \E n \in DOMAIN b.provider, d \in Number : f = [b EXCEPT !.provider = ReplaceAt(@, n, d)]
    <3>1. PICK n \in 1..Len(b.provider), d \in Number : f = [b EXCEPT !.provider = ReplaceAt(@, n, d)]
      BY <2>1, <2>3
    <3>2. /\ IsSeq(ReplaceAt(b.provider, n, d))
          /\ Len(ReplaceAt(b.provider, n, d)) = Len(b.provider)
      BY <1>1, Replaced DEF IsBundle
    <3>3. QED
      BY <1>1, <3>1, <3>2 DEF IsBundle
  <2>4. CASE \E n \in DOMAIN b.locator, d \in Number : f = [b EXCEPT !.locator = ReplaceAt(@, n, d)]
    <3>1. PICK n \in 1..Len(b.locator), d \in Number : f = [b EXCEPT !.locator = ReplaceAt(@, n, d)]
      BY <2>1, <2>4
    <3>2. IsSeq(ReplaceAt(b.locator, n, d))
      BY <1>1, Replaced DEF IsBundle
    <3>3. QED
      BY <1>1, <3>1, <3>2 DEF IsBundle
  <2>5. QED
    <3>1. CASE f \in {[b EXCEPT !.epoch = d] : d \in Number}
      BY <2>2, <3>1
    <3>2. CASE f \in {[b EXCEPT !.blockRoot = d] : d \in Number}
      BY <2>2, <3>2
    <3>3. CASE f \in {[b EXCEPT !.blobHash = d] : d \in Number}
      BY <2>2, <3>3
    <3>4. CASE f \in {[b EXCEPT !.commitments = v] : v \in DamagedWire(b.commitments)}
      BY <2>2, <3>4
    <3>5. QED
      BY <1>3, <2>3, <2>4, <3>1, <3>2, <3>3, <3>4 DEF DamagedFields
<1>4. Sealed(b) = [fields |-> b, commitment |-> BundleCommitment(b)]
  BY DEF Sealed
<1>5. CASE x = Sealed(b)
  <2>1. x.fields = b /\ x.commitment = BundleCommitment(b)
    BY <1>4, <1>5
  <2>2. QED
    BY <2>1 DEF VerifyBundle, b
<1>6. CASE x \in DamagedBundle(Sealed(b))
  <2>1. PICK f \in DamagedFields(b) : x = [Sealed(b) EXCEPT !.fields = f]
    BY <1>4, <1>6 DEF DamagedBundle
  <2>2. x.fields = f /\ x.commitment = BundleCommitment(b)
    BY <1>4, <2>1
  <2>3. ASSUME VerifyBundle(x.fields, x.commitment)
        PROVE  [f EXCEPT !.commitments = Ordered(@)] = [b EXCEPT !.commitments = Ordered(@)]
    <3>1. BundleCommitment(f) = BundleCommitment(b)
      BY <2>2, <2>3 DEF VerifyBundle
    <3>2. QED
      BY <1>1, <1>3, <3>1, BundlesDiffer
  <2>4. x = Sealed(b) => VerifyBundle(x.fields, x.commitment) /\ x.fields = b
    BY <1>4, <2>2 DEF VerifyBundle
  <2>5. QED
    BY <2>2, <2>3, <2>4 DEF b
<1>7. QED
  BY <1>2, <1>5, <1>6

LEMMA SealedLast ==
  ASSUME NEW u, IsSeq(u), NEW c
  PROVE  Last(u \o <<c>>) = c
<1>1. Len(u) \in Nat /\ Len(Append(u, c)) = Len(u) + 1 /\ Append(u, c)[Len(u) + 1] = c
  BY Appended, LenOf
<1>2. Append(u, c) = u \o <<c>>
  BY Appended
<1>3. QED
  BY <1>1, <1>2 DEF Last

\* What the letter of one record and one arrival promises.
Reads(r, x) == Readable(r) /\ x = Write(r.kind, r.body) => Read(r.kind, x) = r.body

Rewrites(r, x) ==
  Read(r.kind, x) # Error /\ r.kind # "bundle" => Write(r.kind, Read(r.kind, x)) = x

LEMMA EveryKind ==
  ASSUME NEW r, NEW x, Delivered(r, x)
  PROVE  r.kind \in {"packet", "registration", "manifest", "envelope", "bundle"}
BY RecordAssumption DEF Delivered, Writable

LEMMA ReadsWhatIsWritten ==
  ASSUME NEW r, NEW x, Delivered(r, x)
  PROVE  Reads(r, x)
<1>1. SUFFICES ASSUME Readable(r), x = Write(r.kind, r.body)
               PROVE  Read(r.kind, x) = r.body
  BY DEF Reads
<1>2. CASE r.kind = "packet"
  <2>1. IsPacket(r.body) /\ EncodableProof(r.body.proof)
    BY <1>2, PacketLetters, PacketWires
  <2>2. DecodePacket(EncodePacket(r.body)) = r.body
    BY <1>1, <1>2, <2>1, PacketIsRead DEF Readable
  <2>3. QED
    BY <1>1, <1>2, <2>2, WriteOf, ReadOf
<1>3. CASE r.kind = "registration"
  BY <1>1, <1>3, RegistrationLetters, WriteOf, ReadOf
<1>4. CASE r.kind = "manifest"
  <2> DEFINE m == r.body
  <2>1. /\ m = [epoch |-> m.epoch, bucket |-> m.bucket, commitments |-> m.commitments,
                root |-> HashConcat(m.commitments)]
        /\ IsSeq(m.commitments)
    BY <1>4, ManifestLetters
  <2>2. m = [epoch |-> m.epoch, bucket |-> m.bucket, commitments |-> m.commitments,
             root |-> m.root] /\ VerifyManifest(m)
    BY <2>1 DEF VerifyManifest
  <2>3. Len(m.commitments) <= MaxManifest
    BY <1>1, <1>4 DEF Readable
  <2> HIDE DEF m
  <2>4. DecodeManifest(EncodeManifest(m)) = m
    BY <2>1, <2>2, <2>3, ManifestIsRead
  <2>5. QED
    BY <1>1, <1>4, <2>4, WriteOf, ReadOf DEF m
<1>5. CASE r.kind = "envelope"
  BY <1>1, <1>5, EnvelopeLetters, WriteOf, ReadOf
<1>6. CASE r.kind = "bundle"
  BY <1>1, <1>6, BundleLetters, WriteOf, ReadOf
<1>7. QED
  BY <1>2, <1>3, <1>4, <1>5, <1>6, EveryKind

LEMMA WritesWhatIsRead ==
  ASSUME NEW r, NEW x, Delivered(r, x)
  PROVE  Rewrites(r, x)
<1>1. SUFFICES ASSUME Read(r.kind, x) # Error, r.kind # "bundle"
               PROVE  Write(r.kind, Read(r.kind, x)) = x
  BY DEF Rewrites
<1>2. CASE r.kind = "packet"
  BY <1>1, <1>2, PacketLetters, PacketIsCanonical, WriteOf, ReadOf
<1>3. CASE r.kind = "registration"
  <2>1. IsWire(x) /\ Numbered(x) /\ DecodeRegistration(x) # Error
    BY <1>1, <1>3, RegistrationLetters, ReadOf
  <2>2. Len(x) \in Nat
    BY <2>1, LenOf DEF IsWire
  <2>3. (3 <= Len(x) => IsNumber(x[3])) /\ (4 <= Len(x) => IsNumber(x[4]))
    BY <2>1, <2>2 DEF Numbered
  <2>4. EncodeRegistration(DecodeRegistration(x)) = x
    BY <2>1, <2>3, RegistrationIsCanonical
  <2>5. QED
    BY <1>3, <2>4, WriteOf, ReadOf
<1>4. CASE r.kind = "manifest"
  BY <1>1, <1>4, ManifestLetters, ManifestIsCanonical, WriteOf, ReadOf
<1>5. CASE r.kind = "envelope"
  BY <1>1, <1>5, EnvelopeLetters, WriteOf, ReadOf
<1>6. QED
  BY <1>1, <1>2, <1>3, <1>4, <1>5, EveryKind

LEMMA ForgedPacketsAreRefused ==
  ASSUME NEW r, NEW x, Delivered(r, x), r.kind = "packet", DecodePacket(x) # Error,
         Last(x) = Last(EncodePacket(r.body))
  PROVE  DecodePacket(x) = r.body
<1> DEFINE p == DecodePacket(x)
           q == r.body
<1>1. IsWire(x) /\ IsPacket(q) /\ EncodePacket(q) = Payload(q) \o <<Hash(Payload(q))>>
  BY PacketLetters, PacketWires
<1>2. IsPacket(p) /\ x = Payload(p) \o <<Hash(Payload(p))>>
  BY <1>1, PacketIsCanonical
<1> HIDE DEF p, q
<1>3. IsSeq(Payload(p)) /\ IsSeq(Payload(q))
  BY <1>1, <1>2, PayloadIsSeq
<1>4. Last(x) = Hash(Payload(p)) /\ Last(EncodePacket(q)) = Hash(Payload(q))
  BY <1>1, <1>2, <1>3, SealedLast
<1>5. Hash(Payload(p)) = Hash(Payload(q))
  BY <1>4 DEF q
<1>6. p = q
  BY <1>1, <1>2, <1>5, PayloadsDiffer DEF Hash
<1>7. QED
  BY <1>6 DEF p, q

LEMMA ForgedManifestsAreRefused ==
  ASSUME NEW r, NEW x, Delivered(r, x), r.kind = "manifest", DecodeManifest(x) # Error
  PROVE  DecodeManifest(x).commitments = r.body.commitments
<1> DEFINE C == r.body.commitments
           D == DecodeManifest(x).commitments
           w == EncodeManifest(r.body)
<1>1. /\ IsSeq(C) /\ IsWire(x) /\ IsWire(w) /\ (x = w \/ x \in DamagedWire(w))
      /\ r.body = [epoch |-> r.body.epoch, bucket |-> r.body.bucket, commitments |-> C,
                   root |-> HashConcat(C)]
  BY ManifestLetters
<1>2. /\ w[4] = Num(Len(C)) /\ Len(w) = Len(C) + 5 /\ w[Len(w)] = HashConcat(C)
      /\ Len(C) \in Nat
  <2>1. VerifyManifest(r.body)
    BY <1>1 DEF VerifyManifest
  <2> DEFINE u == <<Version, r.body.epoch, r.body.bucket>>
             v == u \o Packed(C)
  <2>2. IsSeq(u) /\ Len(u) = 3
    BY ThreeCells
  <2>3. Len(C) \in Nat /\ IsSeq(Packed(C)) /\ Len(Packed(C)) = Len(C) + 1
    BY <1>1, LenOf, PackedIsSeq
  <2>4. r.body.root = HashConcat(C)
    BY <1>1
  <2>5. w = v \o <<HashConcat(C)>>
    BY <2>4 DEF EncodeManifest
  <2>6. Packed(C)[1] = Num(Len(C))
    <3> DEFINE n == <<Num(Len(C))>>
    <3>1. IsSeq(n) /\ Len(n) = 1 /\ n[1] = Num(Len(C))
      BY OneCell
    <3>2. Packed(C) = n \o C
      BY DEF Packed
    <3> HIDE DEF n
    <3>3. \A i \in 1..Len(n) : (n \o C)[i] = n[i]
      BY <1>1, <3>1, Joined
    <3>4. 1 \in 1..Len(n)
      BY <3>1
    <3>5. QED
      BY <3>1, <3>2, <3>3, <3>4
  <2> HIDE DEF u
  <2>7. IsSeq(v) /\ Len(v) = Len(C) + 4 /\ v[4] = Num(Len(C))
    <3>1. /\ IsSeq(v) /\ Len(v) = Len(u) + Len(Packed(C))
          /\ \A i \in 1..Len(Packed(C)) : v[Len(u) + i] = Packed(C)[i]
      <4>1. IsSeq(u) /\ IsSeq(Packed(C))
        BY <2>2, <2>3
      <4> HIDE DEF C
      <4>2. QED
        BY <4>1, Joined
    <3>2. v[Len(u) + 1] = Packed(C)[1] /\ Len(u) + 1 = 4
      BY <2>2, <2>3, <3>1
    <3>3. QED
      BY <2>2, <2>3, <2>6, <3>1, <3>2
  <2> HIDE DEF v
  <2>8. /\ Len(Append(v, HashConcat(C))) = Len(v) + 1
        /\ Append(v, HashConcat(C))[Len(v) + 1] = HashConcat(C)
        /\ \A i \in 1..Len(v) : Append(v, HashConcat(C))[i] = v[i]
        /\ Append(v, HashConcat(C)) = v \o <<HashConcat(C)>>
    BY <2>7, Appended
  <2> HIDE DEF w
  <2>9. Len(w) = Len(v) + 1 /\ w[Len(v) + 1] = HashConcat(C) /\ \A i \in 1..Len(v) : w[i] = v[i]
    BY <2>5, <2>8
  <2>10. 4 \in 1..Len(v) /\ Len(v) + 1 = Len(C) + 5
    BY <2>3, <2>7
  <2>11. QED
    BY <2>3, <2>7, <2>9, <2>10
<1>3. /\ x[4] = Num(Len(D)) /\ Len(x) = Len(D) + 5 /\ x[Len(x)] = HashConcat(D)
      /\ 4 <= Len(x) /\ Len(D) \in Nat
  BY <1>1, ManifestIsCanonical, LenOf
<1> HIDE DEF C, D, w
<1>4. x[Len(x)] = HashConcat(C) => D = C
  BY <1>3 DEF HashConcat, Hash
<1>5. x = w => D = C
  BY <1>2, <1>4
<1>6. ASSUME x \in DamagedWire(w)
      PROVE  D = C
  <2>1. \/ Len(x) < Len(w) /\ \A i \in 1..Len(x) : x[i] = w[i]
        \/ 1 <= Len(x) /\ x[Len(x)] \in Number
        \/ 1 <= Len(x) /\ 1 <= Len(w) /\ x[Len(x)] = w[Len(w)]
    BY <1>1, <1>6, DamagedWires
  <2>2. CASE Len(x) < Len(w) /\ \A i \in 1..Len(x) : x[i] = w[i]
    <3>1. 4 \in 1..Len(x)
      BY <1>3
    <3>2. x[4] = w[4]
      BY <2>2, <3>1
    <3>3. Len(D) = Len(C)
      BY <1>2, <1>3, <3>2 DEF Num
    <3>4. QED
      BY <1>2, <1>3, <2>2, <3>3
  <2>3. CASE x[Len(x)] \in Number
    BY <1>3, <2>3 DEF Number, Num, HashConcat, Hash
  <2>4. CASE x[Len(x)] = w[Len(w)]
    BY <1>2, <1>4, <2>4
  <2>5. QED
    BY <2>1, <2>2, <2>3, <2>4
<1>7. QED
  BY <1>1, <1>5, <1>6 DEF C, D

-----------------------------------------------------------------------------
(* Theorems *)

\* What is written within the limits of the reader is read as it was, in every
\* format; a manifest is one for both orders of its packets.
THEOREM WhatIsWrittenIsRead == LetterSpec => []DecodeInvertsEncode
<1>1. LetterInit => DecodeInvertsEncode
  <2>1. SUFFICES ASSUME LetterInit, letter # NoLetter
                 PROVE  DecodeInvertsEncode
    BY DEF DecodeInvertsEncode
  <2>2. PICK r, x : Delivered(r, x) /\ letter = [sent |-> r, got |-> x]
    BY <2>1, LettersAreDelivered
  <2>3. Readable(r) /\ x = Write(r.kind, r.body) => Read(r.kind, x) = r.body
    BY <2>2, ReadsWhatIsWritten DEF Reads
  <2>4. r.kind = "manifest" => r.body = BuildManifest(r.body.epoch, r.body.bucket, Reverse(r.packets))
    BY <2>2, ManifestLetters
  <2>5. letter.sent = r /\ letter.got = x
    BY <2>2
  <2>6. QED
    BY <2>3, <2>4, <2>5 DEF DecodeInvertsEncode
<1>2. DecodeInvertsEncode /\ [FALSE]_letter => DecodeInvertsEncode'
  BY DEF DecodeInvertsEncode
<1>3. QED
  BY <1>1, <1>2, PTL DEF LetterSpec

\* No reader accepts two wires for one record.
THEOREM OneWireForOneRecord == LetterSpec => []AcceptedIsCanonical
<1>1. LetterInit => AcceptedIsCanonical
  <2>1. SUFFICES ASSUME LetterInit, letter # NoLetter
                 PROVE  AcceptedIsCanonical
    BY DEF AcceptedIsCanonical
  <2>2. PICK r, x : Delivered(r, x) /\ letter = [sent |-> r, got |-> x]
    BY <2>1, LettersAreDelivered
  <2>3. Read(r.kind, x) # Error /\ r.kind # "bundle" => Write(r.kind, Read(r.kind, x)) = x
    BY <2>2, WritesWhatIsRead DEF Rewrites
  <2>4. letter.sent = r /\ letter.got = x
    BY <2>2
  <2>5. QED
    BY <2>3, <2>4 DEF AcceptedIsCanonical
<1>2. AcceptedIsCanonical /\ [FALSE]_letter => AcceptedIsCanonical'
  BY DEF AcceptedIsCanonical
<1>3. QED
  BY <1>1, <1>2, PTL DEF LetterSpec

\* Whatever is damaged and still ends in its own hash is refused, or read as what
\* was sent but for the epoch and the bucket of a manifest.
THEOREM DamageShows == LetterSpec => []DamageIsDetected
<1>1. LetterInit => DamageIsDetected
  <2>1. SUFFICES ASSUME LetterInit, letter # NoLetter
                 PROVE  DamageIsDetected
    BY DEF DamageIsDetected
  <2>2. PICK r, x : Delivered(r, x) /\ letter = [sent |-> r, got |-> x]
    BY <2>1, LettersAreDelivered
  <2> DEFINE body == Read(r.kind, x)
  <2>3. letter.sent = r /\ letter.got = x
    BY <2>2
  <2>4. ASSUME r.kind # "registration", body # Error,
               r.kind = "packet" => Last(x) = Last(EncodePacket(r.body))
        PROVE  \/ body = r.body
               \/ r.kind = "manifest" /\ body.commitments = r.body.commitments
               \/ r.kind = "bundle" /\ [body EXCEPT !.commitments = Ordered(@)] =
                                         [r.body EXCEPT !.commitments = Ordered(@)]
    <3>1. CASE r.kind = "packet"
      BY <2>2, <2>4, <3>1, ReadOf, ForgedPacketsAreRefused
    <3>2. CASE r.kind = "manifest"
      BY <2>2, <2>4, <3>2, ReadOf, ForgedManifestsAreRefused
    <3>3. CASE r.kind = "envelope"
      BY <2>2, <2>4, <3>3, ReadOf, EnvelopeLetters
    <3>4. CASE r.kind = "bundle"
      <4>1. body = IF VerifyBundle(x.fields, x.commitment) THEN x.fields ELSE Error
        BY <3>4, ReadOf
      <4>2. body = x.fields /\ VerifyBundle(x.fields, x.commitment)
        BY <2>4, <4>1
      <4>3. QED
        BY <2>2, <3>4, <4>2, BundleLetters
    <3>5. QED
      BY <2>2, <2>4, <3>1, <3>2, <3>3, <3>4, EveryKind
  <2> HIDE DEF body
  <2>5. QED
    BY <2>3, <2>4 DEF DamageIsDetected, body
<1>2. DamageIsDetected /\ [FALSE]_letter => DamageIsDetected'
  BY DEF DamageIsDetected
<1>3. QED
  BY <1>1, <1>2, PTL DEF LetterSpec
=============================================================================
