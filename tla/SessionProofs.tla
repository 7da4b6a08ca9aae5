---------------------------- MODULE SessionProofs ----------------------------
(***************************************************************************)
(* Theorems about StemClient and WalletSession for every set of stems,     *)
(* every cost, every lens and cache size; about the keys and the code      *)
(* chunks of Embedding; and about the answers of VerifiedRpc.              *)
(***************************************************************************)
EXTENDS MCWalletSession, FiniteSetTheorems, SequenceTheorems, NaturalsInduction,
        WellFoundedInduction, TLAPS

-----------------------------------------------------------------------------
(* The cache *)

\* The element at a position moved to the end of a sequence, as another element.
LEMMA MovedToEnd ==
  ASSUME NEW S, NEW seq \in Seq(S), NEW i \in 1..Len(seq), NEW x \in S
  PROVE  /\ Append(RemoveAt(seq, i), x) \in Seq(S)
         /\ Len(Append(RemoveAt(seq, i), x)) = Len(seq)
         /\ \A n \in 1..Len(seq) :
              Append(RemoveAt(seq, i), x)[n] =
                IF n = Len(seq) THEN x ELSE IF n < i THEN seq[n] ELSE seq[n + 1]
<1> DEFINE front == SubSeq(seq, 1, i - 1)
           back  == SubSeq(seq, i + 1, Len(seq))
           rest  == front \o back
<1>1. Len(seq) \in Nat /\ \A n \in 1..Len(seq) : seq[n] \in S
  BY LenProperties, ElementOfSeq
<1>2. /\ front \in Seq(S) /\ Len(front) = i - 1
      /\ \A n \in 1..(i - 1) : front[n] = seq[n]
  <2>1. \A n \in 1..(i - 1) : seq[n] \in S
    BY <1>1
  <2>2. /\ front \in Seq(S)
        /\ Len(front) = IF 1 <= i - 1 THEN (i - 1) - 1 + 1 ELSE 0
        /\ \A n \in 1..((i - 1) - 1 + 1) : front[n] = seq[1 + n - 1]
    BY <1>1, <2>1, SubSeqProperties
  <2> HIDE DEF front
  <2>3. QED
    BY <1>1, <2>2
<1>3. /\ back \in Seq(S) /\ Len(back) = Len(seq) - i
      /\ \A n \in 1..(Len(seq) - i) : back[n] = seq[n + i]
  <2>1. \A n \in (i + 1)..Len(seq) : seq[n] \in S
    BY <1>1
  <2>2. /\ back \in Seq(S)
        /\ Len(back) = IF i + 1 <= Len(seq) THEN Len(seq) - (i + 1) + 1 ELSE 0
        /\ \A n \in 1..(Len(seq) - (i + 1) + 1) : back[n] = seq[(i + 1) + n - 1]
    BY <1>1, <2>1, SubSeqProperties
  <2> HIDE DEF back
  <2>3. \A n \in 1..(Len(seq) - i) : (i + 1) + n - 1 = n + i /\ n \in 1..(Len(seq) - (i + 1) + 1)
    BY <1>1
  <2>4. QED
    BY <1>1, <2>2, <2>3
<1>4. RemoveAt(seq, i) = rest
  BY DEF RemoveAt
<1> HIDE DEF front, back
<1>5. /\ rest \in Seq(S) /\ Len(rest) = Len(seq) - 1
      /\ \A n \in 1..(Len(seq) - 1) : rest[n] = IF n < i THEN seq[n] ELSE seq[n + 1]
  <2>1. /\ rest \in Seq(S) /\ Len(rest) = Len(front) + Len(back)
        /\ \A n \in 1..(Len(front) + Len(back)) :
             rest[n] = IF n <= Len(front) THEN front[n] ELSE back[n - Len(front)]
    BY <1>2, <1>3, ConcatProperties
  <2> HIDE DEF rest
  <2>2. Len(rest) = Len(seq) - 1 /\ Len(front) + Len(back) = Len(seq) - 1
    BY <1>1, <1>2, <1>3, <2>1
  <2>3. ASSUME NEW n \in 1..(Len(seq) - 1)
        PROVE  rest[n] = IF n < i THEN seq[n] ELSE seq[n + 1]
    <3>1. CASE n < i
      <4>1. n \in 1..(i - 1) /\ n <= Len(front)
        BY <1>1, <1>2, <3>1
      <4>2. front[n] = seq[n]
        BY <1>2, <4>1
      <4>3. QED
        BY <2>1, <2>2, <3>1, <4>1, <4>2
    <3>2. CASE ~ (n < i)
      <4>1. n - (i - 1) \in 1..(Len(seq) - i) /\ (n - (i - 1)) + i = n + 1
        BY <1>1, <3>2
      <4>2. back[n - (i - 1)] = seq[n + 1]
        BY <1>3, <4>1
      <4>3. QED
        BY <1>1, <1>2, <2>1, <2>2, <3>2, <4>2
    <3>3. QED
      BY <3>1, <3>2
  <2>4. QED
    BY <2>1, <2>2, <2>3
<1> HIDE DEF rest
<1>6. /\ Append(rest, x) \in Seq(S) /\ Len(Append(rest, x)) = Len(rest) + 1
      /\ \A n \in 1..Len(rest) : Append(rest, x)[n] = rest[n]
      /\ Append(rest, x)[Len(rest) + 1] = x
  BY <1>5, AppendProperties
<1>7. QED
  BY <1>1, <1>4, <1>5, <1>6

\* An element put at the end.
LEMMA PutAtEnd ==
  ASSUME NEW S, NEW seq \in Seq(S), NEW x \in S
  PROVE  /\ Append(seq, x) \in Seq(S)
         /\ Len(Append(seq, x)) = Len(seq) + 1
         /\ \A n \in 1..(Len(seq) + 1) :
              Append(seq, x)[n] = IF n = Len(seq) + 1 THEN x ELSE seq[n]
<1>1. Len(seq) \in Nat
  BY LenProperties
<1>2. QED
  BY <1>1, AppendProperties

\* What the cache holds of the stems used: the last of them, as many as it can.
Kept == IF Len(used) < MaxCached THEN Len(used) ELSE MaxCached

\* The cache is the end of the list of stems used, each stem once.
CacheInv ==
  /\ trusted \in Root
  /\ cache \in Seq(Entry)
  /\ used \in Seq(Stem)
  /\ \A m, n \in 1..Len(used) : used[m] = used[n] => m = n
  /\ Len(cache) = Kept
  /\ \A n \in 1..Len(cache) : cache[n].stem = used[Len(used) - Len(cache) + n]
  /\ hits \in Nat /\ misses \in Nat /\ hits + misses <= MaxReads
  /\ CacheHoldsTrusted

\* The use of a stem with its leaves, which all operations on the cache are.
Use(s, v) ==
  /\ cache' = Evicted(Append(Without(s), [stem |-> s, values |-> v]))
  /\ used' = Moved(used, s)

\* What the use of a stem does to the list of stems used.
LEMMA UsedMoves ==
  ASSUME CacheInv, NEW s \in Stem, used' = Moved(used, s)
  PROVE  /\ used' \in Seq(Stem)
         /\ \A m, n \in 1..Len(used') : used'[m] = used'[n] => m = n
         /\ \A j \in 1..Len(used) : used[j] = s =>
              /\ Len(used') = Len(used)
              /\ \A n \in 1..Len(used) :
                   used'[n] = IF n = Len(used) THEN s ELSE IF n < j THEN used[n] ELSE used[n + 1]
         /\ (\A j \in 1..Len(used) : used[j] # s) =>
              /\ Len(used') = Len(used) + 1
              /\ \A n \in 1..(Len(used) + 1) : used'[n] = IF n = Len(used) + 1 THEN s ELSE used[n]
<1>1. /\ used \in Seq(Stem) /\ Len(used) \in Nat
      /\ \A m, n \in 1..Len(used) : used[m] = used[n] => m = n
      /\ s \in ToSet(used) <=> \E j \in 1..Len(used) : used[j] = s
  BY LenProperties DEF CacheInv, ToSet
<1>2. CASE \A j \in 1..Len(used) : used[j] # s
  <2>1. used' = Append(used, s)
    BY <1>1, <1>2 DEF Moved
  <2>2. /\ used' \in Seq(Stem) /\ Len(used') = Len(used) + 1
        /\ \A n \in 1..(Len(used) + 1) : used'[n] = IF n = Len(used) + 1 THEN s ELSE used[n]
    BY <1>1, <2>1, PutAtEnd
  <2>3. \A m, n \in 1..Len(used') : used'[m] = used'[n] => m = n
    BY <1>1, <1>2, <2>2
  <2>4. QED
    BY <1>2, <2>2, <2>3
<1>3. ASSUME NEW j \in 1..Len(used), used[j] = s
      PROVE  /\ used' \in Seq(Stem)
             /\ Len(used') = Len(used)
             /\ \A n \in 1..Len(used) :
                  used'[n] = IF n = Len(used) THEN s ELSE IF n < j THEN used[n] ELSE used[n + 1]
  <2>1. j = CHOOSE n \in 1..Len(used) : used[n] = s
    <3> DEFINE i == CHOOSE n \in 1..Len(used) : used[n] = s
    <3>1. i \in 1..Len(used) /\ used[i] = s
      BY <1>3
    <3>2. QED
      BY <1>1, <1>3, <3>1
  <2>2. used' = Append(RemoveAt(used, j), s)
    BY <1>1, <1>3, <2>1 DEF Moved
  <2>3. QED
    BY <1>1, <2>2, MovedToEnd
<1>4. ASSUME NEW j \in 1..Len(used), used[j] = s
      PROVE  \A m, n \in 1..Len(used') : used'[m] = used'[n] => m = n
  <2>1. /\ Len(used') = Len(used)
        /\ \A n \in 1..Len(used) :
             used'[n] = IF n = Len(used) THEN s ELSE IF n < j THEN used[n] ELSE used[n + 1]
    BY <1>3, <1>4
  <2> DEFINE old(n) == IF n = Len(used) THEN j ELSE IF n < j THEN n ELSE n + 1
  <2>2. \A n \in 1..Len(used) : old(n) \in 1..Len(used) /\ used'[n] = used[old(n)]
    BY <1>1, <1>4, <2>1
  <2>3. \A m, n \in 1..Len(used) : old(m) = old(n) => m = n
    BY <1>1, <1>4
  <2> HIDE DEF old
  <2>4. SUFFICES ASSUME NEW m \in 1..Len(used), NEW n \in 1..Len(used), used'[m] = used'[n]
                 PROVE  m = n
    BY <2>1
  <2>5. old(m) = old(n)
    <3>1. /\ old(m) \in 1..Len(used) /\ old(n) \in 1..Len(used)
          /\ used[old(m)] = used[old(n)]
      BY <2>2, <2>4
    <3>2. QED
      BY <1>1, <3>1
  <2>6. QED
    BY <2>3, <2>5
<1>5. QED
  <2>1. CASE \E j \in 1..Len(used) : used[j] = s
    <3>1. PICK i \in 1..Len(used) : used[i] = s
      BY <2>1
    <3>2. used' \in Seq(Stem) /\ \A m, n \in 1..Len(used') : used'[m] = used'[n] => m = n
      BY <1>3, <1>4, <3>1
    <3>3. QED
      BY <1>3, <2>1, <3>2
  <2>2. QED
    BY <1>2, <2>1

\* A cached stem is in one entry, Slot says in which.
LEMMA SlotIsUnique ==
  ASSUME CacheInv, NEW i \in 1..Len(cache)
  PROVE  /\ cache[i].stem \in Cached
         /\ Slot(cache[i].stem) = i
<1>1. /\ Len(cache) \in Nat /\ Len(used) \in Nat /\ Len(cache) <= Len(used)
  BY LenProperties, ClientAssumption DEF CacheInv, Kept
<1>2. \A m, n \in 1..Len(cache) : cache[m].stem = cache[n].stem => m = n
  <2>1. SUFFICES ASSUME NEW m \in 1..Len(cache), NEW n \in 1..Len(cache), cache[m].stem = cache[n].stem
                 PROVE  m = n
    OBVIOUS
  <2>2. /\ Len(used) - Len(cache) + m \in 1..Len(used) /\ Len(used) - Len(cache) + n \in 1..Len(used)
    BY <1>1
  <2>3. used[Len(used) - Len(cache) + m] = used[Len(used) - Len(cache) + n]
    BY <2>1 DEF CacheInv
  <2>4. Len(used) - Len(cache) + m = Len(used) - Len(cache) + n
    BY <2>2, <2>3 DEF CacheInv
  <2>5. QED
    BY <1>1, <2>4
<1>3. Slot(cache[i].stem) \in 1..Len(cache) /\ cache[Slot(cache[i].stem)].stem = cache[i].stem
  BY DEF Slot
<1>4. QED
  BY <1>2, <1>3 DEF Cached

\* What the use of a stem does to the cache.
LEMMA CacheMoves ==
  ASSUME CacheInv, NEW s \in Stem, NEW v \in Contents, Use(s, v)
  PROVE  /\ cache' \in Seq(Entry)
         /\ \A i \in 1..Len(cache) : cache[i].stem = s =>
              /\ Len(cache') = Len(cache)
              /\ \A n \in 1..Len(cache) :
                   cache'[n] = IF n = Len(cache) THEN [stem |-> s, values |-> v]
                               ELSE IF n < i THEN cache[n] ELSE cache[n + 1]
         /\ s \notin Cached /\ Len(cache) < MaxCached =>
              /\ Len(cache') = Len(cache) + 1
              /\ \A n \in 1..(Len(cache) + 1) :
                   cache'[n] = IF n = Len(cache) + 1 THEN [stem |-> s, values |-> v] ELSE cache[n]
         /\ s \notin Cached /\ Len(cache) = MaxCached =>
              /\ Len(cache') = Len(cache)
              /\ \A n \in 1..Len(cache) :
                   cache'[n] = IF n = Len(cache) THEN [stem |-> s, values |-> v] ELSE cache[n + 1]
<1> DEFINE e    == [stem |-> s, values |-> v]
           long == Append(cache, e)
<1>1. /\ cache \in Seq(Entry) /\ Len(cache) \in Nat /\ Len(cache) <= MaxCached
      /\ MaxCached \in Nat \ {0} /\ e \in Entry
  BY LenProperties, ClientAssumption DEF CacheInv, Kept, Entry
<1> HIDE DEF e
<1>2. ASSUME NEW i \in 1..Len(cache), cache[i].stem = s
      PROVE  /\ cache' \in Seq(Entry) /\ Len(cache') = Len(cache)
             /\ \A n \in 1..Len(cache) :
                  cache'[n] = IF n = Len(cache) THEN e ELSE IF n < i THEN cache[n] ELSE cache[n + 1]
  <2> DEFINE moved == Append(RemoveAt(cache, i), e)
  <2>1. Without(s) = RemoveAt(cache, i)
    BY <1>2, SlotIsUnique DEF Without
  <2>2. /\ moved \in Seq(Entry) /\ Len(moved) = Len(cache)
        /\ \A n \in 1..Len(cache) :
             moved[n] = IF n = Len(cache) THEN e ELSE IF n < i THEN cache[n] ELSE cache[n + 1]
    BY <1>1, MovedToEnd
  <2>3. cache' = Evicted(moved)
    BY <2>1 DEF Use, e
  <2> HIDE DEF moved
  <2>4. cache' = moved
    BY <1>1, <2>2, <2>3 DEF Evicted
  <2>5. QED
    BY <2>2, <2>4
<1>3. /\ long \in Seq(Entry) /\ Len(long) = Len(cache) + 1
      /\ \A n \in 1..(Len(cache) + 1) : long[n] = IF n = Len(cache) + 1 THEN e ELSE cache[n]
  BY <1>1, PutAtEnd
<1>4. s \notin Cached => cache' = Evicted(long)
  BY DEF Use, Without, e
<1> HIDE DEF long
<1>5. ASSUME s \notin Cached, Len(cache) < MaxCached
      PROVE  cache' = long
  BY <1>1, <1>3, <1>4, <1>5 DEF Evicted
<1>6. ASSUME s \notin Cached, Len(cache) = MaxCached
      PROVE  /\ cache' \in Seq(Entry) /\ Len(cache') = Len(cache)
             /\ \A n \in 1..Len(cache) : cache'[n] = IF n = Len(cache) THEN e ELSE cache[n + 1]
  <2>1. cache' = Tail(long)
    BY <1>1, <1>3, <1>4, <1>6 DEF Evicted
  <2>2. long # <<>>
    BY <1>1, <1>3, EmptySeq
  <2>3. /\ Tail(long) \in Seq(Entry) /\ Len(Tail(long)) = Len(long) - 1
        /\ \A n \in 1..Len(Tail(long)) : Tail(long)[n] = long[n + 1]
    BY <1>3, <2>2, HeadTailProperties
  <2>4. cache' \in Seq(Entry) /\ Len(cache') = Len(cache)
        /\ \A n \in 1..Len(cache) : cache'[n] = long[n + 1]
    BY <1>1, <1>3, <2>1, <2>3
  <2>5. QED
    BY <1>1, <1>3, <2>4
<1>7. s \in Cached => \E i \in 1..Len(cache) : cache[i].stem = s
  BY DEF Cached
<1>8. cache' \in Seq(Entry)
  BY <1>1, <1>2, <1>3, <1>5, <1>6, <1>7
<1>9. QED
  BY <1>2, <1>3, <1>5, <1>6, <1>8 DEF e

\* The use of a stem under the trusted root keeps the cache the end of the list.
LEMMA UseKeeps ==
  ASSUME CacheInv, NEW s \in Stem, NEW v \in Contents, Use(s, v),
         ~ mixed => v = trusted[s], UNCHANGED <<trusted, mixed>>,
         hits' \in Nat, misses' \in Nat, hits' + misses' <= MaxReads
  PROVE  CacheInv'
<1> DEFINE e == [stem |-> s, values |-> v]
           k == Len(cache)
           o == Len(used) - Len(cache)
<1>1. /\ k \in Nat /\ Len(used) \in Nat /\ o \in Nat /\ k <= Len(used) /\ k <= MaxCached
      /\ MaxCached \in Nat \ {0} /\ Len(used) = o + k
      /\ k < MaxCached => o = 0
      /\ \A n \in 1..k : cache[n].stem = used[o + n]
  <2>1. k \in Nat /\ Len(used) \in Nat /\ MaxCached \in Nat \ {0}
    BY LenProperties, ClientAssumption DEF CacheInv
  <2>2. k = IF Len(used) < MaxCached THEN Len(used) ELSE MaxCached
    BY DEF CacheInv, Kept
  <2>3. \A n \in 1..k : cache[n].stem = used[o + n]
    BY DEF CacheInv
  <2>4. /\ o \in Nat /\ k <= Len(used) /\ k <= MaxCached /\ Len(used) = o + k
        /\ k < MaxCached => o = 0
    BY <2>1, <2>2
  <2>5. QED
    BY <2>1, <2>3, <2>4
<1>2. cache' \in Seq(Entry) /\ used' \in Seq(Stem)
      /\ \A m, n \in 1..Len(used') : used'[m] = used'[n] => m = n
  BY CacheMoves, UsedMoves DEF Use
<1>3. SUFFICES /\ Len(cache') = Kept'
               /\ \A n \in 1..Len(cache') :
                    /\ cache'[n].stem = used'[Len(used') - Len(cache') + n]
                    /\ cache'[n] = e \/ \E m \in 1..k : cache'[n] = cache[m]
  <2>1. CacheHoldsTrusted'
    <3>1. SUFFICES ASSUME ~ mixed, NEW n \in 1..Len(cache')
                   PROVE  cache'[n].values = trusted[cache'[n].stem]
      BY DEF CacheHoldsTrusted
    <3>2. CASE cache'[n] = e
      BY <3>1, <3>2
    <3>3. CASE \E m \in 1..k : cache'[n] = cache[m]
      BY <3>1, <3>3 DEF CacheInv, CacheHoldsTrusted
    <3>4. QED
      BY <1>3, <3>2, <3>3
  <2>2. QED
    BY <1>2, <1>3, <2>1 DEF CacheInv
<1> HIDE DEF k, o
<1>4. ASSUME NEW i \in 1..k, cache[i].stem = s
      PROVE  /\ Len(cache') = Kept'
             /\ \A n \in 1..Len(cache') :
                  /\ cache'[n].stem = used'[Len(used') - Len(cache') + n]
                  /\ cache'[n] = e \/ \E m \in 1..k : cache'[n] = cache[m]
  <2>1. o + i \in 1..Len(used) /\ used[o + i] = s
    BY <1>1, <1>4
  <2>2. /\ Len(used') = Len(used)
        /\ \A n \in 1..Len(used) :
             used'[n] = IF n = Len(used) THEN s ELSE IF n < o + i THEN used[n] ELSE used[n + 1]
    BY <2>1, UsedMoves DEF Use
  <2>3. /\ Len(cache') = k
        /\ \A n \in 1..k : cache'[n] = IF n = k THEN e ELSE IF n < i THEN cache[n] ELSE cache[n + 1]
    BY <1>4, CacheMoves DEF k
  <2>4. ASSUME NEW n \in 1..k
        PROVE  cache'[n].stem = used'[o + n]
    <3>1. /\ o + n \in 1..Len(used)
          /\ o + n = Len(used) <=> n = k
          /\ o + n < o + i <=> n < i
      BY <1>1
    <3>2. CASE n = k
      BY <1>1, <2>2, <2>3, <3>1, <3>2
    <3>3. CASE n # k
      <4>1. cache'[n] = (IF n < i THEN cache[n] ELSE cache[n + 1])
        BY <2>3, <3>3
      <4>2. used'[o + n] = IF n < i THEN used[o + n] ELSE used[(o + n) + 1]
        BY <2>2, <3>1, <3>3
      <4>3. (o + n) + 1 = o + (n + 1) /\ n + 1 \in 1..k
        <5>1. k \in Nat /\ o \in Nat /\ n \in Nat /\ n < k
          BY <1>1, <3>3
        <5>2. QED
          BY <5>1
      <4>4. QED
        BY <1>1, <4>1, <4>2, <4>3
    <3>4. QED
      BY <3>2, <3>3
  <2>5. Len(used') - Len(cache') = o /\ Kept' = k
    BY <1>1, <2>2, <2>3 DEF Kept, CacheInv, k, o
  <2>6. ASSUME NEW n \in 1..k
        PROVE  cache'[n] = e \/ \E m \in 1..k : cache'[n] = cache[m]
    BY <1>1, <2>3
  <2>7. QED
    BY <2>3, <2>4, <2>5, <2>6
<1>5. ASSUME \A i \in 1..k : cache[i].stem # s
      PROVE  /\ Len(cache') = Kept'
             /\ \A n \in 1..Len(cache') :
                  /\ cache'[n].stem = used'[Len(used') - Len(cache') + n]
                  /\ cache'[n] = e \/ \E m \in 1..k : cache'[n] = cache[m]
  <2>1. s \notin Cached
    BY <1>5 DEF Cached, k
  <2>2. ASSUME NEW j \in 1..Len(used), used[j] = s
        PROVE  j <= o
    <3>1. SUFFICES ASSUME ~ (j <= o) PROVE FALSE
      OBVIOUS
    <3>2. j - o \in 1..k /\ o + (j - o) = j
      BY <1>1, <3>1
    <3>3. QED
      BY <1>1, <1>5, <2>2, <3>2
  <2>3. CASE k < MaxCached
    <3>1. o = 0 /\ k = Len(used)
      BY <1>1, <2>3
    <3>2. \A j \in 1..Len(used) : used[j] # s
      BY <1>1, <2>2, <3>1
    <3>3. /\ Len(used') = k + 1
          /\ \A n \in 1..(k + 1) : used'[n] = IF n = k + 1 THEN s ELSE used[n]
      BY <3>1, <3>2, UsedMoves DEF Use
    <3>4. /\ Len(cache') = k + 1
          /\ \A n \in 1..(k + 1) : cache'[n] = IF n = k + 1 THEN e ELSE cache[n]
      BY <2>1, <2>3, CacheMoves DEF k
    <3>5. Len(used') - Len(cache') = 0 /\ Kept' = k + 1
      BY <1>1, <2>3, <3>3, <3>4 DEF Kept
    <3>6. ASSUME NEW n \in 1..(k + 1)
          PROVE  /\ cache'[n].stem = used'[0 + n]
                 /\ cache'[n] = e \/ \E m \in 1..k : cache'[n] = cache[m]
      <4>1. CASE n = k + 1
        BY <1>1, <3>3, <3>4, <4>1
      <4>2. CASE n # k + 1
        <5>1. n \in 1..k /\ 0 + n = n
          BY <1>1, <4>2
        <5>2. QED
          BY <1>1, <3>1, <3>3, <3>4, <4>2, <5>1
      <4>3. QED
        BY <4>1, <4>2
    <3>7. QED
      BY <3>4, <3>5, <3>6
  <2>4. CASE k = MaxCached
    <3>1. /\ Len(cache') = k
          /\ \A n \in 1..k : cache'[n] = IF n = k THEN e ELSE cache[n + 1]
      BY <2>1, <2>4, CacheMoves DEF k
    <3>2. Len(used') \in {Len(used), Len(used) + 1}
          /\ \A n \in 1..k : used'[Len(used') - k + n] = IF n = k THEN s ELSE used[o + (n + 1)]
      <4>1. CASE \A j \in 1..Len(used) : used[j] # s
        <5>1. /\ Len(used') = Len(used) + 1
              /\ \A n \in 1..(Len(used) + 1) : used'[n] = IF n = Len(used) + 1 THEN s ELSE used[n]
          BY <4>1, UsedMoves DEF Use
        <5>2. \A n \in 1..k : /\ (Len(used) + 1) - k + n = o + (n + 1)
                               /\ o + (n + 1) \in 1..(Len(used) + 1)
                               /\ (o + (n + 1) = Len(used) + 1 <=> n = k)
          BY <1>1
        <5>3. ASSUME NEW n \in 1..k
              PROVE  used'[Len(used') - k + n] = IF n = k THEN s ELSE used[o + (n + 1)]
          <6>1. used'[Len(used') - k + n] = used'[o + (n + 1)]
            BY <5>1, <5>2
          <6>2. QED
            BY <5>1, <5>2, <6>1
        <5>4. QED
          BY <5>1, <5>3
      <4>2. CASE \E j \in 1..Len(used) : used[j] = s
        <5>1. PICK j \in 1..Len(used) : used[j] = s
          BY <4>2
        <5>2. /\ Len(used') = Len(used)
              /\ \A n \in 1..Len(used) :
                   used'[n] = IF n = Len(used) THEN s ELSE IF n < j THEN used[n] ELSE used[n + 1]
          BY <5>1, UsedMoves DEF Use
        <5>3. j <= o
          BY <2>2, <5>1
        <5>4. \A n \in 1..k : /\ Len(used) - k + n = o + n /\ o + n \in 1..Len(used)
                               /\ (o + n = Len(used) <=> n = k)
                               /\ ~ (o + n < j) /\ (o + n) + 1 = o + (n + 1)
          BY <1>1, <5>3
        <5>5. ASSUME NEW n \in 1..k
              PROVE  used'[Len(used') - k + n] = IF n = k THEN s ELSE used[o + (n + 1)]
          <6>1. used'[Len(used') - k + n] = used'[o + n]
            BY <5>2, <5>4
          <6>2. used'[o + n] = IF n = k THEN s ELSE used[(o + n) + 1]
            BY <5>2, <5>4
          <6>3. QED
            BY <5>4, <6>1, <6>2
        <5>6. QED
          BY <5>2, <5>5
      <4>3. QED
        BY <4>1, <4>2
    <3>3. Kept' = k
      BY <1>1, <2>4, <3>2 DEF Kept
    <3>4. ASSUME NEW n \in 1..k
          PROVE  /\ cache'[n].stem = used'[Len(used') - k + n]
                 /\ cache'[n] = e \/ \E m \in 1..k : cache'[n] = cache[m]
      <4>1. CASE n = k
        <5>1. cache'[n] = e /\ used'[Len(used') - k + n] = s
          BY <3>1, <3>2, <4>1
        <5>2. QED
          BY <5>1
      <4>2. CASE n # k
        <5>1. n + 1 \in 1..k
          BY <1>1, <4>2
        <5>2. QED
          BY <1>1, <3>1, <3>2, <4>2, <5>1
      <4>3. QED
        BY <4>1, <4>2
    <3>5. QED
      BY <3>1, <3>3, <3>4
  <2>5. QED
    BY <1>1, <2>3, <2>4
<1>6. QED
  BY <1>4, <1>5

LEMMA CacheStarts == Init => CacheInv
<1> SUFFICES ASSUME Init PROVE CacheInv
  OBVIOUS
<1>1. cache \in Seq(Entry) /\ used \in Seq(Stem) /\ Len(cache) = 0 /\ Len(used) = 0
  BY EmptySeq DEF Init
<1>2. QED
  BY <1>1, ClientAssumption DEF Init, CacheInv, Kept, CacheHoldsTrusted

\* The checks of a packet tie its prefix to the key, the key and the value to the
\* proof, and all leaves of the proof to the root.
LEMMA AcceptedIsBound ==
  ASSUME NEW p \in Sent, VerifyPacket(p), trusted \in Root
  PROVE  /\ p.key \in LeafKey /\ p.stemPrefix \in Stem /\ p.stemPrefix = p.key[1]
         /\ p.proof.stemValues \in Contents /\ p.proof.stemValues = trusted[p.stemPrefix]
         /\ p.value = trusted[p.key[1]][p.key[2]]
<1>1. p \in Packet
  BY ClientAssumption
<1>2. /\ p.key \in LeafKey /\ p.stemPrefix \in Stem /\ p.stemPrefix = p.key[1]
      /\ p.proof.key = p.key /\ p.proof.value = p.value /\ VerifyProof(p.root, p.proof)
      /\ p.root = trusted /\ p.proof \in Proof
  BY <1>1 DEF Packet, VerifyPacket, VerifyWitnessPacket
<1>3. p.proof.path.block \in Root
  BY <1>2 DEF Proof, Path
<1>4. /\ trusted = [p.proof.path.block EXCEPT ![p.stemPrefix] = p.proof.stemValues]
      /\ p.proof.stemValues[p.key[2]] = p.value
  BY <1>2 DEF VerifyProof
<1>5. trusted[p.stemPrefix] = p.proof.stemValues
  BY <1>2, <1>3, <1>4 DEF Root
<1>6. p.proof.stemValues \in Contents
  BY <1>2, <1>5 DEF Root
<1>7. QED
  BY <1>2, <1>4, <1>5, <1>6

LEMMA CacheKeeps ==
  ASSUME CacheInv, [Next]_vars
  PROVE  CacheInv'
<1>1. ASSUME NEW p \in Sent, VerifyAndCachePacket(p)
      PROVE  CacheInv'
  <2>1. /\ p.stemPrefix \in Stem /\ p.proof.stemValues \in Contents
        /\ p.proof.stemValues = trusted[p.stemPrefix]
    BY <1>1, AcceptedIsBound DEF VerifyAndCachePacket, CacheInv
  <2>2. Use(p.stemPrefix, p.proof.stemValues)
    BY <1>1 DEF VerifyAndCachePacket, Use
  <2>3. UNCHANGED <<trusted, hits, misses, mixed>>
    BY <1>1 DEF VerifyAndCachePacket
  <2>4. hits' \in Nat /\ misses' \in Nat /\ hits' + misses' <= MaxReads
    BY <2>3 DEF CacheInv
  <2>5. QED
    BY <2>1, <2>2, <2>3, <2>4, UseKeeps
<1>2. ASSUME NEW s \in Stem, Hit(s)
      PROVE  CacheInv'
  <2>1. PICK i \in 1..Len(cache) : cache[i].stem = s
    BY <1>2 DEF Hit, Cached
  <2>2. ValuesOf(s) = cache[i].values
    BY <2>1, SlotIsUnique DEF ValuesOf
  <2>3. cache[i] \in Entry
    BY ElementOfSeq DEF CacheInv
  <2>4. ValuesOf(s) \in Contents /\ (~ mixed => ValuesOf(s) = trusted[s])
    BY <2>1, <2>2, <2>3 DEF Entry, CacheInv, CacheHoldsTrusted
  <2>5. cache' = Append(Without(s), [stem |-> s, values |-> ValuesOf(s)])
        /\ used' = Moved(used, s) /\ UNCHANGED <<trusted, mixed>>
    BY <1>2 DEF Hit
  <2>6. Use(s, ValuesOf(s))
    <3>1. Without(s) = RemoveAt(cache, i)
      BY <2>1, SlotIsUnique DEF Without
    <3>2. [stem |-> s, values |-> ValuesOf(s)] \in Entry
      BY <2>4 DEF Entry
    <3>3. Len(cache') = Len(cache)
      BY <2>5, <3>1, <3>2, MovedToEnd DEF CacheInv
    <3>4. Len(cache') <= MaxCached
      BY <3>3, LenProperties, ClientAssumption DEF CacheInv, Kept
    <3>5. Evicted(cache') = cache'
      BY <3>4, <3>3, LenProperties, ClientAssumption DEF CacheInv, Evicted
    <3>6. QED
      BY <2>5, <3>5 DEF Use
  <2>7. hits' \in Nat /\ misses' \in Nat /\ hits' + misses' <= MaxReads
    BY <1>2, ClientAssumption DEF Hit, CacheInv
  <2>8. QED
    BY <2>4, <2>5, <2>6, <2>7, UseKeeps
<1>3. ASSUME NEW s \in Stem, Miss(s)
      PROVE  CacheInv'
  <2>1. UNCHANGED <<trusted, cache, used, mixed>> /\ hits' \in Nat /\ misses' \in Nat
        /\ hits' + misses' <= MaxReads
    BY <1>3, ClientAssumption DEF Miss, CacheInv
  <2>2. QED
    BY <2>1 DEF CacheInv, Kept, CacheHoldsTrusted
<1>4. ASSUME cache' = <<>>, used' = <<>>, trusted' \in Root, UNCHANGED <<hits, misses>>
      PROVE  CacheInv'
  <2>1. cache' \in Seq(Entry) /\ used' \in Seq(Stem) /\ Len(cache') = 0 /\ Len(used') = 0
    BY <1>4, EmptySeq
  <2>2. QED
    BY <1>4, <2>1, ClientAssumption DEF CacheInv, Kept, CacheHoldsTrusted
<1>5. ASSUME NEW r \in Root, SetVerifiedBlockRoot(r, FALSE)
      PROVE  CacheInv'
  <2>1. UNCHANGED <<cache, used, hits, misses>> /\ trusted' = r
        /\ mixed' = (mixed \/ (cache # <<>> /\ r # trusted))
    BY <1>5 DEF SetVerifiedBlockRoot
  <2>2. CacheHoldsTrusted'
    <3>1. CASE cache = <<>>
      BY <2>1, <3>1 DEF CacheHoldsTrusted
    <3>2. CASE cache # <<>>
      BY <2>1, <3>2 DEF CacheInv, CacheHoldsTrusted
    <3>3. QED
      BY <3>1, <3>2
  <2>3. QED
    BY <2>1, <2>2 DEF CacheInv, Kept
<1>6. CASE UNCHANGED vars
  BY <1>6 DEF vars, CacheInv, Kept, CacheHoldsTrusted
<1>7. ASSUME NEW r \in Root, SetVerifiedBlockRoot(r, TRUE)
      PROVE  CacheInv'
  BY <1>4, <1>7 DEF SetVerifiedBlockRoot
<1>8. CASE ClearCache
  BY <1>4, <1>8 DEF ClearCache, CacheInv
<1>9. QED
  BY <1>1, <1>2, <1>3, <1>5, <1>6, <1>7, <1>8 DEF Next

LEMMA ClientIsInvariant == Spec => []CacheInv
<1>1. CacheInv /\ [Next]_vars => CacheInv'
  BY CacheKeeps
<1>2. QED
  BY <1>1, CacheStarts, PTL DEF Spec

\* For every size of the cache: however packets, reads and rotations of the root
\* follow each other, it never holds more stems than it may, and none twice
\* (verify_and_cache_packet, cached_value).
THEOREM ClientTypeCorrect == Spec => []ClientTypeOK
<1>1. CacheInv => ClientTypeOK
  <2>1. SUFFICES ASSUME CacheInv PROVE ClientTypeOK
    OBVIOUS
  <2> DEFINE stems == [n \in 1..Len(cache) |-> cache[n].stem]
  <2>2. Len(cache) <= MaxCached
    BY <2>1, LenProperties, ClientAssumption DEF CacheInv, Kept
  <2>3. \A m, n \in 1..Len(cache) : cache[m].stem = cache[n].stem => m = n
    BY <2>1, SlotIsUnique
  <2>4. DOMAIN stems = 1..Len(cache) /\ \A n \in 1..Len(cache) : stems[n] = cache[n].stem
    OBVIOUS
  <2> HIDE DEF stems
  <2>5. IsInjective(stems)
    BY <2>3, <2>4 DEF IsInjective
  <2>6. QED
    BY <2>1, <2>2, <2>5 DEF CacheInv, ClientTypeOK, stems
<1>2. QED
  BY <1>1, ClientIsInvariant, PTL

\* Of any set of packets, one that verify_packet accepts is about a leaf of the
\* trusted root, under the key and prefix it names and with the value it states.
LEMMA AcceptedPacketsAreTrue == CacheInv => AcceptedPacketIsTrue
  BY AcceptedIsBound DEF CacheInv, AcceptedPacketIsTrue

\* For every size of the cache, every set of stems, leaves and packets: a packet that
\* is accepted is true of the trusted root, and while roots are rotated with
\* clear_cache=True, all leaves cached under a stem are those the trusted root holds
\* there, whatever the packets were put together from and however late or often they
\* came (verify_packet, verify_witness_packet, verify_and_cache_packet,
\* set_verified_block_root).
THEOREM CacheHoldsThisBlock == Spec => []CacheIsBlockScoped
<1>1. CacheInv => CacheIsBlockScoped
  BY AcceptedPacketsAreTrue DEF CacheInv, CacheIsBlockScoped
<1>2. QED
  BY <1>1, ClientIsInvariant, PTL

\* For every size of the cache: it holds exactly the stems used last since it was
\* cleared, in the order of their use (move_to_end, popitem).
THEOREM CacheHoldsMostRecent == Spec => []CacheIsMostRecent
<1>1. CacheInv => CacheIsMostRecent
  <2>1. SUFFICES ASSUME CacheInv PROVE CacheIsMostRecent
    OBVIOUS
  <2> DEFINE stems == [n \in 1..Len(cache) |-> cache[n].stem]
             first == Len(used) + 1 - Kept
             last  == SubSeq(used, first, Len(used))
  <2>2. /\ Len(used) \in Nat /\ Len(cache) \in Nat /\ Len(cache) = Kept /\ Kept <= Len(used)
        /\ first \in 1..(Len(used) + 1)
    <3>1. Len(used) \in Nat /\ Len(cache) \in Nat /\ Len(cache) = Kept
      BY <2>1, LenProperties DEF CacheInv
    <3>2. Kept \in Nat /\ Kept <= Len(used)
      BY <3>1, ClientAssumption DEF Kept
    <3>3. QED
      BY <3>1, <3>2
  <2>3. /\ last \in Seq(Stem)
        /\ Len(last) = IF first <= Len(used) THEN Len(used) - first + 1 ELSE 0
        /\ \A n \in 1..(Len(used) - first + 1) : last[n] = used[first + n - 1]
    <3>1. \A n \in first..Len(used) : used[n] \in Stem
      BY <2>1, <2>2, ElementOfSeq DEF CacheInv
    <3> HIDE DEF first
    <3>2. QED
      BY <2>2, <3>1, SubSeqProperties
  <2>4. Len(used) - first + 1 = Len(cache)
        /\ \A n \in 1..Len(cache) : first + n - 1 = Len(used) - Len(cache) + n
    BY <2>2
  <2> HIDE DEF last, first
  <2>5. /\ Len(last) = Len(cache)
        /\ \A n \in 1..Len(cache) : last[n] = cache[n].stem
    <3>1. Len(last) = Len(cache)
      <4>1. CASE first <= Len(used)
        BY <2>3, <2>4, <4>1
      <4>2. CASE ~ (first <= Len(used))
        BY <2>2, <2>3, <2>4, <4>2
      <4>3. QED
        BY <4>1, <4>2
    <3>2. ASSUME NEW n \in 1..Len(cache)
          PROVE  last[n] = cache[n].stem
      BY <2>1, <2>3, <2>4 DEF CacheInv
    <3>3. QED
      BY <3>1, <3>2
  <2>6. last \in [1..Len(cache) -> Stem]
    BY <2>3, <2>5, LenProperties
  <2>7. stems = last
    BY <2>5, <2>6, Zenon
  <2>8. QED
    BY <2>7 DEF CacheIsMostRecent, Kept, last, first
<1>2. QED
  BY <1>1, ClientIsInvariant, PTL

\* A session does with its client only what the client allows: what is proved of the
\* client holds in every session.
THEOREM SessionRunsTheClient == SessionSpec => Spec
<1>1. SessionInit => Init
  BY DEF SessionInit
<1>2. [SessionNext]_session => [Next]_vars
  <2>1. SUFFICES ASSUME [SessionNext]_session PROVE [Next]_vars
    OBVIOUS
  <2>2. CASE \E p \in Sent : ReceivePacket(p)
    BY <2>2 DEF ReceivePacket, Next
  <2>3. CASE \E s \in Stem, newLeaf \in BOOLEAN, lv \in BOOLEAN : Access(s, newLeaf, lv)
    BY <2>3 DEF Access
  <2>4. CASE UseLens \/ UNCHANGED session
    BY <2>4 DEF UseLens, session
  <2>5. CASE ForgetCache
    BY <2>5 DEF ForgetCache, Next
  <2>6. CASE \E r \in Root, clear \in BOOLEAN : NextBlock(r, clear)
    BY <2>6 DEF NextBlock, Next
  <2>7. QED
    BY <2>1, <2>2, <2>3, <2>4, <2>5, <2>6 DEF SessionNext
<1>3. QED
  BY <1>1, <1>2, PTL DEF SessionSpec, Spec

-----------------------------------------------------------------------------
(* The meter and the client *)

\* An access and a block are of the meter, and nothing else touches it but marks.
MeterStep ==
  \/ \E s \in Stem : Meter!MarkStemVerified(s) /\ fresh' = fresh \cup {s}
  \/ \E s \in Stem, newLeaf \in BOOLEAN, lv \in BOOLEAN :
       Meter!Charge(s, newLeaf, lv) /\ UNCHANGED fresh
  \/ Meter!NewBlock /\ fresh' = {}
  \/ UNCHANGED <<opened, hot, block, fresh>>

LEMMA StepsOfTheMeter ==
  ASSUME [SessionNext]_session
  PROVE  MeterStep
<1>1. CASE \E p \in Sent : ReceivePacket(p)
  BY <1>1, ClientAssumption DEF MeterStep, ReceivePacket, Packet
<1>2. CASE \E s \in Stem, newLeaf \in BOOLEAN, lv \in BOOLEAN : Access(s, newLeaf, lv)
  BY <1>2 DEF MeterStep, Access
<1>3. CASE UseLens \/ ForgetCache \/ UNCHANGED session
  BY <1>3 DEF MeterStep, UseLens, ForgetCache, session, meter
<1>4. CASE \E r \in Root, clear \in BOOLEAN : NextBlock(r, clear)
  BY <1>4 DEF MeterStep, NextBlock
<1>5. QED
  BY <1>1, <1>2, <1>3, <1>4 DEF SessionNext

\* For every sequence of packets, accesses and blocks: only stems verified under the
\* root trusted now are ever marked or discounted (charge_read, mark_stem_verified,
\* new_block).
THEOREM DiscountsAreOfThisBlock == SessionSpec => []DiscountIsCurrent
<1>1. SessionInit => DiscountIsCurrent
  BY DEF SessionInit, Meter!GasInit, Meter!Untouched, DiscountIsCurrent
<1>2. DiscountIsCurrent /\ [SessionNext]_session => DiscountIsCurrent'
  <2>1. SUFFICES ASSUME DiscountIsCurrent, [SessionNext]_session PROVE DiscountIsCurrent'
    OBVIOUS
  <2>2. MeterStep
    BY <2>1, StepsOfTheMeter
  <2>3. ASSUME NEW s \in Stem, Meter!MarkStemVerified(s), fresh' = fresh \cup {s}
        PROVE  DiscountIsCurrent'
    BY <2>1, <2>3 DEF Meter!MarkStemVerified, DiscountIsCurrent
  <2>4. ASSUME NEW s \in Stem, NEW newLeaf, NEW lv, Meter!Charge(s, newLeaf, lv), UNCHANGED fresh
        PROVE  DiscountIsCurrent'
    BY <2>1, <2>4 DEF Meter!Charge, Meter!Discounted, DiscountIsCurrent
  <2>5. CASE Meter!NewBlock /\ fresh' = {}
    BY <2>5 DEF Meter!NewBlock, Meter!Untouched, DiscountIsCurrent
  <2>6. CASE UNCHANGED <<opened, hot, block, fresh>>
    BY <2>1, <2>6 DEF DiscountIsCurrent
  <2>7. QED
    BY <2>2, <2>3, <2>4, <2>5, <2>6 DEF MeterStep
<1>3. QED
  BY <1>1, <1>2, PTL DEF SessionSpec

-----------------------------------------------------------------------------
(* The sum of a block *)

\* The sum of the property.
Exact ==
  block.spent = HitCost * Cardinality(block.cheap)
              + (BranchCost + ChunkCost) * Cardinality(opened \ block.cheap)
              + ChunkCost * (block.accesses - Cardinality(opened))
              + NewLeafCost * block.leaves

\* With it, the numbers are numbers and discounted stems are opened ones.
GasInv ==
  /\ IsFiniteSet(opened)
  /\ block \in [accesses : Nat, leaves : Nat, spent : Nat, cheap : SUBSET opened]
  /\ Exact

LEMMA Costs == {BranchCost, ChunkCost, NewLeafCost, HitCost} \subseteq Nat
BY SessionAssumption

LEMMA SameCardinality == \A S : Meter!Cardinality(S) = Cardinality(S)
BY DEF Meter!Cardinality, Cardinality

LEMMA OneMore == \A x, y \in Int : x * (y + 1) = x * y + x
OBVIOUS

LEMMA ChargeIsExact ==
  ASSUME GasInv, NEW s \in Stem, NEW newLeaf \in BOOLEAN, NEW lv \in BOOLEAN,
         Meter!Charge(s, newLeaf, lv)
  PROVE  GasInv'
<1> DEFINE leaf == IF newLeaf THEN 1 ELSE 0
           new  == IF newLeaf THEN NewLeafCost ELSE 0
<1>1. /\ block.accesses \in Nat /\ block.leaves \in Nat /\ block.spent \in Nat
      /\ block.cheap \subseteq opened /\ IsFiniteSet(opened) /\ IsFiniteSet(block.cheap)
      /\ block.spent = HitCost * Cardinality(block.cheap)
                     + (BranchCost + ChunkCost) * Cardinality(opened \ block.cheap)
                     + ChunkCost * (block.accesses - Cardinality(opened))
                     + NewLeafCost * block.leaves
  BY FS_Subset DEF GasInv, Exact
<1>2. /\ BranchCost \in Nat /\ ChunkCost \in Nat /\ NewLeafCost \in Nat /\ HitCost \in Nat
      /\ leaf \in Nat /\ new \in Nat
      /\ NewLeafCost * (block.leaves + leaf) = NewLeafCost * block.leaves + new
  BY <1>1, Costs, OneMore
<1>3. block'.accesses = block.accesses + 1 /\ block'.leaves = block.leaves + leaf
  BY DEF Meter!Charge
<1>4. /\ Cardinality(opened) \in Nat /\ Cardinality(block.cheap) \in Nat
      /\ IsFiniteSet(opened \ block.cheap) /\ Cardinality(opened \ block.cheap) \in Nat
  BY <1>1, FS_Subset, FS_CardinalityType
<1>5. CASE s \in opened
  <2>1. /\ opened' = opened /\ block'.cheap = block.cheap
        /\ block'.spent = block.spent + ChunkCost + new
        /\ block' \in [accesses : Nat, leaves : Nat, spent : Nat, cheap : SUBSET opened]
    BY <1>1, <1>2, <1>5 DEF Meter!Charge, Meter!Discounted
  <2>2. ChunkCost * (block'.accesses - Cardinality(opened))
          = ChunkCost * (block.accesses - Cardinality(opened)) + ChunkCost
    <3>1. block'.accesses - Cardinality(opened) = (block.accesses - Cardinality(opened)) + 1
      BY <1>1, <1>3, <1>4
    <3>2. block.accesses - Cardinality(opened) \in Int /\ ChunkCost \in Int
      BY <1>1, <1>2, <1>4
    <3>3. QED
      BY <3>1, <3>2, OneMore
  <2>3. Exact'
    BY <1>1, <1>2, <1>3, <1>4, <2>1, <2>2 DEF Exact
  <2>4. QED
    BY <1>1, <2>1, <2>3 DEF GasInv
<1>6. CASE s \notin opened
  <2>1. /\ IsFiniteSet(opened \cup {s})
        /\ Cardinality(opened \cup {s}) = Cardinality(opened) + 1
        /\ Cardinality(block.cheap \cup {s}) = Cardinality(block.cheap) + 1
        /\ Cardinality((opened \cup {s}) \ (block.cheap \cup {s})) = Cardinality(opened \ block.cheap)
        /\ Cardinality((opened \cup {s}) \ block.cheap) = Cardinality(opened \ block.cheap) + 1
    <3>1. /\ s \notin block.cheap /\ s \notin opened \ block.cheap
          /\ (opened \cup {s}) \ (block.cheap \cup {s}) = opened \ block.cheap
          /\ (opened \cup {s}) \ block.cheap = (opened \ block.cheap) \cup {s}
      BY <1>1, <1>6
    <3>2. /\ IsFiniteSet(opened \cup {s})
          /\ Cardinality(opened \cup {s}) = Cardinality(opened) + 1
      BY <1>1, <1>6, FS_AddElement
    <3>3. Cardinality(block.cheap \cup {s}) = Cardinality(block.cheap) + 1
      BY <1>1, <3>1, FS_AddElement
    <3>4. Cardinality((opened \ block.cheap) \cup {s}) = Cardinality(opened \ block.cheap) + 1
      BY <1>4, <3>1, FS_AddElement
    <3>5. QED
      BY <3>1, <3>2, <3>3, <3>4
  <2>2. /\ opened' = opened \cup {s}
        /\ IsFiniteSet(opened')
        /\ Cardinality(opened') = Cardinality(opened) + 1
    BY <2>1 DEF Meter!Charge
  <2>3. block'.accesses - Cardinality(opened') = block.accesses - Cardinality(opened)
    BY <1>1, <1>3, <1>4, <2>2
  <2>4. CASE Meter!Discounted(s, lv)
    <3>1. /\ block'.cheap = block.cheap \cup {s}
          /\ block'.spent = block.spent + HitCost + new
          /\ block' \in [accesses : Nat, leaves : Nat, spent : Nat, cheap : SUBSET opened']
      BY <1>1, <1>2, <2>2, <2>4 DEF Meter!Charge
    <3>2. /\ Cardinality(block'.cheap) = Cardinality(block.cheap) + 1
          /\ Cardinality(opened' \ block'.cheap) = Cardinality(opened \ block.cheap)
      BY <2>2, <2>1, <3>1
    <3>3. HitCost * Cardinality(block'.cheap) = HitCost * Cardinality(block.cheap) + HitCost
      BY <1>2, <1>4, <3>2, OneMore
    <3>4. Exact'
      BY <1>1, <1>2, <1>3, <1>4, <2>2, <2>3, <3>1, <3>2, <3>3
      DEF Exact
    <3>5. QED
      BY <2>2, <3>1, <3>4 DEF GasInv
  <2>5. CASE ~ Meter!Discounted(s, lv)
    <3>1. /\ block'.cheap = block.cheap
          /\ block'.spent = block.spent + (BranchCost + ChunkCost) + new
          /\ block' \in [accesses : Nat, leaves : Nat, spent : Nat, cheap : SUBSET opened']
      BY <1>1, <1>2, <1>6, <2>2, <2>5 DEF Meter!Charge
    <3>2. Cardinality(opened' \ block'.cheap) = Cardinality(opened \ block.cheap) + 1
      BY <2>2, <2>1, <3>1
    <3>3. (BranchCost + ChunkCost) * Cardinality(opened' \ block'.cheap)
            = (BranchCost + ChunkCost) * Cardinality(opened \ block.cheap) + (BranchCost + ChunkCost)
      <4>1. BranchCost + ChunkCost \in Int
        BY <1>2
      <4>2. QED
        BY <1>4, <3>2, <4>1, OneMore
    <3>4. Exact'
      BY <1>1, <1>2, <1>3, <1>4, <2>2, <2>3, <3>1, <3>2, <3>3
      DEF Exact
    <3>5. QED
      BY <2>2, <3>1, <3>4 DEF GasInv
  <2>6. QED
    BY <2>4, <2>5
<1>7. QED
  BY <1>5, <1>6

LEMMA EmptyBlockIsExact == opened = {} /\ block = Meter!Untouched => GasInv
<1> SUFFICES ASSUME opened = {}, block = Meter!Untouched PROVE GasInv
  OBVIOUS
<1>1. Cardinality({}) = 0 /\ IsFiniteSet({})
  BY FS_EmptySet
<1>2. \A x \in Nat : x * 0 = 0
  OBVIOUS
<1>3. {} \ {} = {} /\ block.cheap = {} /\ block.spent = 0 /\ block.accesses = 0 /\ block.leaves = 0
  BY DEF Meter!Untouched
<1>4. BranchCost \in Nat /\ ChunkCost \in Nat /\ NewLeafCost \in Nat /\ HitCost \in Nat
  BY Costs
<1>5. Exact
  BY <1>1, <1>2, <1>3, <1>4 DEF Exact
<1>6. QED
  BY <1>1, <1>5 DEF GasInv, Meter!Untouched

\* For every cost and every order of marks, reads, writes and blocks, what a block
\* was charged is the branch once per stem, or one discount in its place, and the
\* chunk for every other access (charge_read, charge_write).
THEOREM GasIsExact == SessionSpec => []BlockGasIsExact
<1>1. SessionInit => GasInv
  BY EmptyBlockIsExact DEF SessionInit, Meter!GasInit
<1>2. GasInv /\ [SessionNext]_session => GasInv'
  <2>1. SUFFICES ASSUME GasInv, [SessionNext]_session PROVE GasInv'
    OBVIOUS
  <2>2. MeterStep
    BY <2>1, StepsOfTheMeter
  <2>3. CASE UNCHANGED <<opened, block>>
    BY <2>1, <2>3 DEF GasInv, Exact
  <2>4. CASE Meter!NewBlock
    <3>1. opened' = {} /\ block' = Meter!Untouched
      BY <2>4 DEF Meter!NewBlock
    <3>2. (opened = {} /\ block = Meter!Untouched => GasInv)'
      BY EmptyBlockIsExact, PTL
    <3>3. QED
      BY <3>1, <3>2 DEF Meter!Untouched
  <2>5. QED
    BY <2>1, <2>2, <2>3, <2>4, ChargeIsExact DEF MeterStep, Meter!MarkStemVerified
<1>3. GasInv => BlockGasIsExact
  BY SameCardinality DEF GasInv, Exact, BlockGasIsExact, Meter!BlockGasIsExact
<1>4. QED
  BY <1>1, <1>2, <1>3, PTL DEF SessionSpec

-----------------------------------------------------------------------------
(* The terms of a lens *)

\* What is left of a lens follows from its terms and from what it has granted, and
\* nothing is left of one that is used up, not even the lens.
LensInv ==
  /\ epoch \in Nat /\ granted \in Nat
  /\ terms.ttl \in Nat \ {0} /\ terms.uses \in Nat \cup {None}
  /\ lens \in [stems : SUBSET Stem, created : Nat, expires : Int,
              left : Nat \cup {None}, disposed : BOOLEAN]
  /\ lens.expires = lens.created + terms.ttl - 1
  /\ terms.uses # None =>
       /\ lens.left = IF granted < terms.uses THEN terms.uses - granted ELSE 0
       /\ granted >= terms.uses => lens.disposed
  /\ terms.uses = None => lens.left = None

LensStep ==
  \/ \E stems \in SUBSET Stem, ttl \in Nat \ {0}, uses \in (Nat \ {0}) \cup {None} :
       Lens!Derive(stems, ttl, uses)
  \/ \E uses \in Nat \ {0} : Lens!Consume(uses)
  \/ Lens!Discard
  \/ epoch' \in {epoch, epoch + 1} /\ UNCHANGED <<lens, granted, terms>>

LEMMA StepsOfTheLens ==
  ASSUME [SessionNext]_session
  PROVE  LensStep
<1>1. CASE \E p \in Sent : ReceivePacket(p)
  BY <1>1 DEF LensStep, ReceivePacket
<1>2. CASE \E s \in Stem, newLeaf \in BOOLEAN, lv \in BOOLEAN : Access(s, newLeaf, lv)
  BY <1>2 DEF LensStep, Access, view
<1>3. CASE UseLens
  BY <1>3, SessionAssumption DEF LensStep, UseLens
<1>4. CASE ForgetCache \/ UNCHANGED session
  BY <1>4 DEF LensStep, ForgetCache, session, view
<1>5. CASE \E r \in Root, clear \in BOOLEAN : NextBlock(r, clear)
  BY <1>5 DEF LensStep, NextBlock, Lens!NextEpoch
<1>6. QED
  BY <1>1, <1>2, <1>3, <1>4, <1>5 DEF SessionNext

LEMMA LensStarts == SessionInit => LensInv
<1> SUFFICES ASSUME SessionInit PROVE LensInv
  OBVIOUS
<1>1. epoch = 0 /\ granted = 0 /\ terms = [ttl |-> 1, uses |-> None]
  BY DEF SessionInit, Lens!LensInit
<1>2. /\ lens \in [stems : SUBSET Stem, created : Nat, expires : Int,
                  left : Nat \cup {None}, disposed : BOOLEAN]
      /\ lens.created = 0 /\ lens.expires = 0 /\ lens.left = None
  <2>1. 0 + 1 - 1 = 0
    OBVIOUS
  <2> DEFINE new == [stems |-> {}, created |-> 0, expires |-> 0, left |-> None, disposed |-> FALSE]
  <2>2. lens = [new EXCEPT !.disposed = TRUE]
    BY <1>1, <2>1 DEF SessionInit, Lens!LensInit, Lens!NewLens, Lens!Lens
  <2>3. /\ new \in [stems : SUBSET Stem, created : Nat, expires : Int,
                   left : Nat \cup {None}, disposed : BOOLEAN]
        /\ new.created = 0 /\ new.expires = 0 /\ new.left = None
    OBVIOUS
  <2> HIDE DEF new
  <2>4. QED
    BY <2>2, <2>3
<1>3. QED
  BY <1>1, <1>2 DEF LensInv

LEMMA DeriveKeeps ==
  ASSUME LensInv, NEW stems \in SUBSET Stem, NEW ttl \in Nat \ {0},
         NEW uses \in (Nat \ {0}) \cup {None}, Lens!Derive(stems, ttl, uses)
  PROVE  LensInv'
<1>1. /\ epoch' = epoch /\ epoch \in Nat /\ granted' = 0
      /\ terms'.ttl = ttl /\ terms'.uses = uses
  BY DEF LensInv, Lens!Derive
<1>2. /\ lens' \in [stems : SUBSET Stem, created : Nat, expires : Int,
                   left : Nat \cup {None}, disposed : BOOLEAN]
      /\ lens'.expires = lens'.created + ttl - 1 /\ lens'.left = uses
  BY <1>1 DEF Lens!Derive, Lens!NewLens, Lens!Lens
<1>3. QED
  BY <1>1, <1>2 DEF LensInv

LEMMA ConsumeKeeps ==
  ASSUME LensInv, NEW uses \in Nat \ {0}, Lens!Consume(uses)
  PROVE  LensInv'
<1>1. epoch' = epoch /\ terms' = terms /\ None \notin Int
  BY SessionAssumption DEF Lens!Consume
<1>2. CASE lens.left = None
  BY <1>1, <1>2 DEF LensInv, Lens!Consume
<1>3. CASE lens.left # None
  <2> DEFINE left == IF uses > lens.left THEN 0 ELSE lens.left - uses
  <2>1. /\ lens.left \in Nat \ {0} /\ terms.uses \in Nat /\ granted \in Nat
        /\ lens.left = terms.uses - granted
    BY <1>1, <1>3 DEF LensInv, Lens!Consume, Lens!IsActive
  <2>2. granted' = granted + uses
        /\ lens' = IF left = 0 THEN Lens!Discarded([lens EXCEPT !.left = 0])
                   ELSE [lens EXCEPT !.left = left]
    BY <1>3 DEF Lens!Consume
  <2>3. left = IF granted' < terms.uses THEN terms.uses - granted' ELSE 0
    BY <2>1, <2>2
  <2>4. /\ lens' \in [stems : SUBSET Stem, created : Nat, expires : Int,
                     left : Nat \cup {None}, disposed : BOOLEAN]
        /\ lens'.created = lens.created /\ lens'.expires = lens.expires
        /\ lens'.left = left /\ (left = 0 => lens'.disposed)
    <3>1. lens \in [stems : SUBSET Stem, created : Nat, expires : Int,
                   left : Nat \cup {None}, disposed : BOOLEAN]
          /\ left \in Nat
      BY <2>1 DEF LensInv
    <3>2. CASE left = 0
      <4>1. lens' = [lens EXCEPT !.left = 0, !.stems = {}, !.disposed = TRUE]
        BY <2>2, <3>1, <3>2 DEF Lens!Discarded
      <4>2. QED
        BY <3>1, <3>2, <4>1
    <3>3. CASE left # 0
      BY <2>2, <3>1, <3>3
    <3>4. QED
      BY <3>2, <3>3
  <2>5. QED
    BY <1>1, <2>1, <2>2, <2>3, <2>4 DEF LensInv
<1>4. QED
  BY <1>2, <1>3

\* For every time to live and number of uses: an active lens is within its epochs
\* and its uses, and one that is used up admits nothing ever after (consume,
\* is_active, filter_packets_by_ephemeral_lens).
THEOREM LensIsBounded == SessionSpec => []LensKeepsItsTerms
<1>1. LensInv /\ [SessionNext]_session => LensInv'
  <2>1. SUFFICES ASSUME LensInv, [SessionNext]_session PROVE LensInv'
    OBVIOUS
  <2>2. LensStep
    BY <2>1, StepsOfTheLens
  <2>3. CASE Lens!Discard
    BY <2>1, <2>3 DEF LensInv, Lens!Discard, Lens!Discarded
  <2>4. CASE epoch' \in {epoch, epoch + 1} /\ UNCHANGED <<lens, granted, terms>>
    BY <2>1, <2>4 DEF LensInv
  <2>5. QED
    BY <2>1, <2>2, <2>3, <2>4, DeriveKeeps, ConsumeKeeps DEF LensStep
<1>2. LensInv => LensKeepsItsTerms
  <2>1. SUFFICES ASSUME LensInv PROVE LensKeepsItsTerms
    OBVIOUS
  <2>2. Lens!IsActive => epoch < lens.created + terms.ttl
    BY <2>1 DEF LensInv, Lens!IsActive
  <2>3. ASSUME terms.uses # None, Lens!IsActive
        PROVE  granted < terms.uses /\ lens.left = terms.uses - granted
    BY <2>1, <2>3 DEF LensInv, Lens!IsActive
  <2>4. QED
    BY <2>1, <2>2, <2>3
    DEF LensInv, LensKeepsItsTerms, Lens!LensKeepsItsTerms, Lens!Admits, Lens!IsActive
<1>3. QED
  BY <1>1, <1>2, LensStarts, PTL DEF SessionSpec

-----------------------------------------------------------------------------
(* Keys *)

LEMMA DivMod == ASSUME NEW n \in Nat
                PROVE  /\ n \div 256 \in Nat /\ n % 256 \in 0..255
                       /\ n = 256 * (n \div 256) + (n % 256)
OBVIOUS

LEMMA HeaderKeyIs == ASSUME NEW addr, NEW sub
                     PROVE  HeaderKey(addr, sub) = [stem |-> <<0, <<addr>>>>, sub |-> sub]
BY DEF HeaderKey, Key

LEMMA CodeKeyIs ==
  ASSUME NEW addr, NEW id \in Nat
  PROVE  CodeKey(addr, id) =
           IF id < 16 THEN [stem |-> <<0, <<addr>>>>, sub |-> 4 + id]
           ELSE [stem |-> <<1, <<addr, (id - 16) \div 256>>>>, sub |-> (id - 16) % 256]
BY DEF HeaderKey, Key, CodeKey, HeaderCode, Width

LEMMA SlotKeyIs ==
  ASSUME NEW addr, NEW id \in Nat
  PROVE  SlotKey(addr, id) =
           IF id < 4 THEN [stem |-> <<0, <<addr>>>>, sub |-> 20 + id]
           ELSE [stem |-> <<255, <<addr>>, <<addr, (id - 4) \div 256>>>>, sub |-> (id - 4) % 256]
BY DEF HeaderKey, Key, SlotKey, HeaderSlot, Width

(* Where a part is, and which part is there.  Each conjunct names the only part
   of an account that can have the subindex. *)
InHeader(x, sub) ==
  /\ sub \in 0..255 /\ PageOf(x) = 0
  /\ x.part = "basic" => sub = 0
  /\ x.part = "codehash" => sub = 1
  /\ x.part = "code" => x.id < 16 /\ sub = 4 + x.id
  /\ x.part = "slot" => x.id < 4 /\ sub = 20 + x.id
  /\ x.part = "metadata" => ValidLayout(x.layout) /\ sub = x.layout[x.id] /\ sub > 23

(* And the pages behind it: numbered by first, the first chunk or slot there. *)
OnPage(x, part, first, page, sub) ==
  /\ x.part = part /\ sub \in 0..255 /\ page \in Nat
  /\ PageOf(x) = 1 + page /\ x.id = first + 256 * page + sub

HeaderStem(addr)     == <<0, <<addr>>>>
CodeStem(addr, page) == <<1, <<addr, page>>>>
SlotStem(addr, page) == <<255, <<addr>>, <<addr, page>>>>

LEMMA PartForms ==
  ASSUME NEW x \in Parts
  PROVE  /\ x.addr \in Address
         /\ x.part \in {"basic", "codehash", "code", "slot", "metadata"}
         /\ x.part = "code" => x.id \in Nat
         /\ x.part = "slot" => x.id \in Nat
         /\ x.part = "metadata" => x.id \in 1..4 /\ x.layout \in [1..4 -> Nat]
BY EmbeddingAssumption DEF Parts

(* A part is known by its kind, its account and its number. *)
LEMMA SamePart ==
  ASSUME NEW x \in Parts, NEW y \in Parts, x.part = y.part, x.addr = y.addr,
         x.part \in {"code", "slot", "metadata"} => x.id = y.id,
         x.part = "metadata" => x.layout = y.layout
  PROVE  x = y
<1>1. CASE x.part \in {"basic", "codehash"}
  BY <1>1 DEF Parts
<1>2. CASE x.part = "code"
  <2>1. x \in [kind : {"part"}, part : {"code"}, addr : Address, id : ChunkId]
    BY <1>2 DEF Parts
  <2>2. y \in [kind : {"part"}, part : {"code"}, addr : Address, id : ChunkId]
    BY <1>2 DEF Parts
  <2>3. x = [kind |-> "part", part |-> "code", addr |-> x.addr, id |-> x.id]
    BY <2>1
  <2>4. y = [kind |-> "part", part |-> "code", addr |-> y.addr, id |-> y.id]
    BY <2>2
  <2> QED BY <1>2, <2>3, <2>4
<1>3. CASE x.part = "slot"
  <2>1. x \in [kind : {"part"}, part : {"slot"}, addr : Address, id : SlotId]
    BY <1>3 DEF Parts
  <2>2. y \in [kind : {"part"}, part : {"slot"}, addr : Address, id : SlotId]
    BY <1>3 DEF Parts
  <2>3. x = [kind |-> "part", part |-> "slot", addr |-> x.addr, id |-> x.id]
    BY <2>1
  <2>4. y = [kind |-> "part", part |-> "slot", addr |-> y.addr, id |-> y.id]
    BY <2>2
  <2> QED BY <1>3, <2>3, <2>4
<1>4. CASE x.part = "metadata"
  <2>1. x \in [kind : {"part"}, part : {"metadata"}, addr : Address, id : 1..4, layout : Layouts]
    BY <1>4 DEF Parts
  <2>2. y \in [kind : {"part"}, part : {"metadata"}, addr : Address, id : 1..4, layout : Layouts]
    BY <1>4 DEF Parts
  <2>3. x = [kind |-> "part", part |-> "metadata", addr |-> x.addr, id |-> x.id, layout |-> x.layout]
    BY <2>1
  <2>4. y = [kind |-> "part", part |-> "metadata", addr |-> y.addr, id |-> y.id, layout |-> y.layout]
    BY <2>2
  <2> QED BY <1>4, <2>3, <2>4
<1> QED BY <1>1, <1>2, <1>3, <1>4, PartForms

LEMMA KeyForms ==
  ASSUME NEW x \in Parts, KeyOf(x) # Error
  PROVE  \/ \E sub : KeyOf(x) = [stem |-> HeaderStem(x.addr), sub |-> sub] /\ InHeader(x, sub)
         \/ \E page, sub : /\ KeyOf(x) = [stem |-> CodeStem(x.addr, page), sub |-> sub]
                           /\ OnPage(x, "code", 16, page, sub)
         \/ \E page, sub : /\ KeyOf(x) = [stem |-> SlotStem(x.addr, page), sub |-> sub]
                           /\ OnPage(x, "slot", 4, page, sub)
<1>1. CASE x.part = "basic"
  <2>1. KeyOf(x) = HeaderKey(x.addr, 0)
    BY <1>1, Zenon DEF KeyOf
  <2>2. PageOf(x) = 0
    BY <1>1, Zenon DEF PageOf
  <2>3. InHeader(x, 0)
    BY <1>1, <2>2 DEF InHeader
  <2> QED BY <2>1, <2>3, HeaderKeyIs DEF HeaderStem
<1>2. CASE x.part = "codehash"
  <2>1. KeyOf(x) = HeaderKey(x.addr, 1)
    BY <1>2, Zenon DEF KeyOf
  <2>2. PageOf(x) = 0
    BY <1>2, Zenon DEF PageOf
  <2>3. InHeader(x, 1)
    BY <1>2, <2>2 DEF InHeader
  <2> QED BY <2>1, <2>3, HeaderKeyIs DEF HeaderStem
<1>3. CASE x.part = "code"
  <2>1. KeyOf(x) = CodeKey(x.addr, x.id) /\ PageOf(x) = CodePage(x.id)
    BY <1>3, Zenon DEF KeyOf, PageOf
  <2>2. x.id \in Nat
    BY <1>3, PartForms
  <2>3. CASE x.id < 16
    <3>1. KeyOf(x) = [stem |-> HeaderStem(x.addr), sub |-> 4 + x.id]
      BY <2>1, <2>2, <2>3, CodeKeyIs DEF HeaderStem
    <3>2. PageOf(x) = 0
      BY <2>1, <2>3 DEF CodePage, HeaderCode
    <3>3. InHeader(x, 4 + x.id)
      BY <1>3, <2>2, <2>3, <3>2 DEF InHeader
    <3> QED BY <3>1, <3>3
  <2>4. CASE ~ x.id < 16
    <3> DEFINE page == (x.id - 16) \div 256
               sub  == (x.id - 16) % 256
    <3>1. x.id - 16 \in Nat
      BY <2>2, <2>4
    <3>2. page \in Nat /\ sub \in 0..255 /\ x.id - 16 = 256 * page + sub
      BY <3>1, DivMod
    <3>3. KeyOf(x) = [stem |-> CodeStem(x.addr, page), sub |-> sub]
      BY <2>1, <2>2, <2>4, CodeKeyIs DEF CodeStem
    <3>4. PageOf(x) = 1 + page
      BY <2>1, <2>4 DEF CodePage, HeaderCode, Width
    <3> HIDE DEF page, sub
    <3>5. OnPage(x, "code", 16, page, sub)
      BY <1>3, <2>2, <3>2, <3>4 DEF OnPage
    <3> QED BY <3>3, <3>5
  <2> QED BY <2>3, <2>4
<1>4. CASE x.part = "slot"
  <2>1. KeyOf(x) = SlotKey(x.addr, x.id) /\ PageOf(x) = SlotPage(x.id)
    BY <1>4, Zenon DEF KeyOf, PageOf
  <2>2. x.id \in Nat
    BY <1>4, PartForms
  <2>3. CASE x.id < 4
    <3>1. KeyOf(x) = [stem |-> HeaderStem(x.addr), sub |-> 20 + x.id]
      BY <2>1, <2>2, <2>3, SlotKeyIs DEF HeaderStem
    <3>2. PageOf(x) = 0
      BY <2>1, <2>3 DEF SlotPage, HeaderSlot
    <3>3. InHeader(x, 20 + x.id)
      BY <1>4, <2>2, <2>3, <3>2 DEF InHeader
    <3> QED BY <3>1, <3>3
  <2>4. CASE ~ x.id < 4
    <3> DEFINE page == (x.id - 4) \div 256
               sub  == (x.id - 4) % 256
    <3>1. x.id - 4 \in Nat
      BY <2>2, <2>4
    <3>2. page \in Nat /\ sub \in 0..255 /\ x.id - 4 = 256 * page + sub
      BY <3>1, DivMod
    <3>3. KeyOf(x) = [stem |-> SlotStem(x.addr, page), sub |-> sub]
      BY <2>1, <2>2, <2>4, SlotKeyIs DEF SlotStem
    <3>4. PageOf(x) = 1 + page
      BY <2>1, <2>4 DEF SlotPage, HeaderSlot, Width
    <3> HIDE DEF page, sub
    <3>5. OnPage(x, "slot", 4, page, sub)
      BY <1>4, <2>2, <3>2, <3>4 DEF OnPage
    <3> QED BY <3>3, <3>5
  <2> QED BY <2>3, <2>4
<1>5. CASE x.part = "metadata"
  <2>1. KeyOf(x) = MetadataKey(x.addr, x.layout, x.id)
    BY <1>5, Zenon DEF KeyOf
  <2>2. PageOf(x) = 0
    BY <1>5, Zenon DEF PageOf
  <2>3. x.id \in 1..4 /\ x.layout \in [1..4 -> Nat]
    BY <1>5, PartForms
  <2>4. ValidLayout(x.layout)
    BY <2>1 DEF MetadataKey
  <2>5. KeyOf(x) = [stem |-> HeaderStem(x.addr), sub |-> x.layout[x.id]]
    BY <2>1, <2>4, HeaderKeyIs DEF MetadataKey, HeaderStem
  <2>6. x.layout[x.id] \in (0..255) /\ x.layout[x.id] > 23
    <3>1. Occupied = 0..23 /\ 0..(Width - 1) = 0..255
      BY DEF Occupied, Width, HeaderCode, HeaderSlot
    <3>2. DOMAIN x.layout = 1..4
      BY <2>3
    <3>3. x.layout[x.id] \in (0..255) \ (0..23)
      BY <2>3, <2>4, <3>1, <3>2 DEF ValidLayout
    <3> QED BY <3>3
  <2>7. InHeader(x, x.layout[x.id])
    BY <1>5, <2>2, <2>4, <2>6 DEF InHeader
  <2> QED BY <2>5, <2>7
<1> QED BY <1>1, <1>2, <1>3, <1>4, <1>5, PartForms

LEMMA StemsDiffer ==
  ASSUME NEW x, NEW y, NEW p, NEW q
  PROVE  /\ HeaderStem(x) = HeaderStem(y) <=> x = y
         /\ CodeStem(x, p) = CodeStem(y, q) <=> x = y /\ p = q
         /\ SlotStem(x, p) = SlotStem(y, q) <=> x = y /\ p = q
         /\ HeaderStem(x) # CodeStem(y, q) /\ HeaderStem(x) # SlotStem(y, q)
         /\ CodeStem(x, p) # SlotStem(y, q)
BY DEF HeaderStem, CodeStem, SlotStem

LEMMA NoStemIsAPrefix ==
  ASSUME NEW x, NEW y, NEW p, NEW q,
         NEW s \in {HeaderStem(x), CodeStem(x, p), SlotStem(x, p)},
         NEW t \in {HeaderStem(y), CodeStem(y, q), SlotStem(y, q)}
  PROVE  ~ IsStrictPrefix(s, t)
BY DEF HeaderStem, CodeStem, SlotStem, IsStrictPrefix, IsPrefix

LEMMA TwoParts ==
  ASSUME NEW x \in Parts, NEW y \in Parts, Comparable(x, y), KeyOf(x) # Error, KeyOf(y) # Error
  PROVE  /\ KeyOf(x) # KeyOf(y)
         /\ KeyOf(x).sub \in 0..255
         /\ x.part = y.part /\ x.addr = y.addr =>
              (KeyOf(x).stem = KeyOf(y).stem <=> PageOf(x) = PageOf(y))
         /\ ~ IsStrictPrefix(KeyOf(x).stem, KeyOf(y).stem)
<1> DEFINE k == KeyOf(x)
           l == KeyOf(y)
<1>1. \/ \E sub : k = [stem |-> HeaderStem(x.addr), sub |-> sub] /\ InHeader(x, sub)
      \/ \E page, sub : k = [stem |-> CodeStem(x.addr, page), sub |-> sub] /\ OnPage(x, "code", 16, page, sub)
      \/ \E page, sub : k = [stem |-> SlotStem(x.addr, page), sub |-> sub] /\ OnPage(x, "slot", 4, page, sub)
  BY KeyForms
<1>2. \/ \E sub : l = [stem |-> HeaderStem(y.addr), sub |-> sub] /\ InHeader(y, sub)
      \/ \E page, sub : l = [stem |-> CodeStem(y.addr, page), sub |-> sub] /\ OnPage(y, "code", 16, page, sub)
      \/ \E page, sub : l = [stem |-> SlotStem(y.addr, page), sub |-> sub] /\ OnPage(y, "slot", 4, page, sub)
  BY KeyForms
<1>3. /\ x.part \in {"basic", "codehash", "code", "slot", "metadata"}
      /\ y.part \in {"basic", "codehash", "code", "slot", "metadata"}
      /\ x.part = "code" => x.id \in Nat
      /\ x.part = "slot" => x.id \in Nat
      /\ y.part = "code" => y.id \in Nat
      /\ y.part = "slot" => y.id \in Nat
      /\ x.part = "metadata" => x.id \in 1..4 /\ x.layout \in [1..4 -> Nat]
      /\ y.part = "metadata" => y.id \in 1..4 /\ y.layout \in [1..4 -> Nat]
  BY PartForms
<1>4. x # y /\ (x.part = "metadata" /\ y.part = "metadata" => x.layout = y.layout)
  BY DEF Comparable
<1> HIDE DEF k, l
<1>5. k.sub \in 0..255
  BY <1>1 DEF InHeader, OnPage
<1>6. ~ IsStrictPrefix(k.stem, l.stem)
  <2>1. \E p : k.stem \in {HeaderStem(x.addr), CodeStem(x.addr, p), SlotStem(x.addr, p)}
    BY <1>1
  <2>2. \E q : l.stem \in {HeaderStem(y.addr), CodeStem(y.addr, q), SlotStem(y.addr, q)}
    BY <1>2
  <2> QED BY <2>1, <2>2, NoStemIsAPrefix
<1>7. ASSUME NEW m, NEW n, InHeader(x, m), InHeader(y, n), x.addr = y.addr PROVE m # n
  <2>1. SUFFICES ASSUME m = n PROVE FALSE
    OBVIOUS
  <2>2. x.part = y.part
    BY <1>3, <1>7, <2>1 DEF InHeader
  <2>3. x.part \in {"code", "slot"} => x.id = y.id
    BY <1>3, <1>7, <2>1, <2>2 DEF InHeader
  <2>4. x.part = "metadata" => x.id = y.id
    BY <1>3, <1>4, <1>7, <2>1, <2>2 DEF InHeader, ValidLayout, IsInjective
  <2> QED BY <1>4, <1>7, <2>2, <2>3, <2>4, SamePart
<1>8. ASSUME NEW part \in {"code", "slot"}, NEW first \in {4, 16}, NEW p, NEW q, NEW m, NEW n,
             OnPage(x, part, first, p, m), OnPage(y, part, first, q, n), x.addr = y.addr, p = q
      PROVE  m # n
  <2>1. SUFFICES ASSUME m = n PROVE FALSE
    OBVIOUS
  <2>2. x.part = y.part /\ x.id = y.id /\ x.part # "metadata"
    BY <1>8, <2>1 DEF OnPage
  <2> QED BY <1>4, <1>8, <2>2, SamePart
<1>9. k # l
  <2>1. SUFFICES ASSUME k = l PROVE FALSE
    OBVIOUS
  <2>2. k.stem = l.stem /\ k.sub = l.sub
    BY <2>1
  <2> QED BY <1>1, <1>2, <1>7, <1>8, <2>2, StemsDiffer
<1>10. ASSUME x.part = y.part, x.addr = y.addr PROVE k.stem = l.stem <=> PageOf(x) = PageOf(y)
  <2>1. CASE \E sub : k = [stem |-> HeaderStem(x.addr), sub |-> sub] /\ InHeader(x, sub)
    BY <1>2, <1>10, <2>1, StemsDiffer DEF InHeader, OnPage
  <2>2. CASE \E page, sub : k = [stem |-> CodeStem(x.addr, page), sub |-> sub] /\ OnPage(x, "code", 16, page, sub)
    BY <1>2, <1>10, <2>2, StemsDiffer DEF InHeader, OnPage
  <2>3. CASE \E page, sub : k = [stem |-> SlotStem(x.addr, page), sub |-> sub] /\ OnPage(x, "slot", 4, page, sub)
    BY <1>2, <1>10, <2>3, StemsDiffer DEF InHeader, OnPage
  <2> QED BY <1>1, <2>1, <2>2, <2>3
<1> QED BY <1>5, <1>6, <1>9, <1>10 DEF k, l

\* For all accounts, chunks, slots and layouts: no two parts of accounts share a
\* leaf, and pages are what stems say they are (get_tree_key_for_code_chunk,
\* get_tree_key_for_storage_slot, validate_metadata_layout).
THEOREM PartsDoNotMeet == SetupSpec => []PartsHaveOwnLeaves
<1> DEFINE InputInv == input.kind = "part" => input \in Parts
<1>1. SetupInit => InputInv
  <2>1. SUFFICES ASSUME SetupInit, input.kind = "part" PROVE input \in Parts
    OBVIOUS
  <2>2. input \in {NoInput} \cup Parts \cup Codes \cup Leaves
    BY <2>1 DEF SetupInit, EmbeddingInit
  <2>3. input # NoInput /\ input \notin Codes /\ input \notin Leaves
    BY <2>1 DEF NoInput, Codes, Leaves
  <2>4. QED
    BY <2>2, <2>3
<1>2. InputInv /\ [SetupNext]_<<session, input, received>> => InputInv'
  BY DEF SetupNext
<1>3. InputInv => PartsHaveOwnLeaves
  <2>1. SUFFICES ASSUME input \in Parts, NEW y \in Parts, Comparable(input, y),
                        KeyOf(input) # Error, KeyOf(y) # Error
                 PROVE  /\ KeyOf(input) # KeyOf(y)
                        /\ KeyOf(input).sub \in 0..(Width - 1)
                        /\ input.part = y.part /\ input.addr = y.addr =>
                             (KeyOf(input).stem = KeyOf(y).stem <=> PageOf(input) = PageOf(y))
                        /\ ~ IsStrictPrefix(KeyOf(input).stem, KeyOf(y).stem)
    BY DEF PartsHaveOwnLeaves
  <2>2. 0..(Width - 1) = 0..255
    BY DEF Width
  <2>3. QED
    BY <2>1, <2>2, TwoParts
<1>4. QED
  BY <1>1, <1>2, <1>3, PTL DEF SetupSpec

-----------------------------------------------------------------------------
(* Induction over the naturals, stated with a set instead of a predicate *)

LessThan == {r \in Nat \X Nat : r[1] < r[2]}

LEMMA InductionUp ==
  ASSUME NEW S, 0 \in S, \A n \in Nat : n \in S => n + 1 \in S
  PROVE  Nat \subseteq S
<1> DEFINE T == Nat \ S
<1>1. SUFFICES ASSUME T # {} PROVE FALSE
  OBVIOUS
<1>2. LessThan = OpToRel(<, Nat)
  BY DEF LessThan, OpToRel
<1>3. PICK n \in T : \A m \in T : <<m, n>> \notin LessThan
  BY <1>1, <1>2, NatLessThanWellFounded, WFMin
<1>4. n \in Nat /\ n # 0 /\ n - 1 \in Nat /\ (n - 1) + 1 = n
  BY <1>3
<1>5. n - 1 \in T
  BY <1>3, <1>4
<1>6. <<n - 1, n>> \in LessThan
  BY <1>4 DEF LessThan
<1>7. QED
  BY <1>3, <1>5, <1>6

-----------------------------------------------------------------------------
(* chunk_code, byte by byte: the recursive function exists *)

LeftOver(f, x) ==
  IF x[2] = 0 THEN 0 ELSE AfterByte(f[<<x[1], x[2] - 1>>], x[1][x[2]])

\* A function that counts over the first n bytes of every code.
Counts(f, n) == f = [x \in Seq(Byte) \X (0..n) |-> LeftOver(f, x)]

LEMMA CountsExtend ==
  ASSUME NEW n \in Nat, NEW f, Counts(f, n)
  PROVE  \E g : Counts(g, n + 1)
<1> DEFINE g == [x \in Seq(Byte) \X (0..(n + 1)) |-> LeftOver(f, x)]
<1>1. \A x \in Seq(Byte) \X (0..n) : g[x] = f[x]
  <2>1. \A x \in Seq(Byte) \X (0..n) : x \in Seq(Byte) \X (0..(n + 1))
    OBVIOUS
  <2>2. \A x \in Seq(Byte) \X (0..n) : g[x] = LeftOver(f, x)
    BY <2>1
  <2> HIDE DEF g
  <2>3. QED
    BY <2>2 DEF Counts
<1>2. ASSUME NEW x \in Seq(Byte) \X (0..(n + 1))
      PROVE  LeftOver(f, x) = LeftOver(g, x)
  <2>1. CASE x[2] = 0
    <3> HIDE DEF g
    <3> QED
      BY <2>1 DEF LeftOver
  <2>2. CASE x[2] # 0
    <3>1. <<x[1], x[2] - 1>> \in Seq(Byte) \X (0..n)
      BY <2>2
    <3>2. g[<<x[1], x[2] - 1>>] = f[<<x[1], x[2] - 1>>]
      BY <3>1, <1>1
    <3> HIDE DEF g
    <3>3. QED
      BY <2>2, <3>2 DEF LeftOver
  <2>3. QED
    BY <2>1, <2>2
<1>3. g = [x \in Seq(Byte) \X (0..(n + 1)) |-> LeftOver(g, x)]
  BY <1>2
<1> HIDE DEF g
<1>4. QED
  BY <1>3 DEF Counts

LEMMA CountsExist == \A n \in Nat : \E f : Counts(f, n)
<1> DEFINE S == {n \in Nat : \E f : Counts(f, n)}
<1>1. 0 \in S
  <2> DEFINE f == [x \in Seq(Byte) \X (0..0) |-> 0]
  <2>1. ASSUME NEW x \in Seq(Byte) \X (0..0) PROVE f[x] = LeftOver(f, x)
    <3>1. x[2] = 0 /\ f[x] = 0
      OBVIOUS
    <3> HIDE DEF f
    <3>2. QED
      BY <3>1 DEF LeftOver
  <2>2. f = [x \in Seq(Byte) \X (0..0) |-> LeftOver(f, x)]
    BY <2>1
  <2> HIDE DEF f
  <2>3. QED
    BY <2>2 DEF Counts
<1>2. ASSUME NEW n \in Nat, n \in S PROVE n + 1 \in S
  BY <1>2, CountsExtend
<1>3. Nat \subseteq S
  <2> HIDE DEF S
  <2> QED
    BY <1>1, <1>2, InductionUp
<1>4. QED
  BY <1>3

\* Two such functions agree where both are defined.
LEMMA CountsAgree ==
  ASSUME NEW s \in Seq(Byte), NEW m \in Nat, NEW n \in Nat, NEW f, NEW g, Counts(f, m), Counts(g, n)
  PROVE  \A k \in Nat : k <= m /\ k <= n => f[<<s, k>>] = g[<<s, k>>]
<1> DEFINE S == {k \in Nat : k <= m /\ k <= n => f[<<s, k>>] = g[<<s, k>>]}
<1>1. ASSUME NEW k \in Nat, k <= m, k <= n
      PROVE  /\ f[<<s, k>>] = LeftOver(f, <<s, k>>)
             /\ g[<<s, k>>] = LeftOver(g, <<s, k>>)
  <2>1. <<s, k>> \in Seq(Byte) \X (0..m) /\ <<s, k>> \in Seq(Byte) \X (0..n)
    BY <1>1
  <2>2. QED
    BY <2>1 DEF Counts
<1>2. 0 \in S
  <2>1. f[<<s, 0>>] = LeftOver(f, <<s, 0>>) /\ g[<<s, 0>>] = LeftOver(g, <<s, 0>>)
    BY <1>1
  <2>2. QED
    BY <2>1 DEF LeftOver
<1>3. ASSUME NEW k \in Nat, k \in S PROVE k + 1 \in S
  <2>1. SUFFICES ASSUME k + 1 <= m, k + 1 <= n PROVE f[<<s, k + 1>>] = g[<<s, k + 1>>]
    OBVIOUS
  <2>2. f[<<s, k>>] = g[<<s, k>>] /\ k + 1 # 0 /\ (k + 1) - 1 = k
    BY <1>3, <2>1
  <2>3. f[<<s, k + 1>>] = LeftOver(f, <<s, k + 1>>) /\ g[<<s, k + 1>>] = LeftOver(g, <<s, k + 1>>)
    BY <1>1, <2>1
  <2>4. QED
    BY <2>2, <2>3 DEF LeftOver
<1>4. Nat \subseteq S
  <2> HIDE DEF S
  <2> QED
    BY <1>2, <1>3, InductionUp
<1>5. QED
  BY <1>4

LEMMA RemainingEquation ==
  ASSUME NEW s \in Seq(Byte), NEW n \in Nat
  PROVE  Remaining[<<s, n>>] =
           IF n = 0 THEN 0 ELSE AfterByte(Remaining[<<s, n - 1>>], s[n])
<1> DEFINE to(m) == CHOOSE f : Counts(f, m)
           all   == [x \in Seq(Byte) \X Nat |-> to(x[2])[x]]
<1>1. \A m \in Nat : Counts(to(m), m)
  BY CountsExist
<1>2. ASSUME NEW x \in Seq(Byte) \X Nat PROVE all[x] = LeftOver(all, x)
  <2>1. PICK c \in Seq(Byte), m \in Nat : x = <<c, m>>
    OBVIOUS
  <2>2. all[x] = to(m)[<<c, m>>]
    BY <2>1
  <2>3. to(m)[<<c, m>>] = LeftOver(to(m), <<c, m>>)
    <3> HIDE DEF to
    <3>1. <<c, m>> \in Seq(Byte) \X (0..m)
      OBVIOUS
    <3>2. QED
      BY <1>1, <3>1 DEF Counts
  <2>4. CASE m = 0
    <3> HIDE DEF all, to
    <3> QED
      BY <2>1, <2>2, <2>3, <2>4 DEF LeftOver
  <2>5. CASE m # 0
    <3>1. m - 1 \in Nat /\ m - 1 <= m /\ m - 1 <= m - 1
      BY <2>5
    <3>2. all[<<c, m - 1>>] = to(m - 1)[<<c, m - 1>>]
      BY <3>1
    <3> HIDE DEF all, to
    <3>3. to(m)[<<c, m - 1>>] = to(m - 1)[<<c, m - 1>>]
      BY <1>1, <3>1, CountsAgree
    <3>4. QED
      BY <2>1, <2>2, <2>3, <2>5, <3>2, <3>3 DEF LeftOver
  <2>6. QED
    BY <2>4, <2>5
<1>3. all = [x \in Seq(Byte) \X Nat |-> LeftOver(all, x)]
  BY <1>2
<1> HIDE DEF all, to
<1>4. Remaining = CHOOSE f : f = [x \in Seq(Byte) \X Nat |-> LeftOver(f, x)]
  BY DEF Remaining, LeftOver
<1>5. Remaining = [x \in Seq(Byte) \X Nat |-> LeftOver(Remaining, x)]
  BY <1>3, <1>4
<1>6. <<s, n>> \in Seq(Byte) \X Nat
  OBVIOUS
<1>7. Remaining[<<s, n>>] = LeftOver(Remaining, <<s, n>>)
  BY <1>5, <1>6
<1>8. QED
  BY <1>7 DEF LeftOver

-----------------------------------------------------------------------------
(* The chunks of a code *)

Left(code, n) == Remaining[<<code, n>>]

LEMMA LeftEquation ==
  ASSUME NEW code \in Seq(Byte), NEW n \in Nat
  PROVE  /\ Left(code, 0) = 0
         /\ Left(code, n + 1) = IF Left(code, n) > 0 THEN Left(code, n) - 1 ELSE code[n + 1]
<1>1. Left(code, 0) = 0
  BY RemainingEquation DEF Left
<1>2. PICK m \in Nat : m = n + 1
  OBVIOUS
<1>3. Left(code, m) = IF m = 0 THEN 0 ELSE AfterByte(Left(code, m - 1), code[m])
  BY RemainingEquation DEF Left
<1>4. m # 0 /\ m - 1 = n
  BY <1>2
<1>5. QED
  BY <1>1, <1>2, <1>3, <1>4 DEF AfterByte

LEMMA LeftIsNatural ==
  ASSUME NEW code \in Seq(Byte), NEW n \in Nat, n <= Len(code)
  PROVE  Left(code, n) \in Nat
<1> DEFINE S == {k \in Nat : k <= Len(code) => Left(code, k) \in Nat}
<1>1. 0 \in S
  <2>1. Left(code, 0) = 0 /\ 0 \in Nat
    BY LeftEquation
  <2>2. QED
    BY <2>1
<1>2. ASSUME NEW k \in Nat, k \in S PROVE k + 1 \in S
  <2>1. SUFFICES ASSUME k + 1 <= Len(code) PROVE Left(code, k + 1) \in Nat
    OBVIOUS
  <2>2. Len(code) \in Nat
    BY LenProperties
  <2>3. Left(code, k) \in Nat /\ k + 1 \in 1..Len(code)
    BY <1>2, <2>1, <2>2
  <2>4. code[k + 1] \in Nat
    BY <2>3, ElementOfSeq, EmbeddingAssumption DEF Byte
  <2>5. Left(code, k + 1) = IF Left(code, k) > 0 THEN Left(code, k) - 1 ELSE code[k + 1]
    BY LeftEquation
  <2>6. QED
    BY <2>3, <2>4, <2>5
<1>3. Nat \subseteq S
  <2> HIDE DEF S
  <2> QED
    BY <1>1, <1>2, InductionUp
<1>4. QED
  BY <1>3

\* The operands, as chunk_code counts them
Counted(code) == {n \in 1..Len(code) : Left(code, n - 1) > 0}

\* What a PUSH that is no operand takes of the bytes behind it
Reaches(code, m, n) == m \notin Counted(code) /\ code[m] >= n - m

\* What is left after n bytes is what some PUSH takes of the bytes behind them, and
\* no PUSH takes more.
LeftIsReach(code, n) ==
  /\ Left(code, n) > 0 => \E m \in 1..n : m \notin Counted(code) /\ code[m] = Left(code, n) + n - m
  /\ \A m \in 1..n : m \notin Counted(code) => code[m] <= Left(code, n) + n - m

LEMMA LeftReaches ==
  ASSUME NEW code \in Seq(Byte), NEW n \in Nat, n <= Len(code)
  PROVE  LeftIsReach(code, n)
<1> DEFINE S == {k \in Nat : k <= Len(code) => LeftIsReach(code, k)}
<1>1. 0 \in S
  BY LeftEquation DEF LeftIsReach
<1>2. ASSUME NEW k \in Nat, k \in S PROVE k + 1 \in S
  <2>1. SUFFICES ASSUME k + 1 <= Len(code) PROVE LeftIsReach(code, k + 1)
    OBVIOUS
  <2>2. Len(code) \in Nat
    BY LenProperties
  <2>3. PICK j \in Nat : j = k + 1
    OBVIOUS
  <2>4. LeftIsReach(code, k) /\ j \in 1..Len(code) /\ j - 1 = k
    BY <1>2, <2>1, <2>2, <2>3
  <2>5. \A m \in 1..Len(code) : code[m] \in Nat
    BY ElementOfSeq, EmbeddingAssumption DEF Byte
  <2>6. Left(code, k) \in Nat /\ Left(code, j) \in Nat
    BY <2>1, <2>2, <2>3, LeftIsNatural
  <2>7. Left(code, j) = IF Left(code, k) > 0 THEN Left(code, k) - 1 ELSE code[j]
    BY <2>3, LeftEquation
  <2>8. j \in Counted(code) <=> Left(code, k) > 0
    BY <2>4 DEF Counted
  <2> DEFINE l == Left(code, k)
             r == Left(code, j)
  <2>9. /\ l \in Nat /\ r \in Nat
        /\ r = IF l > 0 THEN l - 1 ELSE code[j]
        /\ j \in Counted(code) <=> l > 0
        /\ l > 0 => \E m \in 1..k : m \notin Counted(code) /\ code[m] = l + k - m
        /\ \A m \in 1..k : m \notin Counted(code) => code[m] <= l + k - m
    BY <2>4, <2>6, <2>7, <2>8 DEF LeftIsReach
  <2> HIDE DEF l, r
  <2>10. ASSUME r > 0
         PROVE  \E m \in 1..j : m \notin Counted(code) /\ code[m] = r + j - m
    <3>1. CASE l > 0
      <4>1. PICK m \in 1..k : m \notin Counted(code) /\ code[m] = l + k - m
        BY <2>9, <3>1
      <4>2. m \in 1..j /\ r + j - m = l + k - m
        BY <2>3, <2>9, <3>1
      <4>3. QED
        BY <4>1, <4>2
    <3>2. CASE ~ l > 0
      <4>1. j \in 1..j /\ j \notin Counted(code) /\ r = code[j] /\ r + j - j = r
        BY <2>4, <2>9, <3>2
      <4>2. QED
        BY <4>1
    <3>3. QED
      BY <3>1, <3>2
  <2>11. ASSUME NEW m \in 1..j, m \notin Counted(code)
         PROVE  code[m] <= r + j - m
    <3>1. code[m] \in Nat
      BY <2>4, <2>5
    <3>2. CASE m = j
      BY <2>9, <2>11, <3>1, <3>2
    <3>3. CASE m # j
      <4>1. m \in 1..k /\ code[m] <= l + k - m
        BY <2>3, <2>9, <2>11, <3>3
      <4>2. l + k <= r + j
        <5>1. CASE l > 0
          BY <2>3, <2>9, <5>1
        <5>2. CASE ~ l > 0
          BY <2>3, <2>9, <5>2
        <5>3. QED
          BY <5>1, <5>2
      <4>3. QED
        BY <2>3, <2>9, <3>1, <4>1, <4>2
    <3>4. QED
      BY <3>2, <3>3
  <2>12. QED
    BY <2>3, <2>10, <2>11 DEF LeftIsReach, r
<1>3. Nat \subseteq S
  <2> HIDE DEF S
  <2> QED
    BY <1>1, <1>2, InductionUp
<1>4. QED
  BY <1>3

\* So the bytes chunk_code counts are those that a PUSH before them reaches,
LEMMA CountedIsReached ==
  ASSUME NEW code \in Seq(Byte), NEW n \in 1..Len(code)
  PROVE  n \in Counted(code) <=> \E m \in 1..(n - 1) : Reaches(code, m, n)
<1>1. Len(code) \in Nat /\ n - 1 \in Nat /\ n - 1 <= Len(code)
  BY LenProperties
<1>2. \A m \in 1..(n - 1) : code[m] \in Nat
  BY <1>1, ElementOfSeq, EmbeddingAssumption DEF Byte
<1>3. Left(code, n - 1) \in Nat /\ LeftIsReach(code, n - 1)
  BY <1>1, LeftIsNatural, LeftReaches
<1> DEFINE l == Left(code, n - 1)
<1>4. /\ l \in Nat
      /\ n \in Counted(code) <=> l > 0
      /\ l > 0 => \E m \in 1..(n - 1) : m \notin Counted(code) /\ code[m] = l + (n - 1) - m
      /\ \A m \in 1..(n - 1) : m \notin Counted(code) => code[m] <= l + (n - 1) - m
  BY <1>3 DEF LeftIsReach, Counted
<1> HIDE DEF l
<1>5. QED
  BY <1>1, <1>2, <1>4 DEF Reaches

\* and no other set of bytes is reached like this.
LEMMA OperandsAreCounted ==
  ASSUME NEW code \in Seq(Byte)
  PROVE  OperandsOf(code) = Counted(code)
<1> DEFINE Good(o) == \A n \in DOMAIN code :
                        n \in o <=> \E m \in 1..(n - 1) : m \notin o /\ code[m] >= n - m
           o == OperandsOf(code)
<1>1. DOMAIN code = 1..Len(code) /\ Len(code) \in Nat
  BY LenProperties
<1>2. Counted(code) \in SUBSET DOMAIN code /\ Good(Counted(code))
  <2>1. Counted(code) \subseteq 1..Len(code)
    BY DEF Counted
  <2>2. ASSUME NEW n \in DOMAIN code
        PROVE  n \in Counted(code) <=> \E m \in 1..(n - 1) : m \notin Counted(code) /\ code[m] >= n - m
    BY <1>1, CountedIsReached DEF Reaches
  <2>3. QED
    BY <1>1, <2>1, <2>2
<1>3. o \in SUBSET DOMAIN code /\ Good(o)
  <2>1. o = CHOOSE x \in SUBSET DOMAIN code : Good(x)
    BY DEF OperandsOf
  <2> HIDE DEF Good, o
  <2>2. QED
    BY <1>2, <2>1
<1> HIDE DEF o
<1> DEFINE S == {k \in Nat : \A n \in 1..k : n <= Len(code) => (n \in o <=> n \in Counted(code))}
<1>4. 0 \in S
  OBVIOUS
<1>5. ASSUME NEW k \in Nat, k \in S PROVE k + 1 \in S
  <2>1. PICK j \in Nat : j = k + 1
    OBVIOUS
  <2>2. SUFFICES ASSUME j <= Len(code) PROVE j \in o <=> j \in Counted(code)
    BY <1>5, <2>1
  <2>3. j \in DOMAIN code /\ j - 1 = k /\ \A m \in 1..k : m <= Len(code)
    BY <1>1, <2>1, <2>2
  <2>4. j \in o <=> \E m \in 1..k : m \notin o /\ code[m] >= j - m
    BY <1>3, <2>3
  <2>5. j \in Counted(code) <=> \E m \in 1..k : m \notin Counted(code) /\ code[m] >= j - m
    BY <1>2, <2>3
  <2>6. \A m \in 1..k : m \in o <=> m \in Counted(code)
    BY <1>5, <2>3
  <2>7. QED
    BY <2>4, <2>5, <2>6
<1>6. Nat \subseteq S
  <2> HIDE DEF S
  <2> QED
    BY <1>4, <1>5, InductionUp
<1>7. \A n \in 1..Len(code) : n \in o <=> n \in Counted(code)
  <2>1. Len(code) \in S
    BY <1>1, <1>6
  <2>2. QED
    BY <1>1, <2>1
<1>8. QED
  BY <1>1, <1>2, <1>3, <1>7 DEF o

\* While operand bytes are left, each byte takes one.
LEMMA LeftRunsDown ==
  ASSUME NEW code \in Seq(Byte), NEW f \in Nat, f <= Len(code), NEW j \in Nat,
         j <= Left(code, f), f + j <= Len(code)
  PROVE  Left(code, f + j) = Left(code, f) - j
<1> DEFINE l == Left(code, f)
           S == {k \in Nat : k <= l /\ f + k <= Len(code) => Left(code, f + k) = l - k}
<1>1. l \in Nat /\ Len(code) \in Nat
  BY LeftIsNatural, LenProperties
<1>2. 0 \in S
  <2>1. f + 0 = f /\ l - 0 = l
    BY <1>1
  <2>2. Left(code, f + 0) = l - 0
    BY <2>1
  <2> HIDE DEF l
  <2>3. QED
    BY <2>2
<1>3. ASSUME NEW k \in Nat, k \in S PROVE k + 1 \in S
  <2>1. SUFFICES ASSUME k + 1 <= l, f + (k + 1) <= Len(code)
                 PROVE  Left(code, f + (k + 1)) = l - (k + 1)
    OBVIOUS
  <2>2. PICK g \in Nat : g = f + k
    OBVIOUS
  <2>3. Left(code, g + 1) = IF Left(code, g) > 0 THEN Left(code, g) - 1 ELSE code[g + 1]
    BY LeftEquation
  <2>4. g + 1 = f + (k + 1)
    BY <2>2
  <2>5. Left(code, g) = l - k
    <3> HIDE DEF l
    <3> QED
      BY <1>1, <1>3, <2>1, <2>2
  <2> HIDE DEF l
  <2>6. l - k > 0 /\ (l - k) - 1 = l - (k + 1)
    BY <1>1, <2>1
  <2>7. Left(code, g + 1) = l - (k + 1)
    BY <2>3, <2>5, <2>6
  <2>8. QED
    BY <2>4, <2>7
<1>4. Nat \subseteq S
  <2> HIDE DEF S
  <2> QED
    BY <1>2, <1>3, InductionUp
<1>5. j \in S
  BY <1>4
<1>6. QED
  BY <1>5

\* From a byte that is no operand on, the rest of a code is counted like a code.
LEMMA LeftStartsAnew ==
  ASSUME NEW code \in Seq(Byte), NEW local \in Seq(Byte), NEW o \in Nat, Left(code, o) = 0,
         NEW len \in Nat, \A j \in 1..len : local[j] = code[o + j],
         NEW j \in Nat, j <= len
  PROVE  Left(local, j) = Left(code, o + j)
<1> DEFINE S == {k \in Nat : k <= len => Left(local, k) = Left(code, o + k)}
<1>1. 0 \in S
  <2>1. Left(local, 0) = 0 /\ o + 0 = o
    BY LeftEquation
  <2>2. Left(code, o + 0) = 0
    BY <2>1
  <2>3. QED
    BY <2>1, <2>2
<1>2. ASSUME NEW k \in Nat, k \in S PROVE k + 1 \in S
  <2>1. SUFFICES ASSUME k + 1 <= len PROVE Left(local, k + 1) = Left(code, o + (k + 1))
    OBVIOUS
  <2>2. PICK g \in Nat : g = o + k
    OBVIOUS
  <2>3. Left(code, g + 1) = IF Left(code, g) > 0 THEN Left(code, g) - 1 ELSE code[g + 1]
    BY LeftEquation
  <2>4. Left(local, k + 1) = IF Left(local, k) > 0 THEN Left(local, k) - 1 ELSE local[k + 1]
    BY LeftEquation
  <2>5. g + 1 = o + (k + 1) /\ k + 1 \in 1..len
    BY <2>1, <2>2
  <2>6. Left(local, k) = Left(code, g) /\ local[k + 1] = code[g + 1]
    BY <1>2, <2>1, <2>2, <2>5
  <2>7. Left(local, k + 1) = Left(code, g + 1)
    BY <2>3, <2>4, <2>6
  <2>8. QED
    BY <2>5, <2>7
<1>3. Nat \subseteq S
  <2> HIDE DEF S
  <2> QED
    BY <1>1, <1>2, InductionUp
<1>4. QED
  BY <1>3

LEMMA MinOfTwo == ASSUME NEW x \in Nat, NEW y \in Nat
                  PROVE  Min({x, y}) = IF x <= y THEN x ELSE y
<1> DEFINE m == IF x <= y THEN x ELSE y
<1>1. \A n \in {x, y} : (\A k \in {x, y} : n <= k) <=> n = m
  OBVIOUS
<1>2. m \in {x, y}
  OBVIOUS
<1> HIDE DEF m
<1>3. Min({x, y}) = CHOOSE n \in {x, y} : \A k \in {x, y} : n <= k
  BY DEF Min
<1>4. (CHOOSE n \in {x, y} : \A k \in {x, y} : n <= k) = m
  BY <1>1, <1>2
<1>5. QED
  BY <1>3, <1>4 DEF m

\* The bytes of a chunk, and how many of them are skipped
Raw(code, f)  == SubSeq(code, f + 1, Min({f + ChunkSize, Len(code)}))
Skip(code, f) == Min({Remaining[<<code, f>>], Len(Raw(code, f))})

\* A slice is the code from there on, and zeros behind its end.
LEMMA SliceIs ==
  ASSUME NEW code \in Seq(Byte), NEW f \in Nat, f < Len(code)
  PROVE  LET raw == Raw(code, f)
         IN  /\ Len(raw) = IF f + ChunkSize <= Len(code) THEN ChunkSize ELSE Len(code) - f
             /\ Padded(raw) \in Seq(Byte) /\ Len(Padded(raw)) = ChunkSize
             /\ \A n \in 1..Len(raw) : Padded(raw)[n] = code[f + n]
<1> DEFINE raw == Raw(code, f)
           to == Min({f + ChunkSize, Len(code)})
<1>1. Len(code) \in Nat /\ ChunkSize \in Nat /\ ChunkSize > 0 /\ f + ChunkSize \in Nat
  BY LenProperties, EmbeddingAssumption
<1>2. to = IF f + ChunkSize <= Len(code) THEN f + ChunkSize ELSE Len(code)
  BY <1>1, MinOfTwo
<1> HIDE DEF to, raw
<1>3. to \in Nat /\ f + 1 <= to /\ to <= Len(code) /\ to - f <= ChunkSize
  BY <1>1, <1>2
<1>4. \A n \in (f + 1)..to : code[n] \in Byte
  <2>1. \A n \in (f + 1)..to : n \in 1..Len(code)
    BY <1>1, <1>3
  <2>2. QED
    BY <2>1, ElementOfSeq
<1>5. /\ raw \in Seq(Byte) /\ Len(raw) = to - f
      /\ \A n \in 1..(to - f) : raw[n] = code[f + n]
  <2>1. raw = SubSeq(code, f + 1, to)
    BY DEF to, raw, Raw
  <2>2. /\ raw \in Seq(Byte)
        /\ Len(raw) = IF f + 1 <= to THEN to - (f + 1) + 1 ELSE 0
        /\ \A n \in 1..(to - (f + 1) + 1) : raw[n] = code[(f + 1) + n - 1]
    <3>1. f + 1 \in Int /\ to \in Int
      BY <1>3
    <3>2. QED
      BY <1>4, <2>1, <3>1, SubSeqProperties
  <2>3. to - (f + 1) + 1 = to - f /\ \A n \in 1..(to - f) : (f + 1) + n - 1 = f + n
    BY <1>3
  <2>4. QED
    BY <1>3, <2>2, <2>3
<1> DEFINE zeros == [n \in 1..(ChunkSize - Len(raw)) |-> 0]
<1>6. zeros \in Seq(Byte) /\ Len(zeros) = ChunkSize - Len(raw)
  <2>1. PICK m \in Nat : m = ChunkSize - Len(raw)
    BY <1>1, <1>3, <1>5
  <2>2. 0 \in Byte
    BY EmbeddingAssumption DEF Byte
  <2>3. QED
    BY <2>1, <2>2
<1>7. Padded(raw) = raw \o zeros
  BY DEF Padded
<1> HIDE DEF zeros
<1>8. /\ Padded(raw) \in Seq(Byte) /\ Len(Padded(raw)) = Len(raw) + Len(zeros)
      /\ \A n \in 1..(Len(raw) + Len(zeros)) :
           Padded(raw)[n] = IF n <= Len(raw) THEN raw[n] ELSE zeros[n - Len(raw)]
  <2>1. raw \in Seq(Byte) /\ zeros \in Seq(Byte)
    BY <1>5, <1>6
  <2>2. QED
    BY <1>7, <2>1, ConcatProperties
<1>9. Len(raw) + Len(zeros) = ChunkSize /\ Len(raw) <= ChunkSize /\ Len(raw) \in Nat
  BY <1>1, <1>3, <1>5, <1>6
<1>10. Len(raw) = IF f + ChunkSize <= Len(code) THEN ChunkSize ELSE Len(code) - f
  BY <1>1, <1>2, <1>5
<1>11. \A n \in 1..Len(raw) : Padded(raw)[n] = code[f + n]
  <2>1. \A n \in 1..Len(raw) : n \in 1..ChunkSize /\ n <= Len(raw) /\ n \in 1..(to - f)
    BY <1>1, <1>5, <1>9
  <2>2. QED
    BY <1>5, <1>8, <1>9, <2>1
<1>12. QED
  BY <1>8, <1>9, <1>10, <1>11 DEF raw

\* A chunk with its operands, wherever it begins
LEMMA ChunkReads ==
  ASSUME NEW code \in Seq(Byte), NEW f \in Nat, NEW n \in 1..ChunkSize, f + n <= Len(code)
  PROVE  f + n \in OperandsOf(code) <=>
           n <= Skip(code, f) \/
           n - Skip(code, f) \in
             OperandsOf(SubSeq(Padded(Raw(code, f)), Skip(code, f) + 1, ChunkSize))
<1> DEFINE raw   == Raw(code, f)
           skip  == Skip(code, f)
           slice == Padded(raw)
           local == SubSeq(slice, skip + 1, ChunkSize)
           l     == Left(code, f)
<1>1. Len(code) \in Nat /\ ChunkSize \in Nat /\ ChunkSize > 0 /\ f < Len(code) /\ n \in Nat /\ n > 0
  BY LenProperties, EmbeddingAssumption
<1>2. /\ Len(raw) = IF f + ChunkSize <= Len(code) THEN ChunkSize ELSE Len(code) - f
      /\ slice \in Seq(Byte) /\ Len(slice) = ChunkSize
      /\ \A m \in 1..Len(raw) : slice[m] = code[f + m]
  BY <1>1, SliceIs
<1>3. Len(raw) \in Nat /\ n <= Len(raw) /\ Len(raw) <= ChunkSize /\ f + Len(raw) <= Len(code)
  BY <1>1, <1>2
<1>4. l \in Nat
  BY <1>1, LeftIsNatural
<1>5. skip = IF l <= Len(raw) THEN l ELSE Len(raw)
  BY <1>3, <1>4, MinOfTwo DEF Left, Skip
<1> HIDE DEF l, slice, skip, raw
<1>6. skip \in Nat /\ skip <= l /\ skip <= Len(raw)
  BY <1>3, <1>4, <1>5
<1>7. f + n \in OperandsOf(code) <=> Left(code, f + (n - 1)) > 0
  <2>1. f + n \in 1..Len(code) /\ (f + n) - 1 = f + (n - 1)
    BY <1>1
  <2>2. QED
    BY <2>1, OperandsAreCounted DEF Counted
<1>8. CASE n <= skip
  <2>1. n - 1 \in Nat /\ n - 1 < l /\ f + (n - 1) <= Len(code) /\ f <= Len(code)
    BY <1>1, <1>4, <1>6, <1>8
  <2>2. Left(code, f + (n - 1)) = l - (n - 1)
    <3>1. PICK k \in Nat : k = n - 1
      BY <2>1
    <3>2. k <= Left(code, f) /\ f + k <= Len(code) /\ f <= Len(code)
      BY <1>4, <2>1, <3>1 DEF l
    <3>3. Left(code, f + k) = Left(code, f) - k
      BY <3>2, LeftRunsDown
    <3>4. QED
      BY <3>1, <3>3 DEF l
  <2>3. l - (n - 1) > 0
    BY <1>1, <1>4, <2>1
  <2>4. QED
    BY <1>7, <1>8, <2>2, <2>3 DEF skip
<1>9. CASE ~ n <= skip
  <2>1. skip = l /\ skip < n /\ f + skip <= Len(code)
    BY <1>1, <1>3, <1>4, <1>5, <1>6, <1>9
  <2>2. Left(code, f + skip) = 0
    <3>1. Left(code, f + skip) = l - skip
      BY <1>1, <1>6, <2>1, LeftRunsDown DEF l
    <3>2. QED
      BY <1>4, <2>1, <3>1
  <2>3. /\ local \in Seq(Byte) /\ Len(local) = ChunkSize - skip
        /\ \A m \in 1..(ChunkSize - skip) : local[m] = slice[skip + m]
    <3>1. skip + 1 \in Int /\ ChunkSize \in Int /\ skip + 1 <= ChunkSize
      BY <1>1, <1>3, <1>6, <2>1
    <3>2. \A m \in (skip + 1)..ChunkSize : slice[m] \in Byte
      <4>1. \A m \in (skip + 1)..ChunkSize : m \in 1..ChunkSize
        BY <1>1, <1>6
      <4>2. QED
        BY <1>2, <4>1, ElementOfSeq
    <3>3. /\ local \in Seq(Byte)
          /\ Len(local) = IF skip + 1 <= ChunkSize THEN ChunkSize - (skip + 1) + 1 ELSE 0
          /\ \A m \in 1..(ChunkSize - (skip + 1) + 1) : local[m] = slice[(skip + 1) + m - 1]
      BY <1>2, <3>1, <3>2, SubSeqProperties
    <3> HIDE DEF local
    <3>4. /\ ChunkSize - (skip + 1) + 1 = ChunkSize - skip
          /\ \A m \in 1..(ChunkSize - skip) : (skip + 1) + m - 1 = skip + m
      BY <1>1, <1>6
    <3>5. QED
      BY <3>1, <3>3, <3>4
  <2> HIDE DEF local
  <2> DEFINE len == Len(raw) - skip
             o   == f + skip
  <2>4. len \in Nat /\ o \in Nat /\ len <= ChunkSize - skip
    BY <1>1, <1>3, <1>6
  <2>5. \A j \in 1..len : local[j] = code[o + j]
    <3>1. SUFFICES ASSUME NEW j \in 1..len PROVE local[j] = code[o + j]
      OBVIOUS
    <3>2. j \in 1..(ChunkSize - skip) /\ skip + j \in 1..Len(raw) /\ f + (skip + j) = o + j
      BY <1>1, <1>3, <1>6, <2>4
    <3>3. local[j] = slice[skip + j] /\ slice[skip + j] = code[f + (skip + j)]
      BY <1>2, <2>3, <3>2
    <3>4. QED
      BY <3>2, <3>3
  <2>6. n - skip \in 1..Len(local) /\ (n - skip) - 1 \in Nat /\ (n - skip) - 1 <= len
        /\ o + ((n - skip) - 1) = f + (n - 1)
    BY <1>1, <1>3, <1>6, <2>1, <2>3, <2>4
  <2> HIDE DEF len
  <2>7. Left(local, (n - skip) - 1) = Left(code, f + (n - 1))
    <3>1. PICK j \in Nat : j = (n - skip) - 1
      BY <2>6
    <3> DEFINE p == f + skip
    <3>2. /\ p \in Nat /\ Left(code, p) = 0 /\ j <= len
          /\ len \in Nat /\ local \in Seq(Byte)
          /\ \A k \in 1..len : local[k] = code[p + k]
      BY <2>2, <2>3, <2>4, <2>5, <2>6, <3>1
    <3> HIDE DEF p
    <3>3. Left(local, j) = Left(code, p + j)
      BY <3>2, LeftStartsAnew, ZenonT(30)
    <3>4. QED
      BY <2>6, <3>1, <3>3 DEF p
  <2>8. n - skip \in OperandsOf(local) <=> Left(local, (n - skip) - 1) > 0
    BY <2>3, <2>6, OperandsAreCounted DEF Counted
  <2>9. QED
    BY <1>7, <1>9, <2>7, <2>8 DEF local, slice, skip, raw
<1>10. QED
  BY <1>8, <1>9

LEMMA SelfContained ==
  ASSUME NEW code \in Seq(Byte), NEW c \in DOMAIN ChunkCode(code), NEW n \in 1..ChunkSize,
         (c - 1) * ChunkSize + n <= Len(code)
  PROVE  LET skip == ChunkCode(code)[c].offset
         IN  (c - 1) * ChunkSize + n \in OperandsOf(code) <=>
               n <= skip \/ n - skip \in OperandsOf(SubSeq(ChunkCode(code)[c].slice, skip + 1, ChunkSize))
<1> DEFINE count == (Len(code) + ChunkSize - 1) \div ChunkSize
           f     == (c - 1) * ChunkSize
           raw   == Raw(code, f)
           skip  == Skip(code, f)
<1>1. DOMAIN ChunkCode(code) = 1..count
  BY DEF ChunkCode
<1>2. ChunkCode(code)[c] = [offset |-> skip, slice |-> Padded(raw)]
  BY <1>1 DEF ChunkCode, Raw, Skip
<1>3. f \in Nat
  <2>1. c - 1 \in Nat /\ ChunkSize \in Nat
    <3> HIDE DEF count
    <3>1. c \in Int /\ c >= 1
      BY <1>1
    <3>2. QED
      BY <3>1, EmbeddingAssumption
  <2>2. \A x, y \in Nat : x * y \in Nat
    OBVIOUS
  <2>3. QED
    BY <2>1, <2>2
<1> HIDE DEF count, f
<1>4. f + n \in OperandsOf(code) <=>
        n <= skip \/ n - skip \in OperandsOf(SubSeq(Padded(raw), skip + 1, ChunkSize))
  <2>1. f + n <= Len(code)
    BY DEF f
  <2>2. QED
    BY <1>3, <2>1, ChunkReads DEF raw, skip
<1>5. ChunkCode(code)[c].offset = skip /\ ChunkCode(code)[c].slice = Padded(raw)
  BY <1>2
<1> HIDE DEF skip, raw
<1>6. QED
  BY <1>4, <1>5 DEF f

\* For every bytecode, of any length, chunk and operand size: each chunk can be read
\* by itself (chunk_code).
THEOREM ChunksStandAlone == SetupSpec => []ChunksAreSelfContained
<1> DEFINE CodeInv == input.kind = "code" => input.code \in Seq(Byte)
<1>1. SetupInit => CodeInv
  <2>1. SUFFICES ASSUME SetupInit, input.kind = "code" PROVE input.code \in Seq(Byte)
    OBVIOUS
  <2>2. input \in {NoInput} \cup Parts \cup Codes \cup Leaves
    BY <2>1 DEF SetupInit, EmbeddingInit
  <2>3. input # NoInput /\ input \notin Parts /\ input \notin Leaves
    BY <2>1 DEF NoInput, Parts, Leaves
  <2>4. input.code \in BoundedSeq({0, 1, MaxPush}, MaxCode)
    BY <2>2, <2>3 DEF Codes
  <2>5. PICK m \in 0..MaxCode : input.code \in [1..m -> {0, 1, MaxPush}]
    BY <2>4 DEF BoundedSeq, SeqOf
  <2>6. m \in Nat /\ {0, 1, MaxPush} \subseteq Byte
    BY EmbeddingAssumption DEF Byte
  <2>7. input.code \in [1..m -> Byte]
    BY <2>5, <2>6
  <2>8. QED
    BY <2>6, <2>7
<1>2. CodeInv /\ [SetupNext]_<<session, input, received>> => CodeInv'
  BY DEF SetupNext
<1>3. CodeInv => ChunksAreSelfContained
  BY SelfContained DEF ChunksAreSelfContained
<1>4. QED
  BY <1>1, <1>2, <1>3, PTL DEF SetupSpec

-----------------------------------------------------------------------------
(* Leaves: the powers of the radix *)

Multiplied(f, n) == IF n = 0 THEN 1 ELSE Radix * f[n - 1]

PowersTo(f, m) == f = [n \in 0..m |-> Multiplied(f, n)]

LEMMA PowersExist == \A m \in Nat : \E f : PowersTo(f, m)
<1> DEFINE S == {m \in Nat : \E f : PowersTo(f, m)}
<1>1. 0 \in S
  <2> DEFINE f == [n \in 0..0 |-> 1]
  <2>1. \A n \in 0..0 : f[n] = Multiplied(f, n)
    BY DEF Multiplied
  <2>2. f = [n \in 0..0 |-> Multiplied(f, n)]
    BY <2>1
  <2> HIDE DEF f
  <2>3. QED
    BY <2>2 DEF PowersTo
<1>2. ASSUME NEW m \in Nat, m \in S PROVE m + 1 \in S
  <2>1. PICK f : PowersTo(f, m)
    BY <1>2
  <2> DEFINE g == [n \in 0..(m + 1) |-> Multiplied(f, n)]
  <2>2. \A n \in 0..m : n \in 0..(m + 1) /\ g[n] = f[n]
    <3>1. \A n \in 0..m : n \in 0..(m + 1) /\ g[n] = Multiplied(f, n)
      OBVIOUS
    <3> HIDE DEF g
    <3>2. QED
      BY <2>1, <3>1 DEF PowersTo
  <2>3. ASSUME NEW n \in 0..(m + 1) PROVE Multiplied(f, n) = Multiplied(g, n)
    <3>1. n # 0 => n - 1 \in 0..m
      OBVIOUS
    <3> HIDE DEF g
    <3>2. QED
      BY <2>2, <3>1 DEF Multiplied
  <2>4. g = [n \in 0..(m + 1) |-> Multiplied(g, n)]
    BY <2>3
  <2> HIDE DEF g
  <2>5. QED
    BY <2>4 DEF PowersTo
<1> HIDE DEF S
<1>3. Nat \subseteq S
  BY <1>1, <1>2, InductionUp
<1>4. QED
  BY <1>3 DEF S

LEMMA PowersAgree ==
  ASSUME NEW f, NEW g, NEW m \in Nat, NEW k \in Nat, PowersTo(f, m), PowersTo(g, k)
  PROVE  \A n \in Nat : n <= m /\ n <= k => f[n] = g[n]
<1> DEFINE S == {n \in Nat : n <= m /\ n <= k => f[n] = g[n]}
<1>1. ASSUME NEW n \in Nat, n <= m, n <= k PROVE f[n] = Multiplied(f, n) /\ g[n] = Multiplied(g, n)
  <2>1. n \in 0..m /\ n \in 0..k
    BY <1>1
  <2>2. QED
    BY <2>1 DEF PowersTo
<1>2. 0 \in S
  BY <1>1 DEF Multiplied
<1>3. ASSUME NEW n \in Nat, n \in S PROVE n + 1 \in S
  <2>1. SUFFICES ASSUME n + 1 <= m, n + 1 <= k PROVE f[n + 1] = g[n + 1]
    OBVIOUS
  <2>2. f[n] = g[n] /\ n + 1 # 0 /\ (n + 1) - 1 = n /\ n + 1 \in Nat
    BY <1>3, <2>1
  <2>3. f[n + 1] = Multiplied(f, n + 1) /\ g[n + 1] = Multiplied(g, n + 1)
    BY <1>1, <2>1
  <2>4. QED
    BY <2>2, <2>3 DEF Multiplied
<1> HIDE DEF S
<1>4. Nat \subseteq S
  BY <1>2, <1>3, InductionUp
<1>5. QED
  BY <1>4 DEF S

LEMMA PowerEquation ==
  ASSUME NEW n \in Nat
  PROVE  Power[n] = IF n = 0 THEN 1 ELSE Radix * Power[n - 1]
<1> DEFINE pick(m) == CHOOSE f : PowersTo(f, m)
           F == [m \in Nat |-> pick(m)[m]]
<1>1. \A m \in Nat : PowersTo(pick(m), m)
  BY PowersExist
<1>2. ASSUME NEW m \in Nat PROVE F[m] = Multiplied(F, m)
  <2>1. m \in 0..m /\ pick(m)[m] = Multiplied(pick(m), m)
    <3>1. PowersTo(pick(m), m) /\ m \in 0..m
      BY <1>1
    <3> HIDE DEF pick
    <3>2. QED
      BY <3>1 DEF PowersTo
  <2>2. F[m] = pick(m)[m]
    OBVIOUS
  <2>3. CASE m = 0
    <3> HIDE DEF F, pick
    <3> QED
      BY <2>1, <2>2, <2>3 DEF Multiplied
  <2>4. CASE m # 0
    <3>1. m - 1 \in Nat /\ m - 1 <= m
      BY <2>4
    <3>2. PowersTo(pick(m), m) /\ PowersTo(pick(m - 1), m - 1)
      BY <1>1, <3>1
    <3>3. F[m - 1] = pick(m - 1)[m - 1]
      BY <3>1
    <3> HIDE DEF F, pick
    <3>4. pick(m)[m - 1] = pick(m - 1)[m - 1]
      BY <3>1, <3>2, PowersAgree
    <3>5. QED
      BY <2>1, <2>2, <2>4, <3>3, <3>4 DEF Multiplied
  <2>5. QED
    BY <2>3, <2>4
<1>3. F = [m \in Nat |-> Multiplied(F, m)]
  BY <1>2
<1> HIDE DEF F
<1>4. Power = CHOOSE f : f = [m \in Nat |-> Multiplied(f, m)]
  BY DEF Power, Multiplied
<1>5. Power = [m \in Nat |-> Multiplied(Power, m)]
  <2> DEFINE P(f) == f = [m \in Nat |-> Multiplied(f, m)]
  <2>1. P(F) /\ Power = CHOOSE f : P(f)
    BY <1>3, <1>4
  <2> HIDE DEF P
  <2>2. P(Power)
    BY <2>1
  <2>3. QED
    BY <2>2 DEF P
<1>6. Power[n] = Multiplied(Power, n)
  BY <1>5
<1>7. QED
  BY <1>6 DEF Multiplied

LEMMA PowerIsNat == \A n \in Nat : Power[n] \in Nat /\ Power[n] >= 1
<1> DEFINE S == {n \in Nat : Power[n] \in Nat /\ Power[n] >= 1}
<1>1. 0 \in S
  BY PowerEquation
<1>2. ASSUME NEW n \in Nat, n \in S PROVE n + 1 \in S
  <2> DEFINE p == Power[n]
             q == Power[n + 1]
  <2>1. p \in Nat /\ p >= 1 /\ Radix \in Nat /\ Radix >= 1
    BY <1>2, LeafAssumption
  <2>2. q = Radix * p
    <3>1. n + 1 \in Nat /\ n + 1 # 0 /\ (n + 1) - 1 = n
      OBVIOUS
    <3>2. QED
      BY <3>1, PowerEquation
  <2> HIDE DEF p, q
  <2>3. q \in Nat /\ q >= 1
    BY <2>1, <2>2
  <2>4. QED
    BY <2>3 DEF q
<1> HIDE DEF S
<1>3. Nat \subseteq S
  BY <1>1, <1>2, InductionUp
<1>4. QED
  BY <1>3 DEF S

LEMMA PowerSum == \A l, m \in Nat : Power[l + m] = Power[l] * Power[m]
<1> SUFFICES ASSUME NEW l \in Nat PROVE \A m \in Nat : Power[l + m] = Power[l] * Power[m]
  OBVIOUS
<1> DEFINE S == {m \in Nat : Power[l + m] = Power[l] * Power[m]}
<1>1. 0 \in S
  <2>1. l + 0 = l /\ Power[0] = 1 /\ Power[l] \in Nat
    BY PowerEquation, PowerIsNat
  <2>2. QED
    BY <2>1
<1>2. ASSUME NEW m \in Nat, m \in S PROVE m + 1 \in S
  <2> DEFINE x == Power[l]
             y == Power[m]
             z == Power[l + m]
  <2>1. x \in Nat /\ y \in Nat /\ z \in Nat /\ z = x * y /\ Radix \in Nat
    BY <1>2, PowerIsNat, LeafAssumption
  <2>2. Power[m + 1] = Radix * y
    <3>1. m + 1 \in Nat /\ m + 1 # 0 /\ (m + 1) - 1 = m
      OBVIOUS
    <3>2. QED
      BY <3>1, PowerEquation
  <2>3. Power[l + (m + 1)] = Radix * z
    <3>1. l + (m + 1) \in Nat /\ l + (m + 1) # 0 /\ (l + (m + 1)) - 1 = l + m
      OBVIOUS
    <3>2. QED
      BY <3>1, PowerEquation
  <2> HIDE DEF x, y, z
  <2>4. Radix * z = x * (Radix * y)
    BY <2>1
  <2>5. QED
    BY <2>2, <2>3, <2>4 DEF x
<1> HIDE DEF S
<1>3. Nat \subseteq S
  BY <1>1, <1>2, InductionUp
<1>4. QED
  BY <1>3 DEF S

LEMMA Division ==
  ASSUME NEW q \in Nat, NEW base \in Nat, NEW r \in Nat, r < base
  PROVE  (q * base + r) \div base = q /\ (q * base + r) % base = r
<1> DEFINE x == q * base + r
           d == x \div base
           m == x % base
<1>1. x \in Nat /\ base \in Nat /\ base > 0
  OBVIOUS
<1>2. d \in Int /\ m \in Int /\ 0 <= m /\ m < base /\ x = base * d + m
  <2> HIDE DEF x
  <2>1. x \div base \in Int
    BY <1>1
  <2>2. x % base \in Int /\ 0 <= x % base /\ x % base < base
    BY <1>1
  <2>3. x = base * (x \div base) + (x % base)
    BY <1>1
  <2>4. QED
    BY <2>1, <2>2, <2>3
<1> HIDE DEF d, m
<1>3. q * base + r = base * d + m /\ d \in Int /\ m \in Int /\ 0 <= m /\ m < base
  BY <1>2 DEF x
<1> HIDE DEF x
<1>4. base * (q - d) = m - r
  <2>1. base * (q - d) = base * q - base * d /\ q * base = base * q
    BY <1>3
  <2>2. base * q \in Int /\ base * d \in Int
    BY <1>3
  <2>3. QED
    BY <1>3, <2>1, <2>2
<1>5. ~ (q - d >= 1)
  <2>1. ASSUME q - d >= 1 PROVE base * (q - d) >= base
    BY <1>3, <2>1
  <2>2. QED
    BY <1>3, <1>4, <2>1
<1>6. ~ (q - d <= -1)
  <2>1. ASSUME q - d <= -1 PROVE base * (q - d) <= - base
    BY <1>3, <2>1
  <2>2. QED
    BY <1>3, <1>4, <2>1
<1>7. q = d
  BY <1>3, <1>5, <1>6
<1>8. m = r
  BY <1>3, <1>4, <1>7
<1>9. QED
  BY <1>7, <1>8 DEF d, m, x
-----------------------------------------------------------------------------
(* Leaves: the slices *)

Kinds == {"basic", "hot", "tier", "expiry", "flags"}

\* The bytes before slice n + 1.
EndOf(leaf, n) == IF n = 0 THEN 0 ELSE Ends(leaf)[n]

Sliced(leaf, N) ==
  /\ N \in Nat \ {0} /\ DOMAIN Ends(leaf) = 1..N
  /\ EndOf(leaf, N) = LeafLength
  /\ \A n \in 0..N : EndOf(leaf, n) \in 0..LeafLength
  /\ \A n \in 1..N : Length(leaf, n) \in Nat
  /\ \A n \in 1..N : EndOf(leaf, n) = EndOf(leaf, n - 1) + Length(leaf, n)

LEMMA SlicesOf ==
  ASSUME NEW leaf \in Kinds
  PROVE  \E N : Sliced(leaf, N)
<1>1. LeafLength \in Nat /\ LeafLength >= 1
  BY LeafAssumption
<1>2. CASE leaf = "basic"
  <2> DEFINE E == BasicEnds
  <2>1. Ends(leaf) = E
    BY <1>2 DEF Ends
  <2>2. E \in [1..4 -> 1..LeafLength] /\ E[4] = LeafLength
        /\ E[1] < E[2] /\ E[2] < E[3] /\ E[3] < E[4]
    BY LeafAssumption
  <2> HIDE DEF E
  <2>3. E[1] \in 1..LeafLength /\ E[2] \in 1..LeafLength /\ E[3] \in 1..LeafLength
    BY <2>2
  <2>4. \A n \in 1..4 : n = 1 \/ n = 2 \/ n = 3 \/ n = 4
    OBVIOUS
  <2>5. DOMAIN Ends(leaf) = 1..4
    BY <2>1, <2>2
  <2>6. \A n \in 0..4 : EndOf(leaf, n) \in 0..LeafLength
    BY <1>1, <2>1, <2>2 DEF EndOf
  <2>7. EndOf(leaf, 4) = LeafLength
    BY <2>1, <2>2 DEF EndOf
  <2>8. \A n \in 1..4 : /\ Length(leaf, n) \in Nat
                        /\ EndOf(leaf, n) = EndOf(leaf, n - 1) + Length(leaf, n)
    BY <1>1, <2>1, <2>2, <2>3, <2>4 DEF EndOf, Length
  <2>9. Sliced(leaf, 4)
    BY <2>5, <2>6, <2>7, <2>8 DEF Sliced
  <2>10. QED
    BY <2>9
<1>3. CASE leaf \in {"hot", "tier"}
  <2>1. Ends(leaf) = <<1, LeafLength>>
    BY <1>3 DEF Ends
  <2>2. DOMAIN Ends(leaf) = 1..2 /\ Ends(leaf)[1] = 1 /\ Ends(leaf)[2] = LeafLength
    BY <2>1
  <2>3. \A n \in 0..2 : EndOf(leaf, n) \in 0..LeafLength
    BY <1>1, <2>2 DEF EndOf
  <2>4. EndOf(leaf, 2) = LeafLength
    BY <2>2 DEF EndOf
  <2>5. \A n \in 1..2 : n = 1 \/ n = 2
    OBVIOUS
  <2>6. \A n \in 1..2 : /\ Length(leaf, n) \in Nat
                        /\ EndOf(leaf, n) = EndOf(leaf, n - 1) + Length(leaf, n)
    BY <1>1, <2>2, <2>5 DEF EndOf, Length
  <2>7. Sliced(leaf, 2)
    BY <2>2, <2>3, <2>4, <2>6 DEF Sliced
  <2>8. QED
    BY <2>7
<1>4. CASE leaf \in {"expiry", "flags"}
  <2>1. Ends(leaf) = <<LeafLength>>
    BY <1>4 DEF Ends
  <2>2. DOMAIN Ends(leaf) = 1..1 /\ Ends(leaf)[1] = LeafLength
    BY <2>1
  <2>3. \A n \in 0..1 : n = 0 \/ n = 1
    OBVIOUS
  <2>4. /\ \A n \in 0..1 : EndOf(leaf, n) \in 0..LeafLength
        /\ EndOf(leaf, 1) = LeafLength /\ EndOf(leaf, 0) = 0 /\ Length(leaf, 1) = LeafLength
    BY <1>1, <2>2, <2>3 DEF EndOf, Length
  <2>5. \A n \in 1..1 : n = 1 /\ n - 1 = 0
    OBVIOUS
  <2>6. Sliced(leaf, 1)
    BY <1>1, <2>2, <2>4, <2>5 DEF Sliced
  <2>7. QED
    BY <2>6
<1>5. QED
  BY <1>2, <1>3, <1>4 DEF Kinds

-----------------------------------------------------------------------------
(* Leaves: the fields joined *)

Onto(leaf, fields, g, n) ==
  IF n = 0 THEN 0 ELSE g[n - 1] * Power[Length(leaf, n)] + fields[n]

JoinedTo(leaf, fields, g, m) == g = [n \in 0..m |-> Onto(leaf, fields, g, n)]

LEMMA JoinedExist ==
  ASSUME NEW leaf, NEW fields
  PROVE  \A m \in Nat : \E g : JoinedTo(leaf, fields, g, m)
<1> DEFINE S == {m \in Nat : \E g : JoinedTo(leaf, fields, g, m)}
<1>1. 0 \in S
  <2> DEFINE f == [n \in 0..0 |-> 0]
  <2>1. \A n \in 0..0 : f[n] = Onto(leaf, fields, f, n)
    BY DEF Onto
  <2>2. f = [n \in 0..0 |-> Onto(leaf, fields, f, n)]
    BY <2>1
  <2> HIDE DEF f
  <2>3. QED
    BY <2>2 DEF JoinedTo
<1>2. ASSUME NEW m \in Nat, m \in S PROVE m + 1 \in S
  <2>1. PICK f : JoinedTo(leaf, fields, f, m)
    BY <1>2
  <2> DEFINE g == [n \in 0..(m + 1) |-> Onto(leaf, fields, f, n)]
  <2>2. \A n \in 0..m : n \in 0..(m + 1) /\ g[n] = f[n]
    <3>1. \A n \in 0..m : n \in 0..(m + 1) /\ g[n] = Onto(leaf, fields, f, n)
      OBVIOUS
    <3> HIDE DEF g
    <3>2. QED
      BY <2>1, <3>1 DEF JoinedTo
  <2>3. ASSUME NEW n \in 0..(m + 1) PROVE Onto(leaf, fields, f, n) = Onto(leaf, fields, g, n)
    <3>1. n # 0 => n - 1 \in 0..m
      OBVIOUS
    <3> HIDE DEF g
    <3>2. QED
      BY <2>2, <3>1 DEF Onto
  <2>4. g = [n \in 0..(m + 1) |-> Onto(leaf, fields, g, n)]
    BY <2>3
  <2> HIDE DEF g
  <2>5. QED
    BY <2>4 DEF JoinedTo
<1> HIDE DEF S
<1>3. Nat \subseteq S
  BY <1>1, <1>2, InductionUp
<1>4. QED
  BY <1>3 DEF S

Small(leaf, N, fields) == \A n \in 1..N : fields[n] \in 0..(Power[Length(leaf, n)] - 1)

Splits(leaf, N, g) ==
  /\ \A n \in 0..N : g[n] \in Nat
  /\ \A k \in 0..N : \A m \in k..N :
       /\ EndOf(leaf, m) - EndOf(leaf, k) \in Nat
       /\ \E rest \in Nat : /\ rest < Power[EndOf(leaf, m) - EndOf(leaf, k)]
                            /\ g[m] = g[k] * Power[EndOf(leaf, m) - EndOf(leaf, k)] + rest

LEMMA Mixed ==
  ASSUME NEW q \in Nat, NEW room \in Nat, NEW base \in Nat, NEW x \in Nat, NEW f \in Nat, x < room, f < base
  PROVE  /\ x * base + f \in Nat /\ x * base + f < room * base
         /\ (q * room + x) * base + f = q * (room * base) + (x * base + f)
<1>1. x + 1 <= room
  OBVIOUS
<1>2. (x + 1) * base <= room * base
  BY <1>1
<1>3. (x + 1) * base = x * base + base
  OBVIOUS
<1>4. x * base \in Nat /\ room * base \in Nat
  OBVIOUS
<1>5. x * base + f \in Nat /\ x * base + f < room * base
  BY <1>2, <1>3, <1>4
<1>6. (q * room + x) * base + f = q * (room * base) + (x * base + f)
  OBVIOUS
<1>7. QED
  BY <1>5, <1>6

\* Fields that fit their slices and are joined give a number for each prefix; the
\* fields behind it stay below the power of the bytes they are in.
LEMMA JoinedSplits ==
  ASSUME NEW leaf, NEW N, Sliced(leaf, N), NEW fields, Small(leaf, N, fields),
         NEW g, JoinedTo(leaf, fields, g, N)
  PROVE  Splits(leaf, N, g)
<1>0. /\ N \in Nat /\ \A n \in 0..N : EndOf(leaf, n) \in Nat
      /\ \A n \in 1..N : Length(leaf, n) \in Nat
      /\ \A n \in 1..N : EndOf(leaf, n) = EndOf(leaf, n - 1) + Length(leaf, n)
      /\ \A n \in 1..N : fields[n] \in 0..(Power[Length(leaf, n)] - 1)
  <2>1. LeafLength \in Nat
    BY LeafAssumption
  <2>2. QED
    BY <2>1 DEF Sliced, Small
<1>1. g[0] = 0
  <2>1. 0 \in 0..N
    BY <1>0
  <2>2. QED
    BY <2>1 DEF JoinedTo, Onto
<1>2. ASSUME NEW n \in Nat, n + 1 <= N
      PROVE  /\ g[n + 1] = g[n] * Power[Length(leaf, n + 1)] + fields[n + 1]
             /\ n + 1 \in 1..N /\ fields[n + 1] \in Nat /\ Length(leaf, n + 1) \in Nat
             /\ Power[Length(leaf, n + 1)] \in Nat
             /\ fields[n + 1] < Power[Length(leaf, n + 1)]
             /\ EndOf(leaf, n + 1) = EndOf(leaf, n) + Length(leaf, n + 1)
  <2>1. n + 1 \in 0..N /\ n + 1 \in 1..N /\ n + 1 # 0 /\ (n + 1) - 1 = n
    BY <1>0, <1>2
  <2>2. g[n + 1] = Onto(leaf, fields, g, n + 1)
    BY <2>1 DEF JoinedTo
  <2>3. g[n + 1] = g[n] * Power[Length(leaf, n + 1)] + fields[n + 1]
    BY <2>1, <2>2 DEF Onto
  <2>4. Length(leaf, n + 1) \in Nat /\ EndOf(leaf, n + 1) = EndOf(leaf, n) + Length(leaf, n + 1)
    BY <1>0, <2>1
  <2>5. Power[Length(leaf, n + 1)] \in Nat
    BY <2>4, PowerIsNat
  <2>6. fields[n + 1] \in 0..(Power[Length(leaf, n + 1)] - 1)
    BY <1>0, <2>1
  <2>7. fields[n + 1] \in Nat /\ fields[n + 1] < Power[Length(leaf, n + 1)]
    BY <2>5, <2>6
  <2>8. QED
    BY <2>1, <2>3, <2>4, <2>5, <2>7
<1>3. \A n \in 0..N : g[n] \in Nat
  <2> DEFINE S == {n \in Nat : n <= N => g[n] \in Nat}
  <2>1. 0 \in S
    BY <1>1
  <2>2. ASSUME NEW n \in Nat, n \in S PROVE n + 1 \in S
    <3>1. SUFFICES ASSUME n + 1 <= N PROVE g[n + 1] \in Nat
      OBVIOUS
    <3>2. g[n] \in Nat
      BY <1>0, <2>2, <3>1
    <3> DEFINE y == g[n]
               base == Power[Length(leaf, n + 1)]
               f == fields[n + 1]
    <3>3. g[n + 1] = y * base + f /\ y \in Nat /\ base \in Nat /\ f \in Nat
      BY <1>2, <3>1, <3>2
    <3> HIDE DEF y, base, f
    <3>4. QED
      BY <3>3
  <2> HIDE DEF S
  <2>3. Nat \subseteq S
    BY <2>1, <2>2, InductionUp
  <2>4. QED
    BY <2>3 DEF S
<1>4. ASSUME NEW k \in 0..N
      PROVE  \A m \in k..N :
              /\ EndOf(leaf, m) - EndOf(leaf, k) \in Nat
              /\ \E rest \in Nat : /\ rest < Power[EndOf(leaf, m) - EndOf(leaf, k)]
                                   /\ g[m] = g[k] * Power[EndOf(leaf, m) - EndOf(leaf, k)] + rest
  <2> DEFINE l(j) == EndOf(leaf, k + j) - EndOf(leaf, k)
             Holds(j) == /\ l(j) \in Nat
                         /\ \E rest \in Nat : rest < Power[l(j)] /\ g[k + j] = g[k] * Power[l(j)] + rest
             S == {j \in Nat : k + j <= N => Holds(j)}
  <2>1. k \in Nat /\ k <= N /\ g[k] \in Nat /\ EndOf(leaf, k) \in Nat
    BY <1>0, <1>3
  <2>2. 0 \in S
    <3>1. k + 0 = k /\ l(0) = 0
      BY <2>1
    <3>2. Power[0] = 1
      BY PowerEquation
    <3>3. g[k + 0] = g[k] * Power[l(0)] + 0 /\ 0 < Power[l(0)] /\ l(0) \in Nat
      BY <2>1, <3>1, <3>2
    <3> HIDE DEF l
    <3>4. QED
      BY <3>3
  <2>3. ASSUME NEW j \in Nat, j \in S PROVE j + 1 \in S
    <3>1. SUFFICES ASSUME k + (j + 1) <= N PROVE Holds(j + 1)
      OBVIOUS
    <3>2. k + j \in Nat /\ (k + j) + 1 <= N /\ k + (j + 1) = (k + j) + 1 /\ k + j <= N
      BY <1>0, <2>1, <3>1
    <3>3. Holds(j)
      BY <2>3, <3>2
    <3> DEFINE room == Power[l(j)]
               base == Power[Length(leaf, (k + j) + 1)]
               f == fields[(k + j) + 1]
    <3>4. PICK rest \in Nat : rest < room /\ g[k + j] = g[k] * room + rest
      BY <3>3
    <3>5. /\ g[(k + j) + 1] = g[k + j] * base + f /\ f \in Nat /\ base \in Nat /\ f < base
          /\ Length(leaf, (k + j) + 1) \in Nat
          /\ EndOf(leaf, (k + j) + 1) = EndOf(leaf, k + j) + Length(leaf, (k + j) + 1)
      BY <1>2, <3>2
    <3>6. l(j + 1) = l(j) + Length(leaf, (k + j) + 1) /\ l(j + 1) \in Nat
      <4> DEFINE x == EndOf(leaf, k)
                 y == EndOf(leaf, k + j)
                 z == EndOf(leaf, (k + j) + 1)
                 u == Length(leaf, (k + j) + 1)
      <4>1. x \in Nat /\ u \in Nat /\ z = y + u /\ l(j) = y - x /\ l(j) \in Nat
        BY <2>1, <3>3, <3>5
      <4>2. l(j + 1) = z - x
        BY <3>2
      <4>3. y \in Nat
        BY <1>0, <2>1, <3>2
      <4> HIDE DEF l, x, y, z, u
      <4>4. l(j + 1) = l(j) + u /\ l(j + 1) \in Nat
        BY <4>1, <4>2, <4>3
      <4>5. QED
        BY <4>4 DEF u
    <3>7. Power[l(j + 1)] = room * base /\ room \in Nat
      <4> DEFINE x == l(j)
                 u == Length(leaf, (k + j) + 1)
      <4>1. x \in Nat /\ u \in Nat /\ l(j + 1) = x + u
        BY <3>3, <3>5, <3>6
      <4> HIDE DEF l, x, u
      <4>2. Power[l(j + 1)] = Power[x] * Power[u] /\ Power[x] \in Nat
        BY <4>1, PowerSum, PowerIsNat
      <4>3. QED
        BY <4>2 DEF x, u
    <3> DEFINE more == rest * base + f
               q == g[k]
    <3> HIDE DEF room, base, f, l
    <3>8. more \in Nat /\ more < room * base
      BY <2>1, <3>4, <3>5, <3>7, Mixed
    <3>9. g[(k + j) + 1] = q * (room * base) + more
      <4>1. q \in Nat /\ g[(k + j) + 1] = (q * room + rest) * base + f
        BY <2>1, <3>4, <3>5
      <4> HIDE DEF q
      <4>2. (q * room + rest) * base + f = q * (room * base) + (rest * base + f)
        BY <3>4, <3>5, <3>7, <4>1, Mixed
      <4>3. QED
        BY <4>1, <4>2
    <3> HIDE DEF more
    <3>10. QED
      BY <3>2, <3>6, <3>7, <3>8, <3>9
  <2>4. Nat \subseteq S
    <3> HIDE DEF S
    <3> QED
      BY <2>2, <2>3, InductionUp
  <2>5. ASSUME NEW m \in k..N PROVE Holds(m - k) /\ k + (m - k) = m
    <3>1. m - k \in Nat /\ k + (m - k) = m /\ m <= N
      BY <1>0, <2>1
    <3> HIDE DEF Holds
    <3>2. QED
      BY <2>4, <3>1
  <2>6. ASSUME NEW m \in k..N
        PROVE  /\ EndOf(leaf, m) - EndOf(leaf, k) \in Nat
               /\ \E rest \in Nat : /\ rest < Power[EndOf(leaf, m) - EndOf(leaf, k)]
                                    /\ g[m] = g[k] * Power[EndOf(leaf, m) - EndOf(leaf, k)] + rest
    <3>1. Holds(m - k) /\ k + (m - k) = m
      BY <2>5
    <3>2. l(m - k) = EndOf(leaf, m) - EndOf(leaf, k)
      BY <3>1
    <3> HIDE DEF l
    <3>3. QED
      BY <3>1, <3>2
  <2>7. QED
    BY <2>6
<1>5. QED
  BY <1>3, <1>4 DEF Splits

\* What is encoded is decoded.
LEMMA EncodingInverts ==
  ASSUME NEW leaf \in Kinds, NEW fields, DOMAIN fields = DOMAIN Ends(leaf),
         Len(fields) \in Nat, DOMAIN fields = 1..Len(fields), fields = [n \in DOMAIN fields |-> fields[n]],
         Fits(leaf, fields)
  PROVE  LET v == Encode(leaf, fields)
         IN  /\ v < Power[LeafLength]
             /\ Decode(leaf, v) = fields
             /\ (v = 0) = (\A n \in DOMAIN fields : fields[n] = 0)
<1> DEFINE N == Len(fields)
           v == Encode(leaf, fields)
           g == CHOOSE h : h = [n \in 0..N |-> Onto(leaf, fields, h, n)]
<1>0. Sliced(leaf, N)
  <2>1. PICK M : Sliced(leaf, M)
    BY SlicesOf
  <2>2. M \in Nat \ {0} /\ N \in Nat /\ 1..N = 1..M
    BY <2>1 DEF Sliced
  <2> HIDE DEF N
  <2>3. M \in 1..N /\ N <= M
    <3>1. M \in 1..N
      BY <2>2
    <3>2. N \in 1..M
      BY <2>2, <3>1
    <3>3. QED
      BY <2>2, <3>1, <3>2
  <2>4. N = M
    BY <2>2, <2>3
  <2>5. QED
    BY <2>1, <2>4
<1>1. /\ N \in Nat \ {0} /\ DOMAIN Ends(leaf) = 1..N
      /\ \A n \in 0..N : EndOf(leaf, n) \in 0..LeafLength
      /\ EndOf(leaf, N) = LeafLength
      /\ \A n \in 1..N : Length(leaf, n) \in Nat
      /\ \A n \in 1..N : EndOf(leaf, n) = EndOf(leaf, n - 1) + Length(leaf, n)
  BY <1>0 DEF Sliced
<1>2. \A n \in 1..N : fields[n] \in 0..(Power[Length(leaf, n)] - 1)
  BY DEF Fits
<1>a. DOMAIN fields = 1..N
  OBVIOUS
<1>3. v = g[N]
  BY DEF Encode, Onto
<1> HIDE DEF N, v
<1>4. JoinedTo(leaf, fields, g, N)
  <2> DEFINE P(h) == h = [n \in 0..N |-> Onto(leaf, fields, h, n)]
  <2>1. \E h : P(h)
    <3>1. PICK h : JoinedTo(leaf, fields, h, N)
      BY <1>1, JoinedExist
    <3>2. P(h)
      BY <3>1 DEF JoinedTo
    <3> HIDE DEF P
    <3>3. QED
      BY <3>2
  <2>2. g = CHOOSE h : P(h)
    OBVIOUS
  <2> HIDE DEF P, g
  <2>3. P(g)
    BY <2>1, <2>2
  <2>4. QED
    BY <2>3 DEF P, JoinedTo
<1> HIDE DEF g
<1>5. /\ \A n \in 0..N : g[n] \in Nat
      /\ \A k \in 0..N : \A m \in k..N :
              /\ EndOf(leaf, m) - EndOf(leaf, k) \in Nat
              /\ \E rest \in Nat : /\ rest < Power[EndOf(leaf, m) - EndOf(leaf, k)]
                                   /\ g[m] = g[k] * Power[EndOf(leaf, m) - EndOf(leaf, k)] + rest
  <2>1. Small(leaf, N, fields)
    BY <1>2 DEF Small
  <2>2. Splits(leaf, N, g)
    BY <1>0, <1>4, <2>1, JoinedSplits
  <2>3. QED
    BY <2>2 DEF Splits
<1>6. g[0] = 0
  BY <1>1, <1>4 DEF JoinedTo, Onto
<1>7. v < Power[LeafLength]
  <2>1. 0 \in 0..N /\ N \in 0..N /\ N \in Nat /\ LeafLength \in Nat
    BY <1>1, LeafAssumption
  <2>2. EndOf(leaf, N) - EndOf(leaf, 0) = LeafLength
    BY <1>1, <2>1 DEF EndOf
  <2>3. PICK rest \in Nat : rest < Power[LeafLength] /\ g[N] = g[0] * Power[LeafLength] + rest
    BY <1>5, <2>1, <2>2
  <2>4. g[N] = rest
    BY <1>6, <2>1, <2>3, PowerIsNat
  <2>5. QED
    BY <1>3, <2>3, <2>4
<1>8. ASSUME NEW n \in 1..N
      PROVE  (v \div Power[LeafLength - Ends(leaf)[n]]) % Power[Length(leaf, n)] = fields[n]
  <2> DEFINE room == Power[LeafLength - Ends(leaf)[n]]
             base == Power[Length(leaf, n)]
  <2>1. n \in Nat /\ n \in 0..N /\ N \in n..N /\ n # 0 /\ n - 1 \in 0..N /\ N \in Nat
    BY <1>1
  <2>2. EndOf(leaf, N) - EndOf(leaf, n) = LeafLength - Ends(leaf)[n]
    BY <1>1, <2>1 DEF EndOf
  <2>3. LeafLength - Ends(leaf)[n] \in Nat
    BY <1>5, <2>1, <2>2
  <2>4. PICK rest \in Nat : rest < room /\ g[N] = g[n] * room + rest
    BY <1>5, <2>1, <2>2
  <2>5. room \in Nat /\ base \in Nat /\ g[n] \in Nat /\ g[n - 1] \in Nat
    BY <1>1, <1>5, <2>1, <2>3, PowerIsNat
  <2>6. g[n] = g[n - 1] * base + fields[n]
    <3>1. g[n] = Onto(leaf, fields, g, n)
      BY <1>4, <2>1 DEF JoinedTo
    <3>2. QED
      BY <2>1, <3>1 DEF Onto
  <2>7. fields[n] \in Nat /\ fields[n] < base
    <3>1. fields[n] \in 0..(base - 1)
      BY <1>2
    <3> HIDE DEF base
    <3>2. QED
      BY <2>5, <3>1
  <2> DEFINE x == g[n]
             y == g[n - 1]
             f == fields[n]
  <2>8. /\ room \in Nat /\ base \in Nat /\ x \in Nat /\ y \in Nat /\ f \in Nat /\ f < base
        /\ x = y * base + f /\ rest < room /\ g[N] = x * room + rest
    BY <2>4, <2>5, <2>6, <2>7
  <2> HIDE DEF room, base, x, y, f
  <2>9. g[N] \div room = x /\ x % base = f
    BY <2>8, Division
  <2>10. QED
    BY <1>3, <2>9 DEF room, base, f
<1>9. Decode(leaf, v) = fields
  <2>1. DOMAIN fields = 1..N /\ DOMAIN Ends(leaf) = 1..N
    BY <1>1
  <2>2. Decode(leaf, v) = [n \in 1..N |-> (v \div Power[LeafLength - Ends(leaf)[n]]) % Power[Length(leaf, n)]]
    BY <2>1 DEF Decode
  <2>3. Decode(leaf, v) = [n \in 1..N |-> fields[n]]
    BY <1>8, <2>2
  <2>4. QED
    BY <2>1, <2>3
<1>10. ASSUME v = 0, NEW n \in DOMAIN fields PROVE fields[n] = 0
  <2> DEFINE room == Power[LeafLength - Ends(leaf)[n]]
             base == Power[Length(leaf, n)]
  <2>1. n \in 1..N
    BY <1>1
  <2>2. (0 \div room) % base = fields[n]
    BY <1>8, <1>10, <2>1
  <2>3. n \in Nat /\ n \in 0..N /\ N \in n..N /\ n # 0
    BY <1>1, <2>1
  <2>4. LeafLength - Ends(leaf)[n] \in Nat /\ Length(leaf, n) \in Nat
    BY <1>1, <1>5, <2>1, <2>3 DEF EndOf
  <2>5. room \in Nat /\ room >= 1 /\ base \in Nat /\ base >= 1
    BY <2>4, PowerIsNat
  <2> HIDE DEF room, base
  <2>6. 0 * room + 0 = 0 /\ 0 * base + 0 = 0
    BY <2>5
  <2>7. 0 \div room = 0 /\ 0 % base = 0
    BY <2>5, <2>6, Division
  <2>8. QED
    BY <2>2, <2>7
<1>11. ASSUME \A n \in DOMAIN fields : fields[n] = 0 PROVE v = 0
  <2> DEFINE S == {n \in Nat : n <= N => g[n] = 0}
  <2>1. 0 \in S
    BY <1>6
  <2>2. ASSUME NEW n \in Nat, n \in S PROVE n + 1 \in S
    <3>1. SUFFICES ASSUME n + 1 <= N PROVE g[n + 1] = 0
      OBVIOUS
    <3>2. n + 1 \in 0..N /\ n + 1 \in 1..N /\ n + 1 # 0 /\ (n + 1) - 1 = n
      BY <1>1, <3>1
    <3>3. g[n + 1] = Onto(leaf, fields, g, n + 1)
      BY <1>4, <3>2 DEF JoinedTo
    <3>4. g[n] = 0 /\ fields[n + 1] = 0
      <4>1. n <= N /\ n + 1 \in DOMAIN fields
        BY <1>1, <1>a, <3>1, <3>2
      <4>2. QED
        BY <1>11, <2>2, <4>1
    <3>5. Power[Length(leaf, n + 1)] \in Nat
      BY <1>1, <3>2, PowerIsNat
    <3>6. g[n + 1] = 0 * Power[Length(leaf, n + 1)] + 0
      BY <3>2, <3>3, <3>4 DEF Onto
    <3>7. QED
      BY <3>5, <3>6
  <2> HIDE DEF S
  <2>3. Nat \subseteq S
    BY <2>1, <2>2, InductionUp
  <2>4. N \in S
    BY <1>1, <2>3
  <2>5. QED
    BY <1>1, <1>3, <2>4 DEF S
<1>12. QED
  BY <1>7, <1>9, <1>10, <1>11 DEF v

LEMMA LeafInputs ==
  ASSUME NEW x \in Leaves
  PROVE  /\ x.leaf \in Kinds /\ DOMAIN x.fields = DOMAIN Ends(x.leaf)
         /\ Len(x.fields) \in Nat /\ DOMAIN x.fields = 1..Len(x.fields)
         /\ x.fields = [n \in DOMAIN x.fields |-> x.fields[n]]
<1> DEFINE f == x.fields
           upto(n) == 0..Power[Length("basic", n)]
           A == upto(1)
           B == upto(2)
           C == upto(3)
           D == upto(4)
           E == 0..Power[1]
<1>1. CASE x \in [kind : {"leaf"}, leaf : {"basic"}, fields : A \X B \X C \X D]
  <2>1. x.leaf = "basic" /\ f \in A \X B \X C \X D
    BY <1>1
  <2> HIDE DEF A, B, C, D, f
  <2>2. Len(f) = 4 /\ DOMAIN f = 1..4 /\ f = [n \in 1..4 |-> f[n]]
    BY <2>1
  <2>3. DOMAIN Ends(x.leaf) = 1..4
    BY <2>1, LeafAssumption DEF Ends
  <2>4. QED
    BY <2>1, <2>2, <2>3 DEF f, Kinds
<1>2. CASE x \in [kind : {"leaf"}, leaf : {"hot", "tier"}, fields : E \X {0}]
  <2>1. x.leaf \in {"hot", "tier"} /\ f \in E \X {0}
    BY <1>2
  <2> HIDE DEF E, f
  <2>2. Len(f) = 2 /\ DOMAIN f = 1..2 /\ f = [n \in 1..2 |-> f[n]]
    BY <2>1
  <2>3. Ends(x.leaf) = <<1, LeafLength>>
    BY <2>1 DEF Ends
  <2>4. DOMAIN Ends(x.leaf) = 1..2
    BY <2>3
  <2>5. QED
    BY <2>1, <2>2, <2>4 DEF f, Kinds
<1>3. CASE x \in [kind : {"leaf"}, leaf : {"expiry", "flags"}, fields : {<<n>> : n \in 0..Power[LeafLength]}]
  <2>1. x.leaf \in {"expiry", "flags"} /\ f \in {<<n>> : n \in 0..Power[LeafLength]}
    BY <1>3
  <2>2. PICK n : f = <<n>>
    BY <2>1
  <2> HIDE DEF f
  <2>3. Len(f) = 1 /\ DOMAIN f = 1..1 /\ f = [m \in 1..1 |-> f[m]]
    BY <2>2
  <2>4. Ends(x.leaf) = <<LeafLength>>
    BY <2>1 DEF Ends
  <2>5. DOMAIN Ends(x.leaf) = 1..1
    BY <2>4
  <2>6. QED
    BY <2>1, <2>3, <2>5 DEF f, Kinds
<1>4. QED
  BY <1>1, <1>2, <1>3 DEF Leaves

\* For every size of a byte and of a leaf and any slices that fill it: what an encoder
\* writes is read as it was and fits in the leaf, and only zeros are written as zero
\* (encode_basic_data, decode_basic_data, the encoders and decoders of metadata.py).
THEOREM LeavesAreReadBack == SetupSpec => []LeafEncodingsInvert
<1> DEFINE LeafInv == input.kind = "leaf" => input \in Leaves
<1>1. SetupInit => LeafInv
  <2>1. SUFFICES ASSUME SetupInit, input.kind = "leaf" PROVE input \in Leaves
    OBVIOUS
  <2>2. input \in {NoInput} \cup Parts \cup Codes \cup Leaves
    BY <2>1 DEF SetupInit, EmbeddingInit
  <2>3. input # NoInput /\ input \notin Parts /\ input \notin Codes
    BY <2>1 DEF NoInput, Parts, Codes
  <2>4. QED
    BY <2>2, <2>3
<1>2. LeafInv /\ [SetupNext]_<<session, input, received>> => LeafInv'
  BY DEF SetupNext
<1>3. LeafInv => LeafEncodingsInvert
  <2> DEFINE v == Encode(input.leaf, input.fields)
  <2>1. SUFFICES ASSUME input \in Leaves, v # -1
                 PROVE  /\ v < Power[LeafLength]
                        /\ Decode(input.leaf, v) = input.fields
                        /\ (v = 0) = (\A n \in DOMAIN input.fields : input.fields[n] = 0)
    BY DEF LeafEncodingsInvert
  <2>2. Fits(input.leaf, input.fields)
    BY <2>1 DEF Encode
  <2>3. QED
    BY <2>1, <2>2, LeafInputs, EncodingInverts
<1>4. QED
  BY <1>1, <1>2, <1>3, PTL DEF SetupSpec

-----------------------------------------------------------------------------
(* Answers *)

\* What parse_* returns is what it was given, and has passed its comparisons.
LEMMA ParsedIsCompared ==
  ASSUME NEW method, NEW payload, NEW r, r = Rpc!Parse(method, payload), r # Rpc!Error
  PROVE  r.proof.key = r.stated.key /\ r.proof.value = r.stated.value
BY Zenon DEF Rpc!Parse, Rpc!ParseProof, Rpc!ParseWitness

\* Whatever arrives, of any root, key and value: an answer that is accepted states
\* what its root holds for the key it names, and that root is the one expected, if
\* any is, and its prefix is the key's stem if it is a witness
\* (verify_eth_getVerifiedProof_result, verify_eth_getStemWitness_result).
THEOREM AnswersAreTrue == SetupSpec => []AnswerIsTrue
<1>1. AnswerIsTrue
  <2> DEFINE r == Rpc!Read(received.reader, received.payload)
  <2>1. SUFFICES ASSUME Rpc!Verify(received.reader, r, received.expected)
                 PROVE  /\ r.stated.key # Rpc!Short /\ r.stated.value = r.block.root[r.stated.key]
                        /\ Rpc!Original(received.reader) = "getStemWitness" =>
                             r.stated.prefix = r.stated.key
                        /\ received.expected # Rpc!NoRoot => r.block.root = received.expected
    BY DEF AnswerIsTrue, Rpc!AnswerIsTrue
  <2>2. \E method, payload : r = Rpc!Parse(method, payload)
    BY Zenon DEF Rpc!Read, Rpc!ParseAlias
  <2>3. r # Rpc!Error /\ Rpc!VerifyProof(r.block.root, r.proof)
        /\ (received.expected # Rpc!NoRoot => r.block.root = received.expected)
        /\ (Rpc!Original(received.reader) = "getStemWitness" => r.stated.prefix = r.stated.key)
    BY <2>1 DEF Rpc!Verify, Rpc!VerifyParsed
  <2>4. r.proof.key = r.stated.key /\ r.proof.value = r.stated.value
    BY <2>2, <2>3, ParsedIsCompared
  <2> HIDE DEF r
  <2>5. QED
    BY <2>3, <2>4 DEF Rpc!VerifyProof
<1>2. QED
  BY <1>1, PTL
=============================================================================
