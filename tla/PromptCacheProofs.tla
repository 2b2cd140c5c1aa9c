-------------------------- MODULE PromptCacheProofs --------------------------
(***************************************************************************)
(* Proofs about PromptCache, for any keys and chats, any capacity and TTL. *)
(***************************************************************************)
EXTENDS PromptCache, SequenceTheorems, FiniteSetTheorems, WellFoundedInduction, TLAPS

Elements(s) == {s[i] : i \in 1 .. Len(s)}
NoRepeat(s) == \A i, j \in 1 .. Len(s) : s[i] = s[j] => i = j

\* A queue with one position taken out: the others keep their order.
LEMMA GapFacts ==
  ASSUME NEW s \in Seq(Key), NEW t \in Seq(Key), NEW p \in 1 .. Len(s),
         NoRepeat(s), Len(t) = Len(s) - 1,
         \A i \in 1 .. Len(s) - 1 : t[i] = IF i < p THEN s[i] ELSE s[i + 1]
  PROVE  NoRepeat(t) /\ Elements(t) = Elements(s) \ {s[p]}
<1>1. Len(s) \in Nat
  BY LenProperties
<1>2. NoRepeat(t)
  <2> SUFFICES ASSUME NEW i \in 1 .. Len(t), NEW j \in 1 .. Len(t), t[i] = t[j]
               PROVE  i = j
    BY DEF NoRepeat
  <2> DEFINE old(n) == IF n < p THEN n ELSE n + 1
  <2>1. \A n \in 1 .. Len(t) : old(n) \in 1 .. Len(s) /\ t[n] = s[old(n)]
    BY <1>1
  <2>2. old(i) = old(j)
    BY <2>1 DEF NoRepeat
  <2>3. QED
    BY <1>1, <2>2
<1>3. ASSUME NEW i \in 1 .. Len(t) PROVE t[i] \in Elements(s) \ {s[p]}
  <2>1. CASE i < p
    <3>1. t[i] = s[i] /\ i \in 1 .. Len(s) /\ i # p
      BY <1>1, <2>1
    <3>2. QED
      BY <3>1 DEF Elements, NoRepeat
  <2>2. CASE ~ (i < p)
    <3>1. t[i] = s[i + 1] /\ i + 1 \in 1 .. Len(s) /\ i + 1 # p
      BY <1>1, <2>2
    <3>2. QED
      BY <3>1 DEF Elements, NoRepeat
  <2>3. QED
    BY <2>1, <2>2
<1>4. ASSUME NEW i \in 1 .. Len(s), s[i] # s[p] PROVE s[i] \in Elements(t)
  <2>1. i # p
    BY <1>4
  <2>2. CASE i < p
    <3>1. i \in 1 .. Len(t) /\ t[i] = s[i]
      BY <1>1, <2>2
    <3>2. QED
      BY <3>1 DEF Elements
  <2>3. CASE i > p
    <3>1. i - 1 \in 1 .. Len(t) /\ ~ (i - 1 < p) /\ (i - 1) + 1 = i
      BY <1>1, <2>3
    <3>2. t[i - 1] = s[i]
      BY <3>1
    <3>3. QED
      BY <3>1, <3>2 DEF Elements
  <2>4. QED
    BY <1>1, <2>1, <2>2, <2>3
<1>5. Elements(t) \subseteq Elements(s) \ {s[p]}
  BY <1>3 DEF Elements
<1>6. Elements(s) \ {s[p]} \subseteq Elements(t)
  BY <1>4 DEF Elements
<1>7. QED
  BY <1>2, <1>5, <1>6

\* Taking the first occurrence of a key out of a queue without repetitions
\* takes exactly that key out.
LEMMA WithoutFacts ==
  ASSUME order \in Seq(Key), NoRepeat(order), NEW k \in Elements(order)
  PROVE  /\ Without(k) \in Seq(Key)
         /\ Elements(Without(k)) = Elements(order) \ {k}
         /\ NoRepeat(Without(k))
<1> DEFINE First(i) == order[i] = k /\ \A j \in 1 .. i - 1 : order[j] # k
           p == CHOOSE i \in 1 .. Len(order) : First(i)
           a == SubSeq(order, 1, p - 1)
           b == SubSeq(order, p + 1, Len(order))
<1>1. Len(order) \in Nat /\ \A i \in 1 .. Len(order) : order[i] \in Key
  BY LenProperties, ElementOfSeq
<1>2. PICK q \in 1 .. Len(order) : order[q] = k
  BY DEF Elements
<1>3. First(q)
  BY <1>1, <1>2 DEF NoRepeat
<1>4. p \in 1 .. Len(order) /\ First(p)
  BY <1>3
<1>5. Without(k) = a \o b
  BY <1>2 DEF Without
<1> HIDE DEF p
<1>6. /\ a \in Seq(Key) /\ Len(a) = p - 1
      /\ \A i \in 1 .. p - 1 : a[i] = order[i]
  BY <1>1, <1>4, SubSeqProperties
<1>7. /\ b \in Seq(Key) /\ Len(b) = Len(order) - p
      /\ \A i \in 1 .. Len(order) - p : b[i] = order[i + p]
  <2>1. p + 1 \in Int /\ Len(order) \in Int /\ \A i \in p + 1 .. Len(order) : order[i] \in Key
    BY <1>1, <1>4
  <2>2. /\ b \in Seq(Key)
        /\ Len(b) = IF p + 1 <= Len(order) THEN Len(order) - (p + 1) + 1 ELSE 0
        /\ \A i \in 1 .. Len(order) - (p + 1) + 1 : b[i] = order[p + 1 + i - 1]
    BY <2>1, SubSeqProperties
  <2>3. QED
    BY <1>1, <1>4, <2>2
<1> HIDE DEF a, b
<1>8. PICK t : t = a \o b
  OBVIOUS
<1>9. /\ t \in Seq(Key)
      /\ Len(t) = Len(a) + Len(b)
      /\ \A i \in 1 .. Len(a) + Len(b) :
           t[i] = IF i <= Len(a) THEN a[i] ELSE b[i - Len(a)]
  BY <1>6, <1>7, <1>8, ConcatProperties
<1>10. Len(t) = Len(order) - 1
  BY <1>1, <1>4, <1>6, <1>7, <1>9
<1>11. \A i \in 1 .. Len(order) - 1 : t[i] = IF i < p THEN order[i] ELSE order[i + 1]
  <2> SUFFICES ASSUME NEW i \in 1 .. Len(order) - 1
               PROVE  t[i] = IF i < p THEN order[i] ELSE order[i + 1]
    OBVIOUS
  <2>1. t[i] = IF i <= Len(a) THEN a[i] ELSE b[i - Len(a)]
    BY <1>1, <1>4, <1>6, <1>7, <1>9
  <2>2. CASE i < p
    BY <1>1, <1>4, <1>6, <2>1, <2>2
  <2>3. CASE ~ (i < p)
    <3>1. i - (p - 1) \in 1 .. Len(order) - p /\ i - (p - 1) + p = i + 1 /\ ~ (i <= p - 1)
      BY <1>1, <1>4, <2>3
    <3>2. t[i] = b[i - (p - 1)]
      BY <1>6, <2>1, <3>1
    <3>3. QED
      BY <1>7, <2>3, <3>1, <3>2
  <2>4. QED
    BY <2>2, <2>3
<1>12. NoRepeat(t) /\ Elements(t) = Elements(order) \ {k}
  <2>1. t \in Seq(Key) /\ p \in 1 .. Len(order) /\ order[p] = k
    BY <1>4, <1>9
  <2>2. NoRepeat(t) /\ Elements(t) = Elements(order) \ {order[p]}
    BY <2>1, <1>10, <1>11, GapFacts
  <2>3. QED
    BY <2>1, <2>2
<1>13. QED
  BY <1>5, <1>8, <1>9, <1>12

-----------------------------------------------------------------------------
\* The invariant: types, agreement of queue and map, and capacity.  The map is
\* finite because only Put adds to it; without that its size means nothing.
CacheInv == CacheTypeOK /\ QueueMatchesMap /\ WithinCapacity /\ IsFiniteSet(Cached)

LEMMA QueueIs == QueueMatchesMap <=> Elements(order) = Cached /\ NoRepeat(order)
BY DEF QueueMatchesMap, Elements, NoRepeat

\* Put's loop stops at the first number of evictions that makes room.
LEMMA EvictionFacts ==
  ASSUME CacheInv, Max > 0
  PROVE  /\ Evictions \in 0 .. Len(order)
         /\ Cardinality(Cached \ {order[i] : i \in 1 .. Evictions}) < Max
         /\ \A m \in 0 .. Evictions - 1 : StillFull(m)
<1> DEFINE Enough == {n \in 0 .. Len(order) : n = Len(order) \/ ~StillFull(n)}
           n == Evictions
<1>1. Len(order) \in Nat /\ Max \in Nat
  BY LenProperties, CacheAssumption DEF CacheInv, CacheTypeOK
<1>2. Enough \subseteq Nat /\ Enough # {}
  BY <1>1
<1>3. PICK e \in Enough : \A x \in Enough : ~ (<<x, e>> \in OpToRel(<, Nat))
  BY <1>2, WFMin, NatLessThanWellFounded, Zenon
<1>4. \A x \in Enough : ~ (x < e)
  BY <1>2, <1>3 DEF OpToRel
<1>5. ASSUME NEW m \in 0 .. e - 1 PROVE StillFull(m)
  <2>1. m \in 0 .. Len(order) /\ m < e
    BY <1>1
  <2>2. QED
    BY <1>4, <2>1
<1>6. /\ n \in 0 .. Len(order)
      /\ n = Len(order) \/ ~StillFull(n)
      /\ \A m \in 0 .. n - 1 : StillFull(m)
  BY <1>5 DEF Evictions
<1> HIDE DEF n
<1>7. Cardinality(Cached \ {order[i] : i \in 1 .. n}) < Max
  <2>1. CASE n = Len(order)
    <3>1. Cached \ {order[i] : i \in 1 .. n} = {}
      BY <2>1 DEF CacheInv, QueueMatchesMap
    <3>2. QED
      BY <1>1, <3>1, FS_EmptySet
  <2>2. CASE ~StillFull(n)
    <3>1. Cardinality(Cached \ {order[i] : i \in 1 .. n}) \in Nat
      BY FS_Subset, FS_CardinalityType DEF CacheInv
    <3>2. QED
      BY <1>1, <2>2, <3>1 DEF StillFull
  <2>3. QED
    BY <1>6, <2>1, <2>2
<1>8. QED
  BY <1>6, <1>7 DEF n

\* What is left of the queue after the evictions is what is left of the map.
LEMMA RestOfQueue ==
  ASSUME CacheInv, NEW n \in 0 .. Len(order)
  PROVE  LET rest == SubSeq(order, n + 1, Len(order))
         IN  /\ rest \in Seq(Key)
             /\ NoRepeat(rest)
             /\ Elements(rest) = Cached \ {order[i] : i \in 1 .. n}
<1>1. /\ Len(order) \in Nat
      /\ \A i \in 1 .. Len(order) : order[i] \in Key
      /\ Elements(order) = Cached /\ NoRepeat(order)
  BY LenProperties, ElementOfSeq, QueueIs DEF CacheInv, CacheTypeOK
<1>2. PICK rest : rest = SubSeq(order, n + 1, Len(order))
  OBVIOUS
<1>3. /\ rest \in Seq(Key)
      /\ Len(rest) = Len(order) - n
      /\ \A i \in 1 .. Len(order) - n : rest[i] = order[n + i]
  <2>1. n + 1 \in Int /\ Len(order) \in Int /\ \A i \in n + 1 .. Len(order) : order[i] \in Key
    BY <1>1
  <2>2. /\ rest \in Seq(Key)
        /\ Len(rest) = IF n + 1 <= Len(order) THEN Len(order) - (n + 1) + 1 ELSE 0
        /\ \A i \in 1 .. Len(order) - (n + 1) + 1 : rest[i] = order[n + 1 + i - 1]
    BY <1>2, <2>1, SubSeqProperties
  <2>3. QED
    BY <1>1, <2>2
<1>4. \A i \in 1 .. Len(rest) : n + i \in 1 .. Len(order) /\ rest[i] = order[n + i]
  BY <1>1, <1>3
<1>5. NoRepeat(rest)
  <2> SUFFICES ASSUME NEW i \in 1 .. Len(rest), NEW j \in 1 .. Len(rest), rest[i] = rest[j]
               PROVE  i = j
    BY DEF NoRepeat
  <2>1. n + i = n + j
    BY <1>1, <1>4 DEF NoRepeat
  <2>2. QED
    BY <1>1, <1>3, <2>1
<1>6. ASSUME NEW i \in 1 .. Len(rest)
      PROVE  rest[i] \in Cached \ {order[j] : j \in 1 .. n}
  <2>1. rest[i] \in Cached
    BY <1>1, <1>4 DEF Elements
  <2>2. ASSUME NEW j \in 1 .. n PROVE order[j] # order[n + i]
    <3>1. j \in 1 .. Len(order) /\ j # n + i
      BY <1>1, <1>3
    <3>2. QED
      BY <1>1, <1>4, <3>1 DEF NoRepeat
  <2>3. QED
    BY <1>4, <2>1, <2>2
<1>7. ASSUME NEW k \in Cached \ {order[j] : j \in 1 .. n} PROVE k \in Elements(rest)
  <2>1. PICK j \in 1 .. Len(order) : order[j] = k
    BY <1>1 DEF Elements
  <2>2. j - n \in 1 .. Len(rest) /\ n + (j - n) = j
    BY <1>1, <1>3, <2>1
  <2>3. rest[j - n] = k
    BY <1>4, <2>1, <2>2
  <2>4. QED
    BY <2>2, <2>3 DEF Elements
<1>8. Elements(rest) \subseteq Cached \ {order[i] : i \in 1 .. n}
  BY <1>6 DEF Elements
<1>9. QED
  BY <1>2, <1>3, <1>5, <1>7, <1>8

\* A queue that gets a new key at its end.
LEMMA AppendFacts ==
  ASSUME NEW s \in Seq(Key), NoRepeat(s), NEW k \in Key, k \notin Elements(s)
  PROVE  /\ Append(s, k) \in Seq(Key)
         /\ NoRepeat(Append(s, k))
         /\ Elements(Append(s, k)) = Elements(s) \cup {k}
<1>1. PICK t : t = Append(s, k)
  OBVIOUS
<1>2. /\ t \in Seq(Key) /\ Len(t) = Len(s) + 1 /\ Len(s) \in Nat
      /\ \A i \in 1 .. Len(s) : t[i] = s[i]
      /\ t[Len(s) + 1] = k
  BY <1>1, AppendProperties, LenProperties
<1>3. \A i \in 1 .. Len(t) : i \in 1 .. Len(s) \/ i = Len(s) + 1
  BY <1>2
<1>4. \A i \in 1 .. Len(s) : i \in 1 .. Len(t) /\ s[i] # k
  BY <1>2 DEF Elements
<1>5. NoRepeat(t)
  BY <1>2, <1>3, <1>4 DEF NoRepeat
<1>6. Len(s) + 1 \in 1 .. Len(t)
  BY <1>2
<1>7. Elements(t) = Elements(s) \cup {k}
  BY <1>2, <1>3, <1>4, <1>6 DEF Elements
<1>8. QED
  BY <1>1, <1>2, <1>5, <1>7

-----------------------------------------------------------------------------
LEMMA CacheInvInit == CacheInit => CacheInv
<1> SUFFICES ASSUME CacheInit PROVE CacheInv
  OBVIOUS
<1>1. Cached = {} /\ Len(order) = 0 /\ order \in Seq(Key)
  BY DEF CacheInit, Cached
<1>2. CacheTypeOK
  BY <1>1 DEF CacheInit, CacheTypeOK
<1>3. QueueMatchesMap
  BY <1>1 DEF QueueMatchesMap
<1>4. IsFiniteSet(Cached) /\ WithinCapacity
  BY <1>1, FS_EmptySet, CacheAssumption DEF WithinCapacity
<1>5. QED
  BY <1>2, <1>3, <1>4 DEF CacheInv

\* removeLocked, the step Get (on expiry) and Invalidate share.
LEMMA RemoveKeeps ==
  ASSUME CacheInv, NEW k \in Key, removeLocked(k), found' \in Chat \cup {NoChat}
  PROVE  CacheInv' /\ Cached' \subseteq Cached
<1>1. /\ Elements(order) = Cached /\ NoRepeat(order) /\ order \in Seq(Key)
      /\ entries \in [Cached -> Entry] /\ Cached \subseteq Key
      /\ IsFiniteSet(Cached)
  BY QueueIs DEF CacheInv, CacheTypeOK
<1>2. CASE k \in Cached
  <2>1. entries' = Drop(entries, {k}) /\ order' = Without(k)
    BY <1>2 DEF removeLocked
  <2>2. /\ order' \in Seq(Key) /\ NoRepeat(order')
        /\ Elements(order') = Cached \ {k}
    BY <1>1, <1>2, <2>1, WithoutFacts
  <2>3. Cached' = Cached \ {k} /\ entries' \in [Cached \ {k} -> Entry]
    BY <1>1, <2>1 DEF Drop, Cached
  <2>4. CacheTypeOK'
    BY <1>1, <2>2, <2>3 DEF CacheTypeOK
  <2>5. QueueMatchesMap'
    BY <2>2, <2>3 DEF QueueMatchesMap, Elements, NoRepeat
  <2>6. IsFiniteSet(Cached') /\ Cardinality(Cached') <= Cardinality(Cached)
    BY <1>1, <2>3, FS_Subset
  <2>7. Cardinality(Cached') \in Nat /\ Cardinality(Cached) \in Nat /\ Max \in Nat
    BY <1>1, <2>6, FS_CardinalityType, CacheAssumption
  <2>8. Cardinality(Cached) <= Max
    BY DEF CacheInv, WithinCapacity
  <2>9. WithinCapacity'
    BY <2>6, <2>7, <2>8 DEF WithinCapacity
  <2>10. QED
    BY <2>3, <2>4, <2>5, <2>6, <2>9 DEF CacheInv
<1>3. CASE k \notin Cached
  <2>1. UNCHANGED <<entries, order>>
    BY <1>3 DEF removeLocked
  <2>2. QED
    BY <2>1 DEF CacheInv, CacheTypeOK, QueueMatchesMap, WithinCapacity, Cached
<1>4. QED
  BY <1>2, <1>3

\* A Put under a new key: what it evicts, and the map it leaves.
LEMMA PutNew ==
  ASSUME CacheInv, NEW k \in Key, NEW c \in Chat \cup {NoChat},
         Put(k, c), Stored(c), k \notin Cached
  PROVE  \E gone \in SUBSET Cached :
           /\ gone = {order[i] : i \in 1 .. Evictions}
           /\ Cached' = (Cached \ gone) \cup {k}
           /\ entries' = [j \in Cached' |-> IF j = k THEN [chat |-> c, left |-> TTL]
                                                   ELSE entries[j]]
<1>1. Evictions \in 0 .. Len(order) /\ Len(order) \in Nat
  BY EvictionFacts, LenProperties DEF Stored, CacheInv, CacheTypeOK
<1>2. \A i \in 1 .. Evictions : i \in 1 .. Len(order)
  BY <1>1
<1>3. {order[i] : i \in 1 .. Evictions} \subseteq Cached
  BY <1>2 DEF CacheInv, QueueMatchesMap
<1>4. entries' = [j \in (Cached \ {order[i] : i \in 1 .. Evictions}) \cup {k} |->
                    IF j = k THEN [chat |-> c, left |-> TTL] ELSE entries[j]]
  BY DEF Put
<1>5. Cached' = (Cached \ {order[i] : i \in 1 .. Evictions}) \cup {k}
  BY <1>4 DEF Cached
<1>6. QED
  BY <1>3, <1>4, <1>5

LEMMA PutKeeps ==
  ASSUME CacheInv, NEW k \in Key, NEW c \in Chat \cup {NoChat}, Put(k, c)
  PROVE  CacheInv'
<1>1. /\ Elements(order) = Cached /\ NoRepeat(order) /\ order \in Seq(Key)
      /\ entries \in [Cached -> Entry] /\ Cached \subseteq Key
      /\ IsFiniteSet(Cached) /\ found' = NoChat
      /\ Max \in Nat /\ TTL \in Nat
  BY QueueIs, CacheAssumption DEF CacheInv, CacheTypeOK, Put
<1>2. CASE ~Stored(c)
  <2>1. UNCHANGED <<entries, order>>
    BY <1>2 DEF Put
  <2>2. QED
    BY <1>1, <2>1 DEF CacheInv, CacheTypeOK, QueueMatchesMap, WithinCapacity, Cached
<1>3. ASSUME Stored(c) PROVE [chat |-> c, left |-> TTL] \in Entry
  BY <1>1, <1>3 DEF Stored, Entry
<1>4. CASE Stored(c) /\ k \in Cached
  <2>1. entries' = [entries EXCEPT ![k] = [chat |-> c, left |-> TTL]] /\ UNCHANGED order
    BY <1>4 DEF Put, Refreshed
  <2>2. Cached' = Cached /\ entries' \in [Cached -> Entry]
    BY <1>1, <1>3, <1>4, <2>1 DEF Cached
  <2>3. QED
    BY <1>1, <2>1, <2>2 DEF CacheInv, CacheTypeOK, QueueMatchesMap, WithinCapacity
<1>5. CASE Stored(c) /\ k \notin Cached
  <2>1. PICK gone \in SUBSET Cached :
          /\ gone = {order[i] : i \in 1 .. Evictions}
          /\ Cached' = (Cached \ gone) \cup {k}
          /\ entries' = [j \in Cached' |-> IF j = k THEN [chat |-> c, left |-> TTL]
                                                  ELSE entries[j]]
    BY <1>5, PutNew
  <2>2. Evictions \in 0 .. Len(order) /\ Cardinality(Cached \ gone) < Max
    BY <1>5, <2>1, EvictionFacts DEF Stored
  <2>3. PICK rest : rest = SubSeq(order, Evictions + 1, Len(order))
    OBVIOUS
  <2>4. rest \in Seq(Key) /\ NoRepeat(rest) /\ Elements(rest) = Cached \ gone
    BY <2>1, <2>2, <2>3, RestOfQueue
  <2>5. order' = Append(rest, k)
    BY <1>5, <2>3 DEF Put
  <2>6. order' \in Seq(Key) /\ NoRepeat(order') /\ Elements(order') = Cached'
    BY <1>5, <2>1, <2>4, <2>5, AppendFacts
  <2>7. entries' \in [Cached' -> Entry] /\ Cached' \subseteq Key
    BY <1>1, <1>3, <1>5, <2>1
  <2>8. CacheTypeOK' /\ QueueMatchesMap'
    BY <1>1, <2>6, <2>7 DEF CacheTypeOK, QueueMatchesMap, Elements, NoRepeat
  <2>9. IsFiniteSet(Cached \ gone) /\ Cardinality(Cached \ gone) \in Nat
    BY <1>1, FS_Subset, FS_CardinalityType
  <2>10. IsFiniteSet(Cached') /\ Cardinality(Cached') = Cardinality(Cached \ gone) + 1
    BY <1>5, <2>1, <2>9, FS_AddElement
  <2>11. WithinCapacity'
    BY <1>1, <2>2, <2>9, <2>10 DEF WithinCapacity
  <2>12. QED
    BY <2>8, <2>10, <2>11 DEF CacheInv
<1>6. QED
  BY <1>2, <1>4, <1>5

LEMMA CacheInvStep == CacheInv /\ [CacheNext]_cacheVars => CacheInv'
<1> SUFFICES ASSUME CacheInv, [CacheNext]_cacheVars PROVE CacheInv'
  OBVIOUS
<1>1. ASSUME NEW k \in Key, Get(k) PROVE CacheInv'
  <2>1. CASE Live(k) /\ found' = entries[k].chat /\ UNCHANGED <<entries, order>>
    <3>1. entries[k].chat \in Chat
      BY <2>1 DEF Live, CacheInv, CacheTypeOK, Entry
    <3>2. QED
      BY <2>1, <3>1 DEF CacheInv, CacheTypeOK, QueueMatchesMap, WithinCapacity, Cached
  <2>2. CASE removeLocked(k) /\ found' = NoChat
    BY <2>2, RemoveKeeps
  <2>3. QED
    BY <1>1, <2>1, <2>2 DEF Get
<1>2. ASSUME NEW k \in Key, Invalidate(k) PROVE CacheInv'
  BY <1>2, RemoveKeeps DEF Invalidate
<1>3. ASSUME NEW k \in Key, NEW c \in Chat \cup {NoChat}, Put(k, c) PROVE CacheInv'
  BY <1>3, PutKeeps
<1>4. CASE CacheTick
  <2>1. Cached' = Cached /\ UNCHANGED order /\ found' = NoChat
    BY <1>4 DEF CacheTick, Cached
  <2>2. entries' \in [Cached -> Entry]
    BY <1>4 DEF CacheTick, CacheInv, CacheTypeOK, Entry
  <2>3. QED
    BY <2>1, <2>2 DEF CacheInv, CacheTypeOK, QueueMatchesMap, WithinCapacity
<1>5. CASE UNCHANGED cacheVars
  BY <1>5 DEF cacheVars, CacheInv, CacheTypeOK, QueueMatchesMap, WithinCapacity, Cached
<1>6. QED
  BY <1>1, <1>2, <1>3, <1>4, <1>5 DEF CacheNext

\* For every capacity and TTL: the eviction queue and the map agree after any
\* sequence of calls.
THEOREM QueueAlwaysMatches == CacheSpec => []QueueMatchesMap
<1>1. CacheInv => QueueMatchesMap
  BY DEF CacheInv
<1>2. QED
  BY <1>1, CacheInvInit, CacheInvStep, PTL DEF CacheSpec

\* For every capacity and TTL: the cache stays within its capacity.
THEOREM CapacityKept == CacheSpec => []WithinCapacity
<1>1. CacheInv => WithinCapacity
  BY DEF CacheInv
<1>2. QED
  BY <1>1, CacheInvInit, CacheInvStep, PTL DEF CacheSpec

\* The types of the cache, for every capacity and TTL.
THEOREM TypeCorrect == CacheSpec => []CacheTypeOK
<1>1. CacheInv => CacheTypeOK
  BY DEF CacheInv
<1>2. QED
  BY <1>1, CacheInvInit, CacheInvStep, PTL DEF CacheSpec

-----------------------------------------------------------------------------
\* The refinement of ChatMemo.
LEMMA MemoInit == CacheInit => Memo!Init
BY DEF CacheInit, Memo!Init, Memory, Live, Cached

LEMMA MemoStep == CacheInv /\ [CacheNext]_cacheVars => [Memo!Next]_(Memo!memoVars)
<1> SUFFICES ASSUME CacheInv, [CacheNext]_cacheVars PROVE [Memo!Next]_(Memo!memoVars)
  OBVIOUS
<1>0. /\ entries \in [Cached -> Entry] /\ Cached \subseteq Key
      /\ Memory \in [Key -> Chat \cup {NoChat}]
      /\ TTL > 0
  <2>1. entries \in [Cached -> Entry] /\ Cached \subseteq Key /\ TTL > 0
    BY CacheAssumption DEF CacheInv, CacheTypeOK
  <2>2. QED
    BY <2>1 DEF Memory, Live, Entry
<1>1. ASSUME UNCHANGED entries PROVE UNCHANGED Memory
  BY <1>1 DEF Memory, Live, Cached
<1>2. ASSUME NEW k \in Key, removeLocked(k)
      PROVE  Memory' = [Memory EXCEPT ![k] = NoChat]
  <2>1. CASE k \in Cached
    <3>1. Cached' = Cached \ {k} /\ \A j \in Cached \ {k} : entries'[j] = entries[j]
      BY <1>2, <2>1 DEF removeLocked, Drop, Cached
    <3>2. QED
      BY <1>0, <3>1 DEF Memory, Live
  <2>2. CASE k \notin Cached
    <3>1. UNCHANGED Memory
      BY <1>1, <1>2, <2>2 DEF removeLocked
    <3>2. Memory[k] = NoChat
      BY <2>2 DEF Memory, Live
    <3>3. QED
      BY <1>0, <3>1, <3>2
  <2>3. QED
    BY <2>1, <2>2
<1>3. ASSUME NEW k \in Key, Get(k) PROVE Memo!Get(k)
  <2> asked' = <<"get", k>>
    BY <1>3 DEF Get
  <2>1. CASE Live(k) /\ found' = entries[k].chat /\ UNCHANGED <<entries, order>>
    <3>1. Memory[k] = entries[k].chat
      BY <2>1 DEF Memory
    <3>2. QED
      BY <1>1, <2>1, <3>1 DEF Memo!Get
  <2>2. CASE ~Live(k) /\ removeLocked(k) /\ found' = NoChat
    <3>1. Memory[k] = NoChat
      BY <2>2 DEF Memory
    <3>2. Memory' = [Memory EXCEPT ![k] = NoChat]
      BY <1>2, <2>2
    <3>3. QED
      BY <1>0, <2>2, <3>1, <3>2 DEF Memo!Get
  <2>3. QED
    BY <1>3, <2>1, <2>2 DEF Get
<1>4. ASSUME NEW k \in Key, Invalidate(k) PROVE Memo!Invalidate(k)
  BY <1>2, <1>4 DEF Invalidate, Memo!Invalidate, Memo!Erase
<1>5. ASSUME NEW lost \in SUBSET Key, found' = NoChat, asked' = << >>,
             \A j \in Key : Memory'[j] = IF j \in lost THEN NoChat ELSE Memory[j]
      PROVE  Memo!Lose
  <2>1. Memory' = [j \in Key |-> IF j \in lost THEN NoChat ELSE Memory[j]]
    BY <1>5 DEF Memory
  <2>2. QED
    BY <1>5, <2>1 DEF Memo!Lose
<1>6. ASSUME NEW k \in Key, NEW c \in Chat \cup {NoChat}, Put(k, c)
      PROVE  Memo!Put(k, c)
  <2>1. found' = NoChat /\ asked' = <<"put", k, c>>
    BY <1>6 DEF Put
  <2>2. CASE ~Stored(c)
    <3>1. UNCHANGED Memory
      BY <1>1, <1>6, <2>2 DEF Put
    <3>2. CASE c = NoChat
      BY <2>1, <3>1, <3>2 DEF Memo!Put
    <3>3. CASE c # NoChat
      <4>1. Max = 0
        BY <2>2, <3>3, CacheAssumption DEF Stored
      <4>2. Cached = {}
        BY <4>1, FS_EmptySet, FS_CardinalityType DEF CacheInv, WithinCapacity
      <4>3. Memory = [j \in Key |-> NoChat]
        BY <4>2 DEF Memory, Live
      <4>4. Memory' = [j \in Key |-> IF j \in Key THEN NoChat ELSE IF j = k THEN c ELSE Memory[j]]
        BY <3>1, <4>3
      <4>5. Memo!Remember(k, c)
        BY <4>4 DEF Memo!Remember
      <4>6. QED
        BY <2>1, <3>3, <4>5 DEF Memo!Put
    <3>4. QED
      BY <3>2, <3>3
  <2>3. CASE Stored(c)
    <3>1. PICK gone \in SUBSET (Key \ {k}) :
            \A j \in Key : Memory'[j] = IF j = k THEN c
                                        ELSE IF j \in gone THEN NoChat ELSE Memory[j]
      <4>1. CASE k \in Cached
        <5>1. entries' = [entries EXCEPT ![k] = [chat |-> c, left |-> TTL]]
          BY <1>6, <2>3, <4>1 DEF Put, Refreshed
        <5>2. Cached' = Cached /\ entries'[k] = [chat |-> c, left |-> TTL]
              /\ \A j \in Cached \ {k} : entries'[j] = entries[j]
          BY <1>0, <4>1, <5>1 DEF Cached
        <5>3. Memory'[k] = c
          BY <1>0, <4>1, <5>2 DEF Memory, Live
        <5>4. ASSUME NEW j \in Key \ {k} PROVE Memory'[j] = Memory[j]
          BY <5>2 DEF Memory, Live
        <5>5. {} \in SUBSET (Key \ {k})
          OBVIOUS
        <5>6. QED
          BY <5>3, <5>4, <5>5
      <4>2. CASE k \notin Cached
        <5>1. PICK gone \in SUBSET Cached :
                /\ Cached' = (Cached \ gone) \cup {k}
                /\ entries' = [j \in Cached' |-> IF j = k THEN [chat |-> c, left |-> TTL]
                                                        ELSE entries[j]]
          BY <1>6, <2>3, <4>2, PutNew
        <5>2. gone \in SUBSET (Key \ {k})
          BY <1>0, <4>2
        <5>3. /\ k \in Cached' /\ entries'[k] = [chat |-> c, left |-> TTL]
              /\ \A j \in Cached \ gone : entries'[j] = entries[j]
          BY <4>2, <5>1
        <5>4. Memory'[k] = c
          BY <1>0, <5>3 DEF Memory, Live
        <5>5. ASSUME NEW j \in Key \ {k}
              PROVE  Memory'[j] = IF j \in gone THEN NoChat ELSE Memory[j]
          BY <5>1, <5>3 DEF Memory, Live
        <5>6. QED
          BY <5>2, <5>4, <5>5
      <4>3. QED
        BY <4>1, <4>2
    <3>2. Memory' = [j \in Key |-> IF j \in gone THEN NoChat ELSE IF j = k THEN c ELSE Memory[j]]
      BY <3>1 DEF Memory
    <3>3. gone \in SUBSET Key /\ c # NoChat
      BY <2>3 DEF Stored
    <3>4. Memo!Remember(k, c)
      BY <3>2, <3>3 DEF Memo!Remember
    <3>5. QED
      BY <2>1, <3>3, <3>4 DEF Memo!Put
  <2>4. QED
    BY <2>2, <2>3
<1>7. CASE CacheTick
  <2> DEFINE lost == {k \in Cached : entries[k].left <= 1}
  <2>1. Cached' = Cached /\ found' = NoChat /\ asked' = << >>
    BY <1>7 DEF CacheTick, Cached
  <2>2. \A k \in Cached : /\ entries'[k].chat = entries[k].chat
                         /\ entries'[k].left = IF entries[k].left > 0 THEN entries[k].left - 1 ELSE 0
    BY <1>0, <1>7 DEF CacheTick, Entry
  <2>3. \A k \in Cached : entries[k].left \in Nat
    BY <1>0 DEF Entry
  <2>4. ASSUME NEW j \in Key
        PROVE  Memory'[j] = IF j \in lost THEN NoChat ELSE Memory[j]
    <3>1. CASE j \in Cached
      <4>1. Memory'[j] = IF entries[j].left > 1 THEN entries[j].chat ELSE NoChat
        <5>1. Memory'[j] = IF entries'[j].left > 0 THEN entries'[j].chat ELSE NoChat
          BY <2>1, <3>1 DEF Memory, Live
        <5>2. /\ entries'[j].chat = entries[j].chat
              /\ entries'[j].left = IF entries[j].left > 0 THEN entries[j].left - 1 ELSE 0
              /\ entries[j].left \in Nat
          BY <2>2, <2>3, <3>1
        <5>3. CASE entries[j].left > 1
          BY <5>1, <5>2, <5>3
        <5>4. CASE ~ (entries[j].left > 1)
          BY <5>1, <5>2, <5>4
        <5>5. QED
          BY <5>3, <5>4
      <4>2. Memory[j] = IF entries[j].left > 0 THEN entries[j].chat ELSE NoChat
        BY <3>1 DEF Memory, Live
      <4>3. QED
        BY <2>3, <3>1, <4>1, <4>2
    <3>2. CASE j \notin Cached
      BY <2>1, <3>2 DEF Memory, Live
    <3>3. QED
      BY <3>1, <3>2
  <2>5. lost \in SUBSET Key
    BY <1>0
  <2>6. Memo!Lose
    BY <1>5, <2>1, <2>4, <2>5
  <2>7. QED
    BY <2>6 DEF Memo!Next
<1>8. CASE UNCHANGED cacheVars
  BY <1>1, <1>8 DEF cacheVars, Memo!memoVars
<1>9. QED
  BY <1>3, <1>4, <1>6, <1>7, <1>8 DEF CacheNext, Memo!Next

\* For every capacity and TTL the cache implements the memory the handlers
\* rely on: a hit is the chat last put under that key.
THEOREM CacheImplementsMemo == CacheSpec => CacheIsMemo
BY CacheInvInit, CacheInvStep, MemoInit, MemoStep, PTL DEF CacheSpec, CacheIsMemo, Memo!Spec

=============================================================================
