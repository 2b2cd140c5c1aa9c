--------------------------- MODULE TokenPoolProofs ---------------------------
(***************************************************************************)
(* Proofs about TokenPool, for any credentials, any token lists and any    *)
(* cooldown.                                                               *)
(***************************************************************************)
EXTENDS TokenPool, SequenceTheorems, WellFoundedInduction, TLAPS

\* The positions of a sequence of pointers, counted as the code counts them.
LEMMA SizeFacts ==
  ASSUME PoolTypeOK
  PROVE  /\ Size \in Nat
         /\ Idx = 0 .. Size - 1
         /\ \A i \in Idx : /\ i + 1 \in 1 .. Len(ptr)
                           /\ ptr[i + 1] \in DOMAIN slot
                           /\ At(i) \in Slot
                           /\ At(i).value \in Token
                           /\ At(i).cool \in Nat
<1>1. Size \in Nat
  BY LenProperties DEF PoolTypeOK, Size
<1>2. ASSUME NEW i \in Idx
      PROVE  /\ i + 1 \in 1 .. Len(ptr)
             /\ ptr[i + 1] \in DOMAIN slot
             /\ At(i) \in Slot
  BY <1>1 DEF Idx, Size, At, PoolTypeOK
<1>3. QED
  BY <1>1, <1>2 DEF Idx, Slot

\* A position with a given value has a first one, which MarkBad and Replace
\* find by their scans and SetTokens by its inner loop.
LEMMA FirstExists ==
  ASSUME PoolTypeOK, NEW v \in Values
  PROVE  \E i \in Idx : FirstWith(i, v)
<1> DEFINE Holders == {i \in Idx : At(i).value = v}
<1>1. Holders \subseteq Nat /\ Holders # {}
  BY SizeFacts DEF Values, Idx
<1>2. PICK i \in Holders : \A j \in Holders : ~ (<<j, i>> \in OpToRel(<, Nat))
  BY <1>1, WFMin, NatLessThanWellFounded, Zenon
<1>3. \A j \in Holders : ~ (j < i)
  BY <1>1, <1>2 DEF OpToRel
<1>4. ASSUME NEW j \in 0 .. i - 1 PROVE At(j).value # v
  <2>1. Size \in Nat /\ Idx = 0 .. Size - 1 /\ i \in Idx
    BY SizeFacts
  <2>2. j \in Idx /\ j < i
    BY <2>1
  <2>3. QED
    BY <2>2, <1>3
<1>5. QED
  BY <1>4 DEF FirstWith

\* What a reload carries over of a token is what one of its positions had.
LEMMA HistoryCarried ==
  ASSUME PoolTypeOK, NEW v
  PROVE  /\ SatOut(v) \in Nat /\ RoundsOf(v) \in Nat
         /\ v \in Values => \E i \in Idx : SatOut(v) = waited[i] /\ RoundsOf(v) = due[i]
         /\ v \notin Values => SatOut(v) = 0 /\ RoundsOf(v) = 0
<1>1. CASE v \in Values
  <2>1. (CHOOSE i \in Idx : FirstWith(i, v)) \in Idx
    BY <1>1, FirstExists
  <2>2. QED
    BY <1>1, <2>1 DEF SatOut, RoundsOf, PoolTypeOK
<1>2. CASE v \notin Values
  BY <1>2 DEF SatOut, RoundsOf
<1>3. QED
  BY <1>1, <1>2

-----------------------------------------------------------------------------
\* Type correctness: pointers never dangle and the cursor stays inside the
\* pool, whatever tokens are reloaded.
LEMMA TypeInit == PoolInit => PoolTypeOK
<1> SUFFICES ASSUME PoolInit PROVE PoolTypeOK
  OBVIOUS
<1>1. PICK list \in TokenLists :
        /\ ptr    = [i \in 1 .. Len(list) |-> i]
        /\ slot   = [i \in 1 .. Len(list) |-> FreshSlot(list[i])]
        /\ cursor = 0
        /\ handed = NoToken
        /\ badFor = [v \in Token |-> 0]
        /\ waited = [i \in 0 .. Len(list) - 1 |-> 0]
        /\ due    = [i \in 0 .. Len(list) - 1 |-> Len(list)]
        /\ reloads = 0
  BY DEF PoolInit
<1>2. list \in Seq(Token) /\ Len(list) \in Nat
  BY PoolAssumption, LenProperties
<1>3. \A i \in 1 .. Len(list) : FreshSlot(list[i]) \in Slot
  BY <1>2, ElementOfSeq DEF FreshSlot, Slot
<1>4. ptr \in Seq(Nat \ {0}) /\ Size = Len(list)
  BY <1>1, <1>2 DEF Size
<1>5. QED
  BY <1>1, <1>2, <1>3, <1>4 DEF PoolTypeOK, Idx, Size

LEMMA TypeStep == PoolTypeOK /\ [PoolNext]_poolVars => PoolTypeOK'
<1> SUFFICES ASSUME PoolTypeOK, [PoolNext]_poolVars PROVE PoolTypeOK'
  OBVIOUS
<1>0. /\ Size \in Nat /\ cursor \in Nat /\ Cooldown \in Nat
      /\ ptr \in Seq(Nat \ {0})
      /\ NoToken \notin Token
  BY SizeFacts, PoolAssumption DEF PoolTypeOK, Idx
<1>s. slot \in [DOMAIN slot -> Slot]
  BY DEF PoolTypeOK
<1>1. CASE Take
  <2>1. UNCHANGED <<ptr, slot, badFor, reloads>>
    BY <1>1 DEF Take
  <2>2. /\ cursor' \in (IF Size = 0 THEN {0} ELSE Idx)
        /\ handed' \in Token \cup {NoToken}
        /\ waited' \in [Idx -> Nat] /\ due' \in [Idx -> Nat]
    <3>1. ASSUME NEW i \in Idx,
                 cursor' = CursorAfter(i),
                 handed' = At(i).value,
                 waited' = [j \in Idx |-> IF j = i \/ Cooling(j)
                                         THEN 0 ELSE waited[j] + 1],
                 due' = [j \in Idx |-> IF j = i \/ Cooling(j)
                                      THEN Size ELSE due[j]]
          PROVE  /\ cursor' \in (IF Size = 0 THEN {0} ELSE Idx)
                 /\ handed' \in Token \cup {NoToken}
                 /\ waited' \in [Idx -> Nat] /\ due' \in [Idx -> Nat]
      <4>1. Size \in Nat /\ Idx = 0 .. Size - 1 /\ i \in Nat /\ Size > 0
        BY SizeFacts
      <4>2. (i + 1) % Size \in 0 .. Size - 1
        BY <4>1
      <4>3. cursor' \in Idx /\ Size # 0
        BY <3>1, <4>1, <4>2 DEF CursorAfter
      <4>4. waited' \in [Idx -> Nat] /\ due' \in [Idx -> Nat]
        BY <3>1, <4>1 DEF PoolTypeOK
      <4>5. QED
        BY <3>1, <4>3, <4>4, SizeFacts
    <3>2. CASE UNCHANGED <<cursor, waited, due>> /\ handed' = NoToken
      BY <3>2 DEF PoolTypeOK
    <3>3. QED
      BY <1>1, <3>1, <3>2 DEF Take
  <2>3. QED
    BY <2>1, <2>2 DEF PoolTypeOK, Size, Idx
<1>2. ASSUME NEW v \in Token, MarkBad(v) PROVE PoolTypeOK'
  <2>1. UNCHANGED <<ptr, cursor, waited, due, reloads>> /\ handed' = NoToken
    BY <1>2 DEF MarkBad, history
  <2>2. DOMAIN slot' = DOMAIN slot /\ slot' \in [DOMAIN slot -> Slot]
    <3>1. slot' \in [DOMAIN slot -> Slot]
      <4>1. ASSUME NEW i \in Idx, slot' = [slot EXCEPT ![ptr[i + 1]].cool = Cooldown]
            PROVE  slot' \in [DOMAIN slot -> Slot]
        <5>1. ptr[i + 1] \in DOMAIN slot
          BY SizeFacts
        <5>2. QED
          BY <1>0, <1>s, <4>1, <5>1 DEF Slot
      <4>2. QED
        BY <4>1, <1>s, <1>2 DEF MarkBad
    <3>2. QED
      BY <3>1
  <2>3. badFor' \in [Token -> Nat]
    BY <1>0, <1>2 DEF MarkBad, PoolTypeOK
  <2>4. QED
    BY <2>1, <2>2, <2>3 DEF PoolTypeOK, Size, Idx
<1>3. ASSUME NEW list \in TokenLists, SetTokens(list) PROVE PoolTypeOK'
  <2> DEFINE new  == 1 .. Len(list)
             home == [i \in new |-> IF list[i] \in Values
                                    THEN CHOOSE j \in new : list[j] = list[i]
                                    ELSE i]
  <2>1. list \in Seq(Token) /\ Len(list) \in Nat
    BY PoolAssumption, LenProperties
  <2>2. home \in [new -> new]
    OBVIOUS
  <2>3. \A i \in new : Carried(list[i]) \in Slot
    <3>1. SUFFICES ASSUME NEW i \in new PROVE Carried(list[i]) \in Slot
      OBVIOUS
    <3>2. list[i] \in Token
      BY <2>1, ElementOfSeq
    <3>3. CASE list[i] \in Values
      <4>1. (CHOOSE j \in Idx : FirstWith(j, list[i])) \in Idx
        BY <3>3, FirstExists
      <4>2. QED
        BY <3>3, <4>1, SizeFacts DEF Carried
    <3>4. CASE list[i] \notin Values
      BY <3>2, <3>4 DEF Carried, FreshSlot, Slot
    <3>5. QED
      BY <3>3, <3>4
  <2>4. /\ ptr' = home
        /\ slot' = [h \in {home[i] : i \in new} |-> Carried(list[h])]
        /\ cursor' = CursorWithin(Len(list))
        /\ badFor' = Remembered({list[i] : i \in new})
        /\ waited' = [i \in 0 .. Len(list) - 1 |-> SatOut(list[i + 1])]
        /\ due' = [i \in 0 .. Len(list) - 1 |-> Len(list) + RoundsOf(list[i + 1])]
        /\ reloads' = reloads + 1
        /\ handed' = NoToken
    BY <1>3 DEF SetTokens
  <2> HIDE DEF home
  <2>5. ptr' \in Seq(Nat \ {0}) /\ Size' = Len(list)
    <3>1. home \in [1 .. Len(list) -> Nat \ {0}]
      BY <2>1, <2>2
    <3>2. home \in Seq(Nat \ {0}) /\ Len(home) = Len(list)
      BY <2>1, <3>1, SeqDef
    <3>3. QED
      BY <2>4, <3>2 DEF Size
  <2>6. slot' \in [DOMAIN slot' -> Slot]
    BY <2>2, <2>3, <2>4
  <2>7. \A i \in 1 .. Len(ptr') : ptr'[i] \in DOMAIN slot'
    BY <2>2, <2>4, <2>5 DEF Size
  <2>8. cursor' \in (IF Size' = 0 THEN {0} ELSE Idx')
    BY <1>0, <2>1, <2>4, <2>5 DEF CursorWithin, Idx
  <2>9. badFor' \in [Token -> Nat]
    BY <2>4 DEF Remembered, PoolTypeOK
  <2>10. waited' \in [Idx' -> Nat] /\ due' \in [Idx' -> Nat]
    <3>1. \A v : SatOut(v) \in Nat /\ RoundsOf(v) \in Nat
      BY HistoryCarried
    <3>2. QED
      BY <2>1, <2>4, <2>5, <3>1 DEF Idx
  <2>11. reloads' \in Nat
    BY <2>4 DEF PoolTypeOK
  <2>12. QED
    BY <2>4, <2>5, <2>6, <2>7, <2>8, <2>9, <2>10, <2>11 DEF PoolTypeOK
<1>4. ASSUME NEW r \in Renewals, Replace(r[1], r[2]) PROVE PoolTypeOK'
  <2>1. UNCHANGED <<ptr, cursor, waited, due, reloads>> /\ handed' = NoToken
    BY <1>4 DEF Replace, history
  <2>2. r[2] \in Token
    BY PoolAssumption
  <2>3. DOMAIN slot' = DOMAIN slot /\ slot' \in [DOMAIN slot -> Slot]
    <3>1. FreshSlot(r[2]) \in Slot
      BY <2>2 DEF FreshSlot, Slot
    <3>2. slot' \in [DOMAIN slot -> Slot]
      <4>1. ASSUME NEW i \in Idx, slot' = [slot EXCEPT ![ptr[i + 1]] = FreshSlot(r[2])]
            PROVE  slot' \in [DOMAIN slot -> Slot]
        <5>1. ptr[i + 1] \in DOMAIN slot
          BY SizeFacts
        <5>2. QED
          BY <3>1, <1>s, <4>1, <5>1
      <4>2. QED
        BY <4>1, <1>s, <1>4 DEF Replace, Renewed
    <3>3. QED
      BY <3>2
  <2>4. badFor' \in [Token -> Nat]
    BY <1>4 DEF Replace, Remembered, PoolTypeOK
  <2>5. QED
    BY <2>1, <2>3, <2>4 DEF PoolTypeOK, Size, Idx
<1>5. CASE PoolTick
  <2>1. DOMAIN slot' = DOMAIN slot /\ slot' \in [DOMAIN slot -> Slot]
    <3>1. slot' \in [DOMAIN slot -> Slot]
      BY <1>5, <1>s DEF PoolTick, Slot, Less
    <3>2. QED
      BY <3>1
  <2>2. badFor' \in [Token -> Nat]
    BY <1>5 DEF PoolTick, PoolTypeOK, Less
  <2>3. QED
    BY <1>5, <2>1, <2>2 DEF PoolTick, PoolTypeOK, Size, Idx, history
<1>6. CASE UNCHANGED poolVars
  BY <1>6 DEF poolVars, history, PoolTypeOK, Size, Idx
<1>7. QED
  BY <1>1, <1>2, <1>3, <1>4, <1>5, <1>6 DEF PoolNext

\* Whatever tokens are reloaded, renewed or marked bad, no position of the
\* pool points to a slot that is gone and the cursor lies inside the pool.
THEOREM TypeCorrect == PoolSpec => []PoolTypeOK
BY TypeInit, TypeStep, PTL DEF PoolSpec

-----------------------------------------------------------------------------
\* Rotation.  NoTokenStarves is not inductive: nothing in it bounds how long a
\* token has still to wait.  The sum of what it has waited and its position's
\* distance from the cursor is: a Take makes up for what it adds to the one by
\* what it takes from the other, and a reload adds less than a round to it.
Rotation == \A i \in Idx : waited[i] + Steps(i) < due[i]

\* Distances from the cursor are within the pool and tell positions apart.
LEMMA StepsFacts ==
  ASSUME PoolTypeOK
  PROVE  /\ \A i \in Idx : Steps(i) \in 0 .. Size - 1
         /\ \A i, j \in Idx : Steps(i) = Steps(j) => i = j
<1>1. Size \in Nat /\ Idx = 0 .. Size - 1
  BY SizeFacts
<1>2. Size # 0 => cursor \in 0 .. Size - 1
  BY <1>1 DEF PoolTypeOK
<1>3. QED
  BY <1>1, <1>2 DEF Steps

\* After a Take the cursor stands just past the position handed out, and every
\* position that was beyond it is that much nearer.
LEMMA StepsAfterTake ==
  ASSUME PoolTypeOK, NEW i \in Idx, cursor' = CursorAfter(i), UNCHANGED ptr
  PROVE  /\ \A j \in Idx : Steps(j)' \in 0 .. Size - 1
         /\ \A j \in Idx : Steps(i) < Steps(j) => Steps(j)' = Steps(j) - Steps(i) - 1
<1>1. Size \in Nat /\ Idx = 0 .. Size - 1 /\ Size # 0
  BY SizeFacts
<1>2. cursor \in 0 .. Size - 1
  BY <1>1 DEF PoolTypeOK
<1>3. CursorAfter(i) = IF i + 1 = Size THEN 0 ELSE i + 1
  BY <1>1 DEF CursorAfter
<1>4. \A j \in Idx : Steps(j)' = IF j >= cursor' THEN j - cursor' ELSE j + Size - cursor'
  BY DEF Steps, Size
<1>5. QED
  BY <1>1, <1>2, <1>3, <1>4 DEF Steps

LEMMA RotationInit == PoolInit => Rotation
<1> SUFFICES ASSUME PoolInit PROVE Rotation
  OBVIOUS
<1>1. PoolTypeOK
  BY TypeInit
<1>2. \A i \in Idx : waited[i] = 0 /\ due[i] = Size
  <2>1. PICK list \in TokenLists :
          /\ ptr    = [i \in 1 .. Len(list) |-> i]
          /\ waited = [i \in 0 .. Len(list) - 1 |-> 0]
          /\ due    = [i \in 0 .. Len(list) - 1 |-> Len(list)]
    BY DEF PoolInit
  <2>2. Len(list) \in Nat
    BY PoolAssumption, LenProperties
  <2>3. QED
    BY <2>1, <2>2 DEF Idx, Size
<1>3. QED
  BY <1>1, <1>2, SizeFacts, StepsFacts DEF Rotation

LEMMA RotationStep == PoolTypeOK /\ PoolTypeOK' /\ Rotation /\ [PoolNext]_poolVars => Rotation'
<1> SUFFICES ASSUME PoolTypeOK, PoolTypeOK', Rotation, [PoolNext]_poolVars PROVE Rotation'
  OBVIOUS
<1>0. /\ Size \in Nat /\ Idx = 0 .. Size - 1
      /\ waited \in [Idx -> Nat] /\ due \in [Idx -> Nat]
  BY SizeFacts DEF PoolTypeOK
<1>1. ASSUME UNCHANGED <<ptr, cursor, waited, due>> PROVE Rotation'
  BY <1>1 DEF Rotation, Idx, Size, Steps
<1>2. CASE Take
  <2>1. CASE UNCHANGED <<cursor, waited, due>>
    BY <1>1, <1>2, <2>1 DEF Take
  <2>2. ASSUME NEW i \in Idx,
               NextHealthy(i),
               cursor' = CursorAfter(i),
               waited' = [j \in Idx |-> IF j = i \/ Cooling(j)
                                       THEN 0 ELSE waited[j] + 1],
               due' = [j \in Idx |-> IF j = i \/ Cooling(j)
                                    THEN Size ELSE due[j]]
        PROVE  Rotation'
    <3>1. UNCHANGED ptr
      BY <1>2 DEF Take
    <3>2. Idx' = Idx /\ Size' = Size
      BY <3>1 DEF Idx, Size
    <3>3. ASSUME NEW j \in Idx PROVE waited'[j] + Steps(j)' < due'[j]
      <4>1. Steps(j)' \in 0 .. Size - 1
        BY <2>2, <3>1, StepsAfterTake
      <4>2. CASE j = i \/ Cooling(j)
        BY <1>0, <2>2, <4>1, <4>2
      <4>3. CASE ~ (j = i \/ Cooling(j))
        <5>1. Steps(i) < Steps(j)
          BY <1>0, <2>2, <4>3, StepsFacts DEF NextHealthy
        <5>2. Steps(j)' = Steps(j) - Steps(i) - 1
          BY <2>2, <3>1, <5>1, StepsAfterTake
        <5>3. waited'[j] = waited[j] + 1 /\ due'[j] = due[j]
          BY <2>2, <4>3
        <5>4. waited[j] + Steps(j) < due[j] /\ waited[j] \in Nat /\ due[j] \in Nat
          BY <1>0 DEF Rotation
        <5>5. Steps(i) \in 0 .. Size - 1 /\ Steps(j) \in 0 .. Size - 1
          BY StepsFacts
        <5>6. QED
          BY <1>0, <5>2, <5>3, <5>4, <5>5
      <4>4. QED
        BY <4>2, <4>3
    <3>4. QED
      BY <3>2, <3>3 DEF Rotation
  <2>3. QED
    BY <1>2, <2>1, <2>2 DEF Take
<1>3. ASSUME NEW list \in TokenLists, SetTokens(list) PROVE Rotation'
  <2>1. PICK n \in Nat : Size' = n /\ Idx' = 0 .. n - 1
    <3>1. ptr' \in Seq(Nat \ {0})
      BY DEF PoolTypeOK
    <3>2. QED
      BY <3>1, LenProperties DEF Size, Idx
  <2>2. n # 0 => cursor' \in 0 .. n - 1
    BY <2>1 DEF PoolTypeOK
  <2>3. list \in Seq(Token) /\ n = Len(list)
    <3>1. list \in Seq(Token) /\ Len(list) \in Nat
      BY PoolAssumption, LenProperties
    <3>2. DOMAIN waited' = 0 .. Len(list) - 1 /\ DOMAIN waited' = 0 .. n - 1
      BY <1>3, <2>1 DEF SetTokens, PoolTypeOK
    <3>3. QED
      BY <2>1, <3>1, <3>2
  <2>4. ASSUME NEW i \in 0 .. n - 1 PROVE waited'[i] + Steps(i)' < due'[i]
    <3>1. Steps(i)' \in 0 .. n - 1
      <4>1. Steps(i)' = IF i >= cursor' THEN i - cursor' ELSE i + n - cursor'
        BY <2>1 DEF Steps
      <4>2. QED
        BY <2>1, <2>2, <4>1
    <3> DEFINE v == list[i + 1]
    <3>2. waited'[i] = SatOut(v) /\ due'[i] = n + RoundsOf(v)
      BY <1>3, <2>3 DEF SetTokens
    <3>3. SatOut(v) \in Nat /\ RoundsOf(v) \in Nat
      BY HistoryCarried
    <3>4. SatOut(v) <= RoundsOf(v)
      <4>1. CASE v \in Values
        <5>1. PICK k \in Idx : SatOut(v) = waited[k] /\ RoundsOf(v) = due[k]
          BY <4>1, HistoryCarried
        <5>2. waited[k] + Steps(k) < due[k] /\ Steps(k) \in Nat
          BY StepsFacts, <1>0 DEF Rotation
        <5>3. QED
          BY <1>0, <5>1, <5>2
      <4>2. CASE v \notin Values
        BY <4>2, HistoryCarried
      <4>3. QED
        BY <4>1, <4>2
    <3>5. QED
      BY <2>1, <3>1, <3>2, <3>3, <3>4
  <2>5. QED
    BY <2>1, <2>4 DEF Rotation
<1>4. ASSUME NEW v \in Token, MarkBad(v) PROVE Rotation'
  BY <1>1, <1>4 DEF MarkBad, history
<1>5. ASSUME NEW r \in Renewals, Replace(r[1], r[2]) PROVE Rotation'
  BY <1>1, <1>5 DEF Replace, history
<1>6. CASE PoolTick
  BY <1>1, <1>6 DEF PoolTick, history
<1>7. CASE UNCHANGED poolVars
  BY <1>1, <1>7 DEF poolVars, history
<1>8. QED
  BY <1>2, <1>3, <1>4, <1>5, <1>6, <1>7 DEF PoolNext

\* In every pool, a credential that stays healthy is handed out within a round,
\* and each reload that comes between puts that off by at most one more.
THEOREM NoTokenStarvesEver == PoolSpec => []NoTokenStarves
<1>1. PoolTypeOK /\ Rotation => NoTokenStarves
  <2> SUFFICES ASSUME PoolTypeOK, Rotation, NEW i \in Idx PROVE waited[i] < due[i]
    BY DEF NoTokenStarves
  <2>1. waited[i] \in Nat /\ due[i] \in Nat /\ Steps(i) \in 0 .. Size - 1 /\ Size \in Nat
    BY SizeFacts, StepsFacts DEF PoolTypeOK
  <2>2. QED
    BY <2>1 DEF Rotation
<1>2. QED
  BY <1>1, TypeInit, TypeStep, RotationInit, RotationStep, PTL DEF PoolSpec

-----------------------------------------------------------------------------
\* Cooldown.  MarkBad reaches only the first slot with a value, so the value
\* has to determine its slot; and SetTokens looks a value up in the old pool,
\* so what is remembered of a value has to be what its slot still owes.
DistinctValues == \A i, j \in Idx : At(i).value = At(j).value => i = j
OwedBySlot     == \A i \in Idx : badFor[At(i).value] <= At(i).cool
AbsentOweless  == \A v \in Token \ Values : badFor[v] = 0

CoolInv == DistinctValues /\ OwedBySlot /\ AbsentOweless /\ BadTokenRests

LEMMA CoolInit == DistinctLists /\ PoolInit => CoolInv
<1> SUFFICES ASSUME DistinctLists, PoolInit PROVE CoolInv
  OBVIOUS
<1>1. PICK list \in TokenLists :
        /\ ptr    = [i \in 1 .. Len(list) |-> i]
        /\ slot   = [i \in 1 .. Len(list) |-> FreshSlot(list[i])]
        /\ handed = NoToken
        /\ badFor = [v \in Token |-> 0]
  BY DEF PoolInit
<1>2. list \in Seq(Token) /\ Len(list) \in Nat
  BY PoolAssumption, LenProperties
<1>3. Idx = 0 .. Len(list) - 1
  BY <1>1, <1>2 DEF Idx, Size
<1>4. \A i \in Idx : /\ At(i) = FreshSlot(list[i + 1])
                     /\ i + 1 \in 1 .. Len(list)
                     /\ list[i + 1] \in Token
  BY <1>1, <1>2, <1>3, ElementOfSeq DEF At
<1>5. DistinctValues
  BY <1>2, <1>3, <1>4 DEF DistinctValues, DistinctLists, FreshSlot
<1>6. OwedBySlot
  BY <1>1, <1>4 DEF OwedBySlot, FreshSlot
<1>7. AbsentOweless /\ BadTokenRests
  BY <1>1 DEF AbsentOweless, BadTokenRests
<1>8. QED
  BY <1>5, <1>6, <1>7 DEF CoolInv

\* What a reload leaves at each position: the listed value, with the slot it
\* had if it was in the pool.
LEMMA Reloaded ==
  ASSUME PoolTypeOK, NEW list \in TokenLists, SetTokens(list)
  PROVE  /\ Idx' = 0 .. Len(list) - 1
         /\ Len(list) \in Nat
         /\ \A i \in Idx' : /\ At(i)' = Carried(list[i + 1])
                            /\ At(i)'.value = list[i + 1]
                            /\ list[i + 1] \in Token
                            /\ i + 1 \in 1 .. Len(list)
<1> DEFINE new  == 1 .. Len(list)
           home == [i \in new |-> IF list[i] \in Values
                                  THEN CHOOSE j \in new : list[j] = list[i]
                                  ELSE i]
<1>1. list \in Seq(Token) /\ Len(list) \in Nat
  BY PoolAssumption, LenProperties
<1>2. \A i \in new : home[i] \in new /\ list[home[i]] = list[i]
  OBVIOUS
<1>3. /\ ptr' = home
      /\ slot' = [h \in {home[i] : i \in new} |-> Carried(list[h])]
  BY DEF SetTokens
<1>h. home \in [1 .. Len(list) -> Nat]
  BY <1>1, <1>2
<1> HIDE DEF home
<1>4. Len(ptr') = Len(list)
  BY <1>1, <1>h, <1>3, SeqDef, LenProperties
<1>5. Idx' = 0 .. Len(list) - 1
  BY <1>4 DEF Idx, Size
<1>6. \A v \in Token : Carried(v).value = v
  <2> SUFFICES ASSUME NEW v \in Token PROVE Carried(v).value = v
    OBVIOUS
  <2>1. CASE v \in Values
    <3>1. PICK i \in Idx : i = (CHOOSE j \in Idx : FirstWith(j, v)) /\ FirstWith(i, v)
      BY <2>1, FirstExists
    <3>2. QED
      BY <2>1, <3>1 DEF Carried, FirstWith
  <2>2. CASE v \notin Values
    BY <2>2 DEF Carried, FreshSlot
  <2>3. QED
    BY <2>1, <2>2
<1>7. ASSUME NEW i \in 0 .. Len(list) - 1
      PROVE  /\ At(i)' = Carried(list[i + 1])
             /\ list[i + 1] \in Token
             /\ i + 1 \in 1 .. Len(list)
  <2>1. i + 1 \in new
    BY <1>1
  <2>2. slot'[home[i + 1]] = Carried(list[home[i + 1]])
    BY <1>3, <2>1
  <2>3. At(i)' = slot'[ptr'[i + 1]]
    BY DEF At
  <2>4. list[i + 1] \in Token
    BY <1>1, <2>1, ElementOfSeq
  <2>5. QED
    BY <1>2, <1>3, <2>1, <2>2, <2>3, <2>4
<1>8. QED
  BY <1>1, <1>5, <1>6, <1>7

\* Distinct values sit in distinct slots, so a change of one slot is seen at
\* one position only.
LEMMA OnePosition ==
  ASSUME PoolTypeOK, DistinctValues, NEW i \in Idx, NEW e,
         slot' = [slot EXCEPT ![ptr[i + 1]] = e], UNCHANGED ptr
  PROVE  /\ Idx' = Idx
         /\ At(i)' = e
         /\ \A j \in Idx \ {i} : At(j)' = At(j)
<1>1. Idx' = Idx /\ \A j \in Idx : At(j)' = slot'[ptr[j + 1]]
  BY DEF Idx, Size, At
<1>2. \A j \in Idx : ptr[j + 1] \in DOMAIN slot
  BY SizeFacts
<1>3. \A j \in Idx \ {i} : ptr[j + 1] # ptr[i + 1]
  BY DEF DistinctValues, At
<1>4. QED
  BY <1>1, <1>2, <1>3 DEF At

LEMMA CoolStep ==
  DistinctLists /\ PoolTypeOK /\ CoolInv /\ [PoolNext]_poolVars => CoolInv'
<1> SUFFICES ASSUME DistinctLists, PoolTypeOK, CoolInv, [PoolNext]_poolVars PROVE CoolInv'
  OBVIOUS
<1>0. /\ \A i \in Idx : /\ At(i).value \in Token /\ At(i).cool \in Nat
                        /\ At(i).value \in Values
                        /\ At(i) \in Slot
      /\ badFor \in [Token -> Nat] /\ Cooldown \in Nat /\ NoToken \notin Token
  BY SizeFacts, PoolAssumption DEF PoolTypeOK, Values
<1>1. ASSUME UNCHANGED <<ptr, slot, badFor>>
      PROVE  (DistinctValues /\ OwedBySlot /\ AbsentOweless)'
  BY <1>1 DEF CoolInv, DistinctValues, OwedBySlot, AbsentOweless, Values, Idx, Size, At
<1>2. ASSUME handed' = NoToken PROVE BadTokenRests'
  BY <1>2 DEF BadTokenRests
<1>3. CASE Take
  <2>1. UNCHANGED <<ptr, slot, badFor>>
    BY <1>3 DEF Take
  <2>2. ASSUME NEW i \in Idx, NextHealthy(i), handed' = At(i).value
        PROVE  BadTokenRests'
    <3>1. At(i).cool = 0
      BY <1>0, <2>2 DEF NextHealthy, Cooling
    <3>2. badFor[At(i).value] = 0
      BY <1>0, <3>1 DEF CoolInv, OwedBySlot
    <3>3. QED
      BY <2>1, <2>2, <3>2 DEF BadTokenRests
  <2>3. BadTokenRests'
    BY <1>2, <1>3, <2>2 DEF Take
  <2>4. QED
    BY <1>1, <2>1, <2>3 DEF CoolInv
<1>4. ASSUME NEW v \in Token, MarkBad(v) PROVE CoolInv'
  <2>1. ASSUME NEW i \in Idx, FirstWith(i, v),
               slot'   = [slot EXCEPT ![ptr[i + 1]].cool = Cooldown],
               badFor' = [badFor EXCEPT ![v] = Cooldown]
        PROVE  (DistinctValues /\ OwedBySlot /\ AbsentOweless)'
    <3> DEFINE e == [At(i) EXCEPT !.cool = Cooldown]
    <3>1. /\ slot' = [slot EXCEPT ![ptr[i + 1]] = e]
          /\ UNCHANGED ptr
          /\ At(i).value = v
      BY <1>4, <2>1 DEF MarkBad, FirstWith, At
    <3>2. e.value = v /\ e.cool = Cooldown
      BY <1>0, <3>1 DEF Slot
    <3> HIDE DEF e
    <3>3. Idx' = Idx /\ At(i)' = e /\ \A j \in Idx \ {i} : At(j)' = At(j)
      BY <3>1, OnePosition DEF CoolInv
    <3>4. \A j \in Idx : (At(j).value)' = At(j).value
      BY <3>1, <3>2, <3>3
    <3>5. DistinctValues' /\ Values' = Values
      BY <3>3, <3>4 DEF CoolInv, DistinctValues, Values
    <3>6. OwedBySlot'
      <4>1. ASSUME NEW j \in Idx PROVE badFor'[(At(j).value)'] <= (At(j).cool)'
        <5>1. CASE j = i
          BY <1>0, <2>1, <3>1, <3>2, <3>3, <5>1
        <5>2. CASE j # i
          <6>1. At(j).value # v
            BY <3>1, <5>2 DEF CoolInv, DistinctValues
          <6>2. QED
            BY <1>0, <2>1, <3>3, <5>2, <6>1 DEF CoolInv, OwedBySlot
        <5>3. QED
          BY <5>1, <5>2
      <4>2. QED
        BY <3>3, <4>1 DEF OwedBySlot
    <3>7. AbsentOweless'
      BY <1>0, <2>1, <3>1, <3>5 DEF CoolInv, AbsentOweless
    <3>8. QED
      BY <3>5, <3>6, <3>7
  <2>2. (DistinctValues /\ OwedBySlot /\ AbsentOweless)'
    BY <1>1, <1>4, <2>1 DEF MarkBad
  <2>3. handed' = NoToken
    BY <1>4 DEF MarkBad
  <2>4. QED
    BY <1>2, <2>2, <2>3 DEF CoolInv
<1>5. ASSUME NEW list \in TokenLists, SetTokens(list) PROVE CoolInv'
  <2>1. /\ Idx' = 0 .. Len(list) - 1
        /\ Len(list) \in Nat
        /\ \A i \in Idx' : /\ At(i)' = Carried(list[i + 1])
                           /\ At(i)'.value = list[i + 1]
                           /\ list[i + 1] \in Token
                           /\ i + 1 \in 1 .. Len(list)
    BY <1>5, Reloaded
  <2>2. DistinctValues'
    BY <2>1 DEF DistinctValues, DistinctLists
  <2>3. badFor' = Remembered({list[i] : i \in 1 .. Len(list)}) /\ handed' = NoToken
    BY <1>5 DEF SetTokens
  <2>4. AbsentOweless'
    <3>1. Values' = {list[i] : i \in 1 .. Len(list)}
      <4>1. Values' = {(At(i).value)' : i \in Idx'}
        BY DEF Values
      <4>2. Values' = {list[i + 1] : i \in 0 .. Len(list) - 1}
        BY <2>1, <4>1
      <4>3. \A i \in 1 .. Len(list) : i - 1 \in 0 .. Len(list) - 1 /\ (i - 1) + 1 = i
        BY <2>1
      <4>4. QED
        BY <2>1, <4>2, <4>3
    <3>2. QED
      BY <2>3, <3>1 DEF AbsentOweless, Remembered
  <2>5. ASSUME NEW v \in Token PROVE badFor[v] <= Carried(v).cool
    <3>1. CASE v \in Values
      <4>1. PICK i \in Idx : i = (CHOOSE j \in Idx : FirstWith(j, v)) /\ FirstWith(i, v)
        BY <3>1, FirstExists
      <4>2. QED
        BY <3>1, <4>1 DEF Carried, FirstWith, CoolInv, OwedBySlot
    <3>2. CASE v \notin Values
      BY <3>2 DEF Carried, FreshSlot, CoolInv, AbsentOweless
    <3>3. QED
      BY <3>1, <3>2
  <2>6. OwedBySlot'
    <3>1. ASSUME NEW i \in Idx' PROVE badFor'[At(i)'.value] <= At(i)'.cool
      <4>1. /\ list[i + 1] \in Token /\ At(i)'.value = list[i + 1]
            /\ At(i)'.cool = Carried(list[i + 1]).cool
        BY <2>1
      <4>2. badFor'[list[i + 1]] = badFor[list[i + 1]]
        BY <2>1, <2>3, <4>1 DEF Remembered
      <4>3. QED
        BY <2>5, <4>1, <4>2
    <3>2. QED
      BY <3>1 DEF OwedBySlot
  <2>7. QED
    BY <1>2, <2>2, <2>3, <2>4, <2>6 DEF CoolInv
<1>6. ASSUME NEW r \in Renewals, r[2] \notin Values, Replace(r[1], r[2]) PROVE CoolInv'
  <2>0. r[1] \in Token /\ r[2] \in Token
    BY PoolAssumption
  <2>1. ASSUME NEW i \in Idx, FirstWith(i, r[1]),
               slot'   = [slot EXCEPT ![ptr[i + 1]] = FreshSlot(r[2])],
               badFor' = Remembered({At(j).value : j \in Idx} \ {r[1], r[2]})
        PROVE  (DistinctValues /\ OwedBySlot /\ AbsentOweless)'
    <3>1. UNCHANGED ptr /\ At(i).value = r[1]
      BY <1>6, <2>1 DEF Replace, FirstWith
    <3>2. /\ Idx' = Idx /\ At(i)' = FreshSlot(r[2])
          /\ \A j \in Idx \ {i} : At(j)' = At(j)
      BY <2>1, <3>1, OnePosition DEF CoolInv
    <3>3. At(i)'.value = r[2] /\ At(i)'.cool = 0
      BY <3>2 DEF FreshSlot
    <3>4. badFor' = [v \in Token |-> IF v \in Values \ {r[1], r[2]} THEN badFor[v] ELSE 0]
      BY <2>1 DEF Remembered, Values
    <3>5. \A j \in Idx \ {i} : At(j).value # r[1] /\ At(j).value # r[2]
      BY <1>0, <1>6, <3>1 DEF CoolInv, DistinctValues
    <3>6. DistinctValues'
      BY <3>2, <3>3, <3>5 DEF CoolInv, DistinctValues
    <3>7. OwedBySlot'
      <4>1. ASSUME NEW j \in Idx PROVE badFor'[At(j)'.value] <= At(j)'.cool
        <5>1. CASE j = i
          BY <2>0, <3>3, <3>4, <5>1
        <5>2. CASE j # i
          BY <1>0, <3>2, <3>4, <3>5, <5>2 DEF CoolInv, OwedBySlot
        <5>3. QED
          BY <5>1, <5>2
      <4>2. QED
        BY <3>2, <4>1 DEF OwedBySlot
    <3>8. AbsentOweless'
      <4>1. ASSUME NEW v \in Values \ {r[1], r[2]} PROVE v \in Values'
        <5>1. PICK j \in Idx : At(j).value = v
          BY DEF Values
        <5>2. j # i
          BY <3>1, <5>1
        <5>3. QED
          BY <3>2, <5>1, <5>2 DEF Values
      <4>2. QED
        BY <3>4, <4>1 DEF AbsentOweless
    <3>9. QED
      BY <3>6, <3>7, <3>8
  <2>2. (DistinctValues /\ OwedBySlot /\ AbsentOweless)'
    BY <1>1, <1>6, <2>1 DEF Replace, Renewed
  <2>3. handed' = NoToken
    BY <1>6 DEF Replace
  <2>4. QED
    BY <1>2, <2>2, <2>3 DEF CoolInv
<1>7. CASE PoolTick
  <2>1. /\ Idx' = Idx
        /\ \A i \in Idx : At(i)' = [At(i) EXCEPT !.cool = Less(@)]
        /\ badFor' = [v \in Token |-> Less(badFor[v])]
        /\ handed' = NoToken
    BY <1>7, SizeFacts DEF PoolTick, Idx, Size, At
  <2>2. \A i \in Idx : At(i)'.value = At(i).value /\ At(i)'.cool = Less(At(i).cool)
    BY <1>0, <2>1 DEF Slot
  <2>3. DistinctValues' /\ Values' = Values
    BY <2>1, <2>2 DEF CoolInv, DistinctValues, Values
  <2>4. OwedBySlot'
    BY <1>0, <2>1, <2>2 DEF CoolInv, OwedBySlot, Less
  <2>5. AbsentOweless'
    BY <2>1, <2>3 DEF CoolInv, AbsentOweless, Less
  <2>6. QED
    BY <1>2, <2>1, <2>3, <2>4, <2>5 DEF CoolInv
<1>8. CASE UNCHANGED poolVars
  BY <1>1, <1>8 DEF poolVars, history, CoolInv, BadTokenRests
<1>9. QED
  BY <1>3, <1>4, <1>5, <1>6, <1>7, <1>8 DEF PoolNext

\* As long as no credential is listed twice, one that was marked bad is never
\* handed out before its cooldown has elapsed, whatever the operator reloads.
THEOREM BadTokenRestsEver ==
  ASSUME DistinctLists
  PROVE  PoolSpec => []BadTokenRests
<1>1. PoolInit => PoolTypeOK /\ CoolInv
  BY TypeInit, CoolInit
<1>2. PoolTypeOK /\ CoolInv /\ [PoolNext]_poolVars => (PoolTypeOK /\ CoolInv)'
  BY TypeStep, CoolStep
<1>3. CoolInv => BadTokenRests
  BY DEF CoolInv
<1>4. QED
  BY <1>1, <1>2, <1>3, PTL DEF PoolSpec

-----------------------------------------------------------------------------
\* The refinement of TokenService.  With one slot per value, what the service
\* calls the rest of a value is the cooldown of the slot it sits in.
RestIsCool ==
  /\ RestOf \in [Token -> Nat]
  /\ \A i \in Idx : RestOf[At(i).value] = At(i).cool
  /\ \A v \in Token \ Values : RestOf[v] = 0

LEMMA RestFacts == PoolTypeOK /\ CoolInv => RestIsCool
<1> SUFFICES ASSUME PoolTypeOK, CoolInv PROVE RestIsCool
  OBVIOUS
<1>1. \A i \in Idx : At(i).value \in Values /\ At(i).value \in Token /\ At(i).cool \in Nat
  BY SizeFacts DEF Values
<1>2. ASSUME NEW v \in Token, v \in Values
      PROVE  \E i \in Idx : At(i).value = v /\ RestOf[v] = At(i).cool
  <2>1. PICK i \in Idx : i = (CHOOSE j \in Idx : FirstWith(j, v)) /\ FirstWith(i, v)
    BY <1>2, FirstExists
  <2>2. QED
    BY <1>2, <2>1 DEF RestOf, FirstWith
<1>3. ASSUME NEW i \in Idx PROVE RestOf[At(i).value] = At(i).cool
  <2>1. PICK j \in Idx : At(j).value = At(i).value /\ RestOf[At(i).value] = At(j).cool
    BY <1>1, <1>2
  <2>2. j = i
    BY <2>1 DEF CoolInv, DistinctValues
  <2>3. QED
    BY <2>1, <2>2
<1>4. \A v \in Token \ Values : RestOf[v] = 0
  BY DEF RestOf
<1>5. ASSUME NEW v \in Token PROVE RestOf[v] \in Nat
  <2>1. CASE v \in Values
    BY <1>1, <1>2, <2>1
  <2>2. CASE v \notin Values
    BY <1>4, <2>2
  <2>3. QED
    BY <2>1, <2>2
<1>6. QED
  BY <1>3, <1>4, <1>5 DEF RestIsCool, RestOf

LEMMA ServiceInit == DistinctLists /\ PoolInit => Service!Init
<1> SUFFICES ASSUME DistinctLists, PoolInit PROVE Service!Init
  OBVIOUS
<1>1. PoolTypeOK /\ CoolInv /\ RestIsCool
  BY TypeInit, CoolInit, RestFacts
<1>2. PICK list \in TokenLists :
        /\ ptr    = [i \in 1 .. Len(list) |-> i]
        /\ slot   = [i \in 1 .. Len(list) |-> FreshSlot(list[i])]
        /\ handed = NoToken
        /\ call   = << >>
  BY DEF PoolInit
<1>3. list \in Seq(Token) /\ Len(list) \in Nat
  BY PoolAssumption, LenProperties
<1>4. Idx = 0 .. Len(list) - 1
  BY <1>2, <1>3 DEF Idx, Size
<1>5. \A i \in Idx : At(i) = FreshSlot(list[i + 1]) /\ i + 1 \in 1 .. Len(list)
  BY <1>2, <1>3, <1>4 DEF At
<1>6. \A i \in Idx : At(i).value = list[i + 1] /\ At(i).cool = 0
  BY <1>5 DEF FreshSlot
<1>7. Values = ListedIn(list)
  <2>1. \A i \in 1 .. Len(list) : i - 1 \in Idx /\ (i - 1) + 1 = i
    BY <1>3, <1>4
  <2>2. QED
    BY <1>5, <1>6, <2>1 DEF Values, ListedIn
<1>8. \A v \in Token : RestOf[v] = 0
  BY <1>1, <1>6 DEF RestIsCool, Values
<1>9. RestOf = [v \in Token |-> 0]
  BY <1>1, <1>8 DEF RestIsCool
<1>10. QED
  BY <1>2, <1>7, <1>9 DEF Service!Init

LEMMA ServiceStep ==
  /\ DistinctLists /\ PoolTypeOK /\ CoolInv /\ RestIsCool
  /\ PoolTypeOK' /\ RestIsCool' /\ [PoolNext]_poolVars
  => [Service!Next]_(Service!serviceVars)
<1> SUFFICES ASSUME DistinctLists, PoolTypeOK, CoolInv, RestIsCool,
                    PoolTypeOK', RestIsCool', [PoolNext]_poolVars
             PROVE  [Service!Next]_(Service!serviceVars)
  OBVIOUS
<1>0. /\ \A i \in Idx : /\ At(i).value \in Token /\ At(i).cool \in Nat
                        /\ At(i).value \in Values
                        /\ At(i) \in Slot
      /\ RestOf \in [Token -> Nat] /\ RestOf' \in [Token -> Nat]
      /\ Values \subseteq Token
      /\ Cooldown \in Nat
  BY SizeFacts, PoolAssumption DEF Values, RestIsCool
<1>1. \A v \in Values : \E i \in Idx : At(i).value = v /\ RestOf[v] = At(i).cool
  BY <1>0 DEF Values, RestIsCool
<1>2. ASSUME UNCHANGED <<ptr, slot>> PROVE UNCHANGED <<Values, RestOf>>
  BY <1>2 DEF Values, RestOf, FirstWith, Idx, Size, At
<1>3. CASE Take
  <2>1. UNCHANGED <<Values, RestOf>> /\ call' = <<"take">>
    BY <1>2, <1>3 DEF Take
  <2>2. ASSUME NEW i \in Idx, NextHealthy(i), handed' = At(i).value
        PROVE  Service!Take
    <3>1. At(i).cool = 0
      BY <1>0, <2>2 DEF NextHealthy, Cooling
    <3>2. At(i).value \in Values /\ RestOf[At(i).value] = 0
      BY <1>0, <3>1 DEF RestIsCool
    <3>3. QED
      BY <2>1, <2>2, <3>2 DEF Service!Take, Service!Ready
  <2>3. ASSUME \A i \in Idx : Cooling(i), handed' = NoToken
        PROVE  Service!Take
    BY <1>1, <2>1, <2>3 DEF Service!Take, Service!NoneReady, Cooling
  <2>4. Service!Take
    BY <1>3, <2>2, <2>3 DEF Take
  <2>5. QED
    BY <2>4 DEF Service!Next
<1>4. ASSUME NEW v \in Token, MarkBad(v) PROVE Service!MarkBad(v)
  <2>1. handed' = NoToken /\ call' = <<"markbad", v>> /\ UNCHANGED ptr
    BY <1>4 DEF MarkBad
  <2>2. ASSUME NEW i \in Idx, FirstWith(i, v),
               slot' = [slot EXCEPT ![ptr[i + 1]].cool = Cooldown]
        PROVE  Service!MarkBad(v)
    <3> DEFINE e == [At(i) EXCEPT !.cool = Cooldown]
    <3>1. slot' = [slot EXCEPT ![ptr[i + 1]] = e] /\ At(i).value = v
      BY <2>2 DEF FirstWith, At
    <3>2. e.value = v /\ e.cool = Cooldown
      BY <1>0, <3>1 DEF Slot
    <3> HIDE DEF e
    <3>3. Idx' = Idx /\ At(i)' = e /\ \A j \in Idx \ {i} : At(j)' = At(j)
      BY <2>1, <3>1, OnePosition DEF CoolInv
    <3>4. \A j \in Idx : (At(j).value)' = At(j).value
      BY <3>1, <3>2, <3>3
    <3>5. Values' = Values /\ v \in Values
      BY <1>0, <3>1, <3>3, <3>4 DEF Values
    <3>6. ASSUME NEW u \in Token
          PROVE  RestOf'[u] = IF u = v THEN Cooldown ELSE RestOf[u]
      <4>1. CASE u \notin Values
        BY <3>5, <4>1 DEF RestIsCool
      <4>2. CASE u \in Values
        <5>1. PICK j \in Idx : At(j).value = u /\ RestOf[u] = At(j).cool
          BY <1>1, <4>2
        <5>2. RestOf'[u] = (At(j).cool)'
          BY <3>3, <3>4, <5>1 DEF RestIsCool
        <5>3. j = i <=> u = v
          BY <3>1, <5>1 DEF CoolInv, DistinctValues
        <5>4. QED
          BY <3>2, <3>3, <5>1, <5>2, <5>3
      <4>3. QED
        BY <4>1, <4>2
    <3>7. RestOf' = [RestOf EXCEPT ![v] = IF v \in Values THEN Cooldown ELSE 0]
      BY <1>0, <3>5, <3>6
    <3>8. QED
      BY <2>1, <3>5, <3>7 DEF Service!MarkBad, Service!Cool
  <2>3. CASE v \notin Values /\ UNCHANGED slot
    <3>1. RestOf' = [RestOf EXCEPT ![v] = 0] /\ UNCHANGED Values
      BY <1>0, <1>2, <2>1, <2>3 DEF RestIsCool
    <3>2. QED
      BY <2>1, <2>3, <3>1 DEF Service!MarkBad, Service!Cool
  <2>4. QED
    BY <1>4, <2>2, <2>3 DEF MarkBad
<1>5. ASSUME NEW list \in TokenLists, SetTokens(list)
      PROVE  Service!SetTokens(ListedIn(list))
  <2>1. /\ Idx' = 0 .. Len(list) - 1
        /\ Len(list) \in Nat
        /\ \A i \in Idx' : /\ At(i)' = Carried(list[i + 1])
                           /\ At(i)'.value = list[i + 1]
                           /\ list[i + 1] \in Token
                           /\ i + 1 \in 1 .. Len(list)
    BY <1>5, Reloaded
  <2>2. Values' = ListedIn(list)
    <3>1. Values' = {list[i + 1] : i \in 0 .. Len(list) - 1}
      BY <2>1 DEF Values
    <3>2. \A i \in 1 .. Len(list) : i - 1 \in 0 .. Len(list) - 1 /\ (i - 1) + 1 = i
      BY <2>1
    <3>3. QED
      BY <2>1, <3>1, <3>2 DEF ListedIn
  <2>3. \A v \in Token : Carried(v).cool = RestOf[v]
    <3> SUFFICES ASSUME NEW v \in Token PROVE Carried(v).cool = RestOf[v]
      OBVIOUS
    <3>1. QED
      BY DEF Carried, RestOf, FreshSlot
  <2>4. ASSUME NEW u \in Token
        PROVE  RestOf'[u] = IF u \in ListedIn(list) THEN RestOf[u] ELSE 0
    <3>1. CASE u \notin ListedIn(list)
      BY <2>2, <3>1 DEF RestIsCool
    <3>2. CASE u \in ListedIn(list)
      <4>1. PICK i \in Idx' : (At(i).value)' = u
        BY <2>2, <3>2 DEF Values
      <4>2. RestOf'[u] = (At(i).cool)'
        BY <4>1 DEF RestIsCool
      <4>3. (At(i).cool)' = Carried(u).cool
        BY <2>1, <4>1
      <4>4. QED
        BY <2>3, <3>2, <4>2, <4>3
    <3>3. QED
      BY <3>1, <3>2
  <2>5. RestOf' = [u \in Token |-> IF u \in ListedIn(list) THEN RestOf[u] ELSE 0]
    BY <1>0, <2>4
  <2>6. QED
    BY <1>5, <2>2, <2>5 DEF SetTokens, Service!SetTokens, Service!Install
<1>6. ASSUME NEW r \in Renewals, r[2] \notin Values, Replace(r[1], r[2])
      PROVE  Service!Replace(r[1], r[2])
  <2>0. /\ r[1] \in Token /\ r[2] \in Token /\ UNCHANGED ptr
        /\ handed' = NoToken /\ call' = <<"replace", r[1], r[2]>>
    BY <1>6, PoolAssumption DEF Replace
  <2>1. ASSUME NEW i \in Idx, FirstWith(i, r[1]),
               slot' = [slot EXCEPT ![ptr[i + 1]] = FreshSlot(r[2])]
        PROVE  Service!Replace(r[1], r[2])
    <3>1. /\ Idx' = Idx /\ At(i)' = FreshSlot(r[2]) /\ At(i).value = r[1]
          /\ \A j \in Idx \ {i} : At(j)' = At(j)
      BY <2>0, <2>1, OnePosition DEF CoolInv, FirstWith
    <3>2. At(i)'.value = r[2] /\ At(i)'.cool = 0
      BY <3>1 DEF FreshSlot
    <3>3. \A j \in Idx \ {i} : At(j).value # r[1] /\ At(j).value # r[2]
      BY <1>0, <1>6, <3>1 DEF CoolInv, DistinctValues
    <3>4. r[1] \in Values /\ Values' = (Values \ {r[1]}) \cup {r[2]}
      BY <1>0, <3>1, <3>2, <3>3 DEF Values
    <3>5. ASSUME NEW u \in Token
          PROVE  RestOf'[u] = IF u \in {r[1], r[2]} THEN 0 ELSE RestOf[u]
      <4>1. CASE u = r[2]
        <5>1. RestOf'[r[2]] = (At(i).cool)'
          BY <3>1, <3>2 DEF RestIsCool
        <5>2. QED
          BY <3>2, <4>1, <5>1
      <4>2. CASE u # r[2] /\ u \notin Values \ {r[1]}
        BY <3>4, <4>2 DEF RestIsCool
      <4>3. CASE u # r[2] /\ u \in Values \ {r[1]}
        <5>1. PICK j \in Idx : At(j).value = u /\ RestOf[u] = At(j).cool
          BY <1>1, <4>3
        <5>2. j # i
          BY <3>1, <4>3, <5>1
        <5>3. RestOf'[u] = (At(j).cool)'
          BY <3>1, <5>1, <5>2 DEF RestIsCool
        <5>4. QED
          BY <3>1, <4>3, <5>1, <5>2, <5>3
      <4>4. QED
        BY <4>1, <4>2, <4>3
    <3>6. RestOf' = [RestOf EXCEPT ![r[1]] = 0, ![r[2]] = 0]
      BY <1>0, <2>0, <3>5
    <3>7. QED
      BY <2>0, <3>4, <3>6 DEF Service!Replace
  <2>2. CASE r[1] \notin Values /\ UNCHANGED slot
    BY <1>2, <2>0, <2>2 DEF Service!Replace
  <2>3. QED
    BY <1>6, <2>1, <2>2 DEF Replace, Renewed
<1>7. CASE PoolTick
  <2>1. /\ Idx' = Idx /\ handed' = NoToken /\ call' = << >>
        /\ \A i \in Idx : At(i)' = [At(i) EXCEPT !.cool = Less(@)]
    BY <1>7, SizeFacts DEF PoolTick, Idx, Size, At
  <2>2. \A i \in Idx : (At(i).value)' = At(i).value /\ (At(i).cool)' = Less(At(i).cool)
    BY <1>0, <2>1 DEF Slot
  <2>3. Values' = Values
    BY <2>1, <2>2 DEF Values
  <2>4. ASSUME NEW u \in Token PROVE RestOf'[u] = Less(RestOf[u])
    <3>1. CASE u \notin Values
      BY <2>3, <3>1 DEF RestIsCool, Less
    <3>2. CASE u \in Values
      <4>1. PICK j \in Idx : At(j).value = u /\ RestOf[u] = At(j).cool
        BY <1>1, <3>2
      <4>2. RestOf'[u] = (At(j).cool)'
        BY <2>1, <2>2, <4>1 DEF RestIsCool
      <4>3. QED
        BY <2>2, <4>1, <4>2
    <3>3. QED
      BY <3>1, <3>2
  <2>5. RestOf' = [u \in Token |-> IF RestOf[u] > 0 THEN RestOf[u] - 1 ELSE 0]
    BY <1>0, <2>4 DEF Less
  <2>6. Service!Tick
    BY <2>1, <2>3, <2>5 DEF Service!Tick, Service!Elapse
  <2>7. QED
    BY <2>6 DEF Service!Next
<1>8. CASE UNCHANGED poolVars
  BY <1>2, <1>8 DEF poolVars, history, Service!serviceVars
<1>9. QED
  BY <1>3, <1>4, <1>5, <1>6, <1>7, <1>8 DEF PoolNext, Service!Next

\* The round-robin pool of slots and pointers implements the service its
\* callers rely on, provided no credential is listed twice.
THEOREM PoolImplementsService ==
  ASSUME DistinctLists
  PROVE  PoolSpec => PoolIsService
<1>1. PoolInit => PoolTypeOK /\ CoolInv /\ Service!Init
  BY TypeInit, CoolInit, ServiceInit
<1>2. PoolTypeOK /\ CoolInv /\ [PoolNext]_poolVars => (PoolTypeOK /\ CoolInv)'
  BY TypeStep, CoolStep
<1>3. PoolTypeOK /\ CoolInv => RestIsCool
  BY RestFacts
<1>4. /\ PoolTypeOK /\ CoolInv /\ RestIsCool
      /\ PoolTypeOK' /\ RestIsCool' /\ [PoolNext]_poolVars
      => [Service!Next]_(Service!serviceVars)
  BY ServiceStep
<1>5. QED
  BY <1>1, <1>2, <1>3, <1>4, PTL DEF PoolSpec, PoolIsService, Service!Spec
=============================================================================
