------------------------- MODULE ReplyStreamsProofs -------------------------
(***************************************************************************)
(* What holds of the three streams of a reply for every reply, however the *)
(* upstream cuts it into events, for every answer to a continuation and    *)
(* any number of attempts.                                                 *)
(*                                                                         *)
(* First what holds whatever the parser finds (ReplyInv): the text each    *)
(* handler gathered, what it held back, how a broken reply is told.  Then  *)
(* the parser: what its passes leave of a text and that they leave the     *)
(* text before the first call alone.  Then what a client makes of the      *)
(* events: the items of the Responses stream (ItemsInv), the blocks of the *)
(* Claude stream (BlocksInv), the chat client's calls, and all together    *)
(* (ToldInv).                                                              *)
(***************************************************************************)
EXTENDS ReplyStreams, Loops, SequenceTheorems, TLAPS

Letter == Cell \union {"t"}

-----------------------------------------------------------------------------
\* The text of a reply grows with the cells read: thoughts add nothing to it.
LEMMA TextsAre ==
  ASSUME body \in Seq(Letter)
  PROVE  /\ Texts \in [0 .. Len(body) -> Seq(Letter)]
         /\ Texts[0] = <<>>
         /\ \A n \in 1 .. Len(body) :
              Texts[n] = IF body[n] = "t" THEN Texts[n - 1] ELSE Append(Texts[n - 1], body[n])
<1> DEFINE n == Len(body)
           Round(s, i) == IF body[i] = "t" THEN s ELSE Append(s, body[i])
           Loop(f) == [i \in 0 .. n |-> IF i = 0 THEN <<>>
                                        ELSE IF body[i] = "t" THEN f[i - 1] ELSE Append(f[i - 1], body[i])]
           text == CHOOSE f : f = Loop(f)
           step == [i \in 1 .. n |-> [s \in Seq(Letter) |-> Round(s, i)]]
<1>1. Texts = text
  BY DEF Texts
<1>2. n \in Nat /\ \A i \in 1 .. n : body[i] \in Letter
  OBVIOUS
<1>3. step \in [1 .. n -> [Seq(Letter) -> Seq(Letter)]]
  BY <1>2
<1>4. <<>> \in Seq(Letter)
  OBVIOUS
<1>5. \A i \in 1 .. n : \A s \in Seq(Letter) : step[i][s] = Round(s, i)
  OBVIOUS
<1> HIDE DEF step, n
<1>6. PICK f : Results(f, n, step, <<>>, Seq(Letter))
  BY <1>2, <1>3, <1>4, LoopRuns
<1>7. \A i \in 1 .. n : f[i] = Round(f[i - 1], i)
  <2> TAKE i \in 1 .. n
  <2>1. i - 1 \in 0 .. n
    BY <1>2
  <2>2. f[i - 1] \in Seq(Letter) /\ f[i] = step[i][f[i - 1]]
    BY <1>6, <2>1 DEF Results
  <2>3. QED
    BY <1>5, <2>2
<1>8. \A i \in 0 .. n : i # 0 => i \in 1 .. n
  BY <1>2
<1>9. f = Loop(f)
  BY <1>6, <1>7, <1>8 DEF Results
<1>10. text = Loop(text)
  BY <1>9
<1> HIDE DEF text
<1>11. text[0] = <<>> /\ \A i \in 1 .. n : text[i] = Round(text[i - 1], i)
  <2>1. 0 \in 0 .. n /\ \A i \in 1 .. n : i \in 0 .. n /\ i # 0
    BY <1>2
  <2>2. \A i \in 0 .. n : text[i] = IF i = 0 THEN <<>> ELSE Round(text[i - 1], i)
    BY <1>10
  <2>3. QED
    BY <2>1, <2>2
<1>12. \A i \in 0 .. n : text[i] \in Seq(Letter)
  <2> DEFINE P == {i \in 0 .. n : text[i] \in Seq(Letter)}
  <2>0. 0 \in 0 .. n /\ text[0] = <<>>
    BY <1>2, <1>11
  <2>a. text[0] \in Seq(Letter)
    BY <1>4, <2>0
  <2>1. 0 \in P
    BY <2>0, <2>a
  <2>2. ASSUME NEW k \in 1 .. n, k - 1 \in P PROVE k \in P
    <3>1. text[k - 1] \in Seq(Letter) /\ body[k] \in Letter /\ k \in 0 .. n
      BY <1>2, <2>2
    <3>2. Append(text[k - 1], body[k]) \in Seq(Letter)
      BY <3>1
    <3>3. text[k] \in Seq(Letter)
      BY <1>11, <3>1, <3>2
    <3>4. QED
      BY <3>1, <3>3
  <2> HIDE DEF P
  <2>3. \A i \in 0 .. n : i \in P
    BY <1>2, <2>1, <2>2, Climb
  <2>4. QED
    BY <2>3 DEF P
<1>13. text = [i \in 0 .. n |-> text[i]]
  BY <1>10
<1>14. text \in [0 .. n -> Seq(Letter)]
  BY <1>12, <1>13
<1>15. QED
  BY <1>1, <1>11, <1>14 DEF n

LEMMA TextsGrow ==
  ASSUME body \in Seq(Letter), NEW r \in Nat, NEW n \in Nat, r + n <= Len(body)
  PROVE  Extends(Texts[r + n], Texts[r])
<1> DEFINE P == {k \in 0 .. n : Extends(Texts[r + k], Texts[r])}
<1>t. Texts \in [0 .. Len(body) -> Seq(Letter)]
  BY TextsAre
<1>0. Len(body) \in Nat /\ \A k \in 0 .. Len(body) : Texts[k] \in Seq(Letter)
  BY <1>t
<1>1. 0 \in P
  <2>1. r \in 0 .. Len(body) /\ r + 0 = r
    BY <1>0
  <2>2. QED
    BY <1>0, <2>1 DEF Extends
<1>2. ASSUME NEW k \in 1 .. n, k - 1 \in P PROVE k \in P
  <2>1. /\ r + k \in 1 .. Len(body) /\ r + k - 1 \in 0 .. Len(body) /\ r \in 0 .. Len(body)
        /\ r + (k - 1) = r + k - 1 /\ k \in 0 .. n
    BY <1>0
  <2> DEFINE s == Texts[r]
             t == Texts[r + k - 1]
             u == Texts[r + k]
             x == body[r + k]
  <2>2. /\ s \in Seq(Letter) /\ t \in Seq(Letter) /\ x \in Letter
        /\ u = IF x = "t" THEN t ELSE Append(t, x)
    BY <1>0, <2>1, TextsAre
  <2>3. Extends(t, s)
    BY <1>2, <2>1
  <2> HIDE DEF s, t, u, x
  <2>4. Extends(u, t) /\ u \in Seq(Letter)
    BY <2>2 DEF Extends
  <2>5. Extends(u, s)
    BY <2>2, <2>3, <2>4 DEF Extends
  <2>6. QED
    BY <2>1, <2>5 DEF s, u
<1>3. \A k \in 0 .. n : k \in P
  <2> HIDE DEF P
  <2>1. QED
    BY <1>1, <1>2, Climb
<1>4. n \in 0 .. n
  OBVIOUS
<1>5. QED
  BY <1>3, <1>4

LEMMA ThoughtsAddNothing ==
  ASSUME body \in Seq(Letter), NEW r \in Nat, NEW n \in Nat, r + n <= Len(body),
         \A i \in (r + 1) .. (r + n) : body[i] = "t"
  PROVE  Texts[r + n] = Texts[r]
<1> DEFINE P == {k \in 0 .. n : Texts[r + k] = Texts[r]}
<1>0. Len(body) \in Nat
  OBVIOUS
<1>1. 0 \in P
  OBVIOUS
<1>2. ASSUME NEW k \in 1 .. n, k - 1 \in P PROVE k \in P
  <2>1. r + k \in 1 .. Len(body) /\ r + (k - 1) = r + k - 1 /\ k \in 0 .. n /\ r + k \in (r + 1) .. (r + n)
    BY <1>0
  <2>2. Texts[r + k] = Texts[r + k - 1]
    BY <2>1, TextsAre
  <2>3. Texts[r + (k - 1)] = Texts[r]
    BY <1>2
  <2>4. QED
    BY <2>1, <2>2, <2>3
<1>3. \A k \in 0 .. n : k \in P
  <2> HIDE DEF P
  <2>1. QED
    BY <1>1, <1>2, Climb
<1>4. n \in 0 .. n
  OBVIOUS
<1>5. QED
  BY <1>3, <1>4

LEMMA Regroup ==
  ASSUME NEW a \in Seq(Letter), NEW b \in Seq(Letter), NEW c \in Seq(Letter)
  PROVE  (a \o b) \o c = a \o (b \o c)
BY ConcatAssociative

LEMMA AnswersAddTheirCells ==
  ASSUME body \in Seq(Letter), NEW r \in Nat, NEW n \in Nat, r + n <= Len(body),
         \A i \in (r + 1) .. (r + n) : body[i] # "t"
  PROVE  Texts[r + n] = Texts[r] \o SubSeq(body, r + 1, r + n)
<1> DEFINE P == {k \in 0 .. n : Texts[r + k] = Texts[r] \o SubSeq(body, r + 1, r + k)}
<1>t. Texts \in [0 .. Len(body) -> Seq(Letter)]
  BY TextsAre
<1>0. Len(body) \in Nat /\ \A k \in 0 .. Len(body) : Texts[k] \in Seq(Letter)
  BY <1>t
<1>1. 0 \in P
  <2>1. r \in 0 .. Len(body) /\ r + 0 = r /\ r \in Int /\ r + 1 \in Int /\ r < r + 1
    BY <1>0
  <2>2. SubSeq(body, r + 1, r) = <<>>
    BY <2>1, SubSeqEmpty
  <2>3. Texts[r] \o <<>> = Texts[r]
    BY <1>0, <2>1, ConcatEmptySeq
  <2>4. 0 \in 0 .. n
    OBVIOUS
  <2>5. Texts[r + 0] = Texts[r] \o SubSeq(body, r + 1, r + 0)
    BY <2>1, <2>2, <2>3
  <2>6. QED
    BY <2>4, <2>5
<1>2. ASSUME NEW k \in 1 .. n, k - 1 \in P PROVE k \in P
  <2>1. /\ r + k \in 1 .. Len(body) /\ r + k - 1 \in 0 .. Len(body) /\ r \in 0 .. Len(body)
        /\ r + (k - 1) = r + k - 1 /\ k \in 0 .. n /\ r + k \in (r + 1) .. (r + n)
        /\ r + 1 \in 1 .. Len(body) /\ r + k \in (r + 1) .. Len(body)
    BY <1>0
  <2> DEFINE s == Texts[r]
             b == SubSeq(body, r + 1, r + k - 1)
             x == body[r + k]
  <2>a. Texts[r + k] = IF x = "t" THEN Texts[r + k - 1] ELSE Append(Texts[r + k - 1], x)
    BY <2>1, TextsAre
  <2>c. x # "t" /\ s \in Seq(Letter) /\ x \in Letter
    BY <1>0, <2>1
  <2>2. Texts[r + k] = Append(Texts[r + k - 1], x) /\ s \in Seq(Letter) /\ x \in Letter
    BY <2>a, <2>c
  <2>3. Texts[r + k - 1] = s \o b
    BY <1>2, <2>1
  <2>4. SubSeq(body, r + 1, r + k) = b \o <<x>>
    BY <2>1, SubSeqRecursiveSecond
  <2>5. b \in Seq(Letter)
    <3>1. \A i \in (r + 1) .. (r + k - 1) : body[i] \in Letter
      BY <2>1
    <3>2. r + 1 \in Int /\ r + k - 1 \in Int
      BY <2>1
    <3>3. QED
      BY <3>1, <3>2, SubSeqProperties
  <2>6. <<x>> \in Seq(Letter)
    BY <2>2
  <2> HIDE DEF s, b, x
  <2>d. s \o b \in Seq(Letter) /\ x \in Letter
    BY <2>2, <2>5, ConcatProperties
  <2>7. Append(s \o b, x) = (s \o b) \o <<x>>
    BY <2>d, AppendIsConcat
  <2> DEFINE y == <<x>>
  <2>e. y \in Seq(Letter)
    BY <2>6
  <2> HIDE DEF y
  <2>8. (s \o b) \o y = s \o (b \o y)
    BY <2>2, <2>5, <2>e, Regroup
  <2>9. QED
    BY <2>1, <2>2, <2>3, <2>4, <2>7, <2>8 DEF s, y
<1>3. \A k \in 0 .. n : k \in P
  <2> HIDE DEF P
  <2>1. QED
    BY <1>1, <1>2, Climb
<1>4. n \in 0 .. n
  OBVIOUS
<1>5. QED
  BY <1>3, <1>4

-----------------------------------------------------------------------------
\* Where a text has its first "<tool_call", whose two cells Spelling gives.
LEMMA SpellingIs ==
  /\ Spelling["O"] = <<"o1", "o2">> /\ Spelling["F"] = <<"f1", "f2", "f3">>
  /\ Marker = 2
<1>1. Spelling["O"] = <<"o1", "o2">> /\ Spelling["F"] = <<"f1", "f2", "f3">>
  BY DEF Spelling
<1>2. QED
  BY <1>1 DEF Marker

MarkAt(s, k) == s[k] = "o1" /\ s[k + 1] = "o2"

LEMMA MarkIs ==
  ASSUME NEW s \in Seq(Letter), NEW k \in 1 .. Len(s) - 1
  PROVE  SubSeq(s, k, k + 1) = Spelling["O"] <=> MarkAt(s, k)
<1> DEFINE u == SubSeq(s, k, k + 1)
           v == <<"o1", "o2">>
<1>1. \A i \in k .. k + 1 : s[i] \in Letter
  OBVIOUS
<1>2. k \in Int /\ k + 1 \in Int /\ k <= k + 1 /\ (k + 1) - k + 1 = 2
  OBVIOUS
<1>3. u \in Seq(Letter) /\ Len(u) = 2 /\ \A i \in 1 .. 2 : u[i] = s[k + i - 1]
  BY <1>1, <1>2, SubSeqProperties
<1>4. u[1] = s[k] /\ u[2] = s[k + 1]
  BY <1>3
<1> HIDE DEF u
<1>5. u = v <=> u[1] = "o1" /\ u[2] = "o2"
  <2>1. u = <<u[1], u[2]>>
    BY <1>3
  <2>2. QED
    BY <2>1
<1>6. QED
  BY <1>4, <1>5, SpellingIs DEF MarkAt, u

LEMMA StartIs ==
  ASSUME NEW s \in Seq(Letter)
  PROVE  /\ ToolCallStart(s) \in 0 .. Len(s)
         /\ \A k \in 1 .. Len(s) - 1 : MarkAt(s, k) => ToolCallStart(s) < k
         /\ ToolCallStart(s) < Len(s) =>
              ToolCallStart(s) + 1 \in 1 .. Len(s) - 1 /\ MarkAt(s, ToolCallStart(s) + 1)
<1> DEFINE at == {k \in 1 .. Len(s) - 1 : SubSeq(s, k, k + 1) = Spelling["O"]}
           first == CHOOSE k \in at : \A m \in at : k <= m
<1>0. Len(s) \in Nat
  OBVIOUS
<1>1. ToolCallStart(s) = IF at = {} THEN Len(s) ELSE first - 1
  BY DEF ToolCallStart
<1>2. at = {k \in 1 .. Len(s) - 1 : MarkAt(s, k)}
  BY MarkIs
<1> HIDE DEF at
<1>3. CASE at = {}
  BY <1>0, <1>1, <1>2, <1>3
<1>4. CASE at # {}
  <2>1. at \subseteq Nat
    BY <1>0, <1>2
  <2>2. PICK k \in at : \A m \in at : ~ (<<m, k>> \in OpToRel(<, Nat))
    BY <1>4, <2>1, WFMin, NatLessThanWellFounded, Zenon
  <2>3. \A m \in at : ~ (m < k)
    BY <2>1, <2>2 DEF OpToRel
  <2>4. \A m \in at : k <= m
    BY <2>1, <2>3
  <2>5. first \in at /\ \A m \in at : first <= m
    BY <2>4
  <2> HIDE DEF first
  <2>6. first \in 1 .. Len(s) - 1 /\ MarkAt(s, first)
    BY <1>2, <2>5
  <2>7. ToolCallStart(s) = first - 1 /\ first - 1 \in 0 .. Len(s) /\ (first - 1) + 1 = first
    BY <1>0, <1>1, <1>4, <2>6
  <2>8. \A m \in 1 .. Len(s) - 1 : MarkAt(s, m) => first - 1 < m
    <3>1. \A m \in 1 .. Len(s) - 1 : MarkAt(s, m) => first <= m
      BY <1>2, <2>5
    <3>2. QED
      BY <1>0, <2>6, <3>1
  <2>9. QED
    BY <2>6, <2>7, <2>8
<1>5. QED
  BY <1>3, <1>4

\* As a text grows its first marker stays; a new one begins with its last cell
\* or after it.
LEMMA StartGrows ==
  ASSUME NEW s \in Seq(Letter), NEW t \in Seq(Letter), Extends(t, s)
  PROVE  /\ ToolCallStart(s) = Len(s) => Len(s) - 1 <= ToolCallStart(t)
         /\ ToolCallStart(s) = Len(s) \/ ToolCallStart(t) <= ToolCallStart(s)
<1>0. Len(s) \in Nat /\ Len(t) \in Nat /\ Len(s) <= Len(t) /\ \A i \in 1 .. Len(s) : t[i] = s[i]
  BY DEF Extends
<1> DEFINE m == ToolCallStart(s)
           n == ToolCallStart(t)
<1>1. /\ m \in 0 .. Len(s) /\ n \in 0 .. Len(t)
      /\ \A k \in 1 .. Len(s) - 1 : MarkAt(s, k) => m < k
      /\ \A k \in 1 .. Len(t) - 1 : MarkAt(t, k) => n < k
      /\ m < Len(s) => m + 1 \in 1 .. Len(s) - 1 /\ MarkAt(s, m + 1)
      /\ n < Len(t) => n + 1 \in 1 .. Len(t) - 1 /\ MarkAt(t, n + 1)
  BY StartIs
<1> HIDE DEF m, n
<1>2. \A k \in 1 .. Len(s) - 1 : MarkAt(s, k) <=> MarkAt(t, k)
  <2> TAKE k \in 1 .. Len(s) - 1
  <2>1. k \in 1 .. Len(s) /\ k + 1 \in 1 .. Len(s)
    BY <1>0
  <2>2. QED
    BY <1>0, <2>1 DEF MarkAt
<1>3. ASSUME m = Len(s) PROVE Len(s) - 1 <= n
  <2>1. SUFFICES ASSUME n < Len(s) - 1 PROVE FALSE
    BY <1>0, <1>1
  <2>2. n + 1 \in 1 .. Len(s) - 1 /\ n < Len(t)
    BY <1>0, <1>1, <2>1
  <2>3. MarkAt(s, n + 1)
    BY <1>1, <1>2, <2>2
  <2>4. m < n + 1
    BY <1>1, <2>2, <2>3
  <2>5. QED
    BY <1>0, <1>1, <1>3, <2>1, <2>4
<1>4. ASSUME m # Len(s) PROVE n <= m
  <2>1. m + 1 \in 1 .. Len(s) - 1 /\ MarkAt(s, m + 1)
    BY <1>0, <1>1, <1>4
  <2>2. MarkAt(t, m + 1) /\ m + 1 \in 1 .. Len(t) - 1
    BY <1>0, <1>2, <2>1
  <2>3. n < m + 1
    BY <1>1, <2>2
  <2>4. QED
    BY <1>0, <1>1, <2>3
<1>5. QED
  BY <1>3, <1>4 DEF m, n

\* The Responses stream looks for other tags too, and for a marker in any case.
LEMMA NoTagNoMarker ==
  ASSUME NEW s \in Seq(Letter), NEW multi, ~ ShowsTag(s, multi)
  PROVE  ToolCallStart(s) = Len(s)
<1> DEFINE k == ToolCallStart(s) + 1
           v == <<"o1", "o2">>
           u == SubSeq(s, k, Len(s))
<1>1. SUFFICES ASSUME ToolCallStart(s) # Len(s) PROVE FALSE
  OBVIOUS
<1>2. Len(s) \in Nat /\ k \in 1 .. Len(s) - 1 /\ MarkAt(s, k)
  BY <1>1, StartIs
<1> HIDE DEF k
<1>3. k \in Int /\ Len(s) \in Int /\ \A i \in k .. Len(s) : s[i] \in Letter
  BY <1>2
<1>4. u \in Seq(Letter) /\ Len(u) = Len(s) - k + 1 /\ \A i \in 1 .. Len(s) - k + 1 : u[i] = s[k + i - 1]
  BY <1>2, <1>3, SubSeqProperties
<1> HIDE DEF u
<1>5. Len(u) \in Nat /\ 2 <= Len(u) /\ u[1] = "o1" /\ u[2] = "o2"
  BY <1>2, <1>4 DEF MarkAt
<1>6. SubSeq(u, 1, 2) = v
  <2>1. 1 \in Int /\ 2 \in Int /\ \A i \in 1 .. 2 : u[i] \in Letter
    BY <1>4, <1>5
  <2>2. SubSeq(u, 1, 2) \in Seq(Letter) /\ Len(SubSeq(u, 1, 2)) = 2
        /\ \A i \in 1 .. 2 : SubSeq(u, 1, 2)[i] = u[i]
    BY <2>1, SubSeqProperties
  <2> DEFINE w == SubSeq(u, 1, 2)
  <2> HIDE DEF w
  <2>a. w \in Seq(Letter) /\ Len(w) = 2
    BY <2>2 DEF w
  <2>3. w = <<w[1], w[2]>>
    BY <2>a
  <2>4. w[1] = "o1" /\ w[2] = "o2"
    BY <1>5, <2>2 DEF w
  <2>5. QED
    BY <2>3, <2>4 DEF w
<1>7. SubSeq(v, 1, Len(v)) = v /\ Len(v) = 2
  <2>1. v \in Seq({"o1", "o2"}) /\ Len(v) = 2
    OBVIOUS
  <2>2. QED
    BY <2>1, SubSeqFull
<1>8. IsPrefix(v, u)
  BY <1>5, <1>6, <1>7 DEF IsPrefix
<1>9. k \in 1 .. Len(s)
  BY <1>2
<1>10. QED
  BY <1>8, <1>9, SpellingIs DEF ShowsTag, u

LEMMA HoldbackIs ==
  ASSUME NEW multi
  PROVE  Holdback(multi) \in Nat /\ 2 <= Holdback(multi)
<1>1. Len(Spelling["O"]) = 2 /\ Len(Spelling["F"]) = 3
  BY SpellingIs
<1>2. Holdback(multi) = 2 \/ Holdback(multi) = 3
  <2>1. CASE multi
    BY <1>1, <2>1 DEF Holdback
  <2>2. CASE ~ multi
    BY <1>1, <2>2 DEF Holdback
  <2>3. QED
    BY <2>1, <2>2
<1>3. QED
  BY <1>2

-----------------------------------------------------------------------------
\* White space at the end.  Ends(s, m): the text of s ends with its m-th cell.
Ends(s, m) ==
  /\ m \in 0 .. Len(s)
  /\ m = 0 \/ s[m] # "w"
  /\ \A k \in m + 1 .. Len(s) : s[k] = "w"

LEMMA TextEnds ==
  ASSUME NEW T, NEW s \in Seq(T)
  PROVE  \E m \in 0 .. Len(s) : Ends(s, m)
<1> DEFINE Upto(n, m) == (m = 0 \/ s[m] # "w") /\ \A k \in m + 1 .. n : s[k] = "w"
           P == {n \in 0 .. Len(s) : \E m \in 0 .. n : Upto(n, m)}
<1>0. Len(s) \in Nat /\ Len(s) \in 0 .. Len(s)
  OBVIOUS
<1>1. 0 \in P
  OBVIOUS
<1>2. ASSUME NEW n \in 1 .. Len(s), n - 1 \in P PROVE n \in P
  <2>0. n \in 0 .. Len(s) /\ n \in 0 .. n
    OBVIOUS
  <2>1. CASE s[n] # "w"
    <3>1. Upto(n, n)
      BY <2>0, <2>1
    <3>2. QED
      BY <2>0, <3>1
  <2>2. CASE s[n] = "w"
    <3>1. PICK m \in 0 .. n - 1 : Upto(n - 1, m)
      BY <1>2
    <3>2. \A k \in m + 1 .. n : k \in m + 1 .. n - 1 \/ k = n
      BY <2>0
    <3>3. Upto(n, m) /\ m \in 0 .. n
      BY <2>0, <2>2, <3>1, <3>2
    <3>4. QED
      BY <2>0, <3>3
  <2>3. QED
    BY <2>1, <2>2
<1>3. \A n \in 0 .. Len(s) : n \in P
  <2> HIDE DEF P
  <2>1. QED
    BY <1>0, <1>1, <1>2, Climb
<1>4. QED
  BY <1>0, <1>3 DEF Ends

LEMMA TrimIs ==
  ASSUME NEW T, NEW s \in Seq(T), NEW m, Ends(s, m)
  PROVE  TrimRight(s) = SubSeq(s, 1, m)
<1> DEFINE ink == {k \in DOMAIN s : s[k] # "w"}
           last == CHOOSE k \in ink : \A n \in ink : n <= k
<1>0. Len(s) \in Nat /\ DOMAIN s = 1 .. Len(s) /\ m \in 0 .. Len(s)
  BY DEF Ends
<1>1. TrimRight(s) = IF ink = {} THEN <<>> ELSE SubSeq(s, 1, last)
  BY DEF TrimRight
<1>2. \A k \in ink : k \in 1 .. Len(s) /\ k <= m
  <2> TAKE k \in ink
  <2>1. k \in 1 .. Len(s) /\ s[k] # "w"
    BY <1>0
  <2>2. ~ (k \in m + 1 .. Len(s))
    BY <2>1 DEF Ends
  <2>3. QED
    BY <1>0, <2>1, <2>2
<1>3. CASE m = 0
  <2>1. ink = {}
    BY <1>2, <1>3
  <2>2. SubSeq(s, 1, 0) = <<>>
    BY SubSeqEmpty
  <2>3. QED
    BY <1>1, <1>3, <2>1, <2>2
<1>4. CASE m # 0
  <2>1. m \in ink
    BY <1>0, <1>4 DEF Ends
  <2> HIDE DEF ink
  <2>2. last \in ink /\ \A n \in ink : n <= last
    BY <1>2, <2>1
  <2>3. last = m
    <3>1. last <= m /\ m <= last /\ last \in Int
      BY <1>2, <2>1, <2>2
    <3>2. QED
      BY <1>0, <3>1
  <2>4. QED
    BY <1>1, <2>1, <2>3
<1>5. QED
  BY <1>3, <1>4

\* A text that grows keeps its first cells.
LEMMA FirstCells ==
  ASSUME NEW T, NEW s \in Seq(T), NEW t \in Seq(T), Extends(t, s), NEW m \in 0 .. Len(s)
  PROVE  SubSeq(t, 1, m) = SubSeq(s, 1, m)
<1> DEFINE x == SubSeq(t, 1, m)
           y == SubSeq(s, 1, m)
<1>1. 1 \in Int /\ m \in Int /\ \A i \in 1 .. m : s[i] \in T /\ t[i] \in T /\ t[i] = s[i]
  BY DEF Extends
<1>2. /\ x \in Seq(T) /\ Len(x) = IF 1 <= m THEN m - 1 + 1 ELSE 0
      /\ \A i \in 1 .. m - 1 + 1 : x[i] = t[1 + i - 1]
  BY <1>1, SubSeqProperties
<1>3. /\ y \in Seq(T) /\ Len(y) = IF 1 <= m THEN m - 1 + 1 ELSE 0
      /\ \A i \in 1 .. m - 1 + 1 : y[i] = s[1 + i - 1]
  BY <1>1, SubSeqProperties
<1> HIDE DEF x, y
<1>4. m \in Nat
  OBVIOUS
<1>5. Len(x) = m /\ Len(y) = m /\ \A i \in 1 .. m : x[i] = y[i]
  BY <1>1, <1>2, <1>3, <1>4
<1>6. x = y
  BY <1>2, <1>3, <1>5, SeqEqual
<1>7. QED
  BY <1>6 DEF x, y

LEMMA TrimSame ==
  ASSUME NEW T, NEW c \in Seq(T), NEW d \in Seq(T), Extends(c, d),
         \A k \in Len(d) + 1 .. Len(c) : c[k] = "w"
  PROVE  TrimRight(c) = TrimRight(d)
<1>0. Len(c) \in Nat /\ Len(d) \in Nat /\ Len(d) <= Len(c) /\ \A i \in 1 .. Len(d) : c[i] = d[i]
  BY DEF Extends
<1>1. PICK m \in 0 .. Len(d) : Ends(d, m)
  BY TextEnds
<1>2. Ends(c, m)
  <2>1. m \in 0 .. Len(c) /\ (m = 0 \/ c[m] # "w")
    BY <1>0, <1>1 DEF Ends
  <2>2. \A k \in m + 1 .. Len(c) : k \in m + 1 .. Len(d) \/ k \in Len(d) + 1 .. Len(c)
    BY <1>0
  <2>3. \A k \in m + 1 .. Len(d) : c[k] = "w"
    BY <1>0, <1>1 DEF Ends
  <2>4. QED
    BY <2>1, <2>2, <2>3 DEF Ends
<1>3. SubSeq(c, 1, m) = SubSeq(d, 1, m)
  BY FirstCells
<1>4. QED
  BY <1>1, <1>2, <1>3, TrimIs

LEMMA TrimConcat ==
  ASSUME NEW T, NEW a \in Seq(T), NEW b \in Seq(T)
  PROVE  a \o TrimRight(b) \in Seq(T) /\ TrimRight(a \o TrimRight(b)) = TrimRight(a \o b)
<1>1. PICK m \in 0 .. Len(b) : Ends(b, m)
  BY TextEnds
<1> DEFINE t == SubSeq(b, 1, m)
           c == a \o b
           d == a \o t
<1>0. Len(a) \in Nat /\ Len(b) \in Nat
  OBVIOUS
<1>2. TrimRight(b) = t
  BY <1>1, TrimIs
<1>3. t \in Seq(T) /\ Len(t) = m /\ \A i \in 1 .. m : t[i] = b[i]
  <2>1. 1 \in Int /\ m \in Int /\ \A i \in 1 .. m : b[i] \in T
    BY <1>0
  <2>2. /\ t \in Seq(T) /\ Len(t) = IF 1 <= m THEN m - 1 + 1 ELSE 0
        /\ \A i \in 1 .. m - 1 + 1 : t[i] = b[1 + i - 1]
    BY <2>1, SubSeqProperties
  <2> HIDE DEF t
  <2>3. QED
    BY <2>2
<1> HIDE DEF t
<1>4. /\ c \in Seq(T) /\ Len(c) = Len(a) + Len(b)
      /\ \A i \in 1 .. Len(a) + Len(b) : c[i] = IF i <= Len(a) THEN a[i] ELSE b[i - Len(a)]
  BY ConcatProperties
<1>5. /\ d \in Seq(T) /\ Len(d) = Len(a) + m
      /\ \A i \in 1 .. Len(a) + m : d[i] = IF i <= Len(a) THEN a[i] ELSE t[i - Len(a)]
  BY <1>3, ConcatProperties
<1> HIDE DEF c, d
<1>6. Extends(c, d)
  <2>1. ASSUME NEW i \in 1 .. Len(a) + m PROVE c[i] = d[i]
    <3>1. i \in 1 .. Len(a) + Len(b)
      BY <1>0
    <3>2. CASE i <= Len(a)
      BY <1>4, <1>5, <3>1, <3>2
    <3>3. CASE ~ (i <= Len(a))
      <4>1. i - Len(a) \in 1 .. m
        BY <1>0, <3>3
      <4>2. QED
        BY <1>3, <1>4, <1>5, <3>1, <3>3, <4>1
    <3>4. QED
      BY <3>2, <3>3
  <2>2. QED
    BY <1>0, <1>4, <1>5, <2>1 DEF Extends
<1>7. \A k \in Len(d) + 1 .. Len(c) : c[k] = "w"
  <2> TAKE k \in Len(d) + 1 .. Len(c)
  <2>1. k \in 1 .. Len(a) + Len(b) /\ ~ (k <= Len(a)) /\ k - Len(a) \in m + 1 .. Len(b)
    BY <1>0, <1>4, <1>5
  <2>2. c[k] = b[k - Len(a)]
    BY <1>4, <2>1
  <2>3. b[k - Len(a)] = "w"
    BY <1>1, <2>1 DEF Ends
  <2>4. QED
    BY <2>2, <2>3
<1>8. QED
  BY <1>2, <1>4, <1>5, <1>6, <1>7, TrimSame DEF c, d

-----------------------------------------------------------------------------
\* What every stream keeps while it reads: its text is the text read, and what
\* it sent ends before the marker the reply turns out to have.
Base ==
  /\ body \in Bodies /\ read \in 0 .. Len(body)
  /\ ending \in {"none", "eof", "error", "gone"} /\ finish \in {"none", "stop", "length"}

LEMMA TextFacts ==
  ASSUME Base
  PROVE  /\ body \in Seq(Letter) /\ Len(body) \in Nat
         /\ TextRead \in Seq(Letter) /\ WholeText \in Seq(Letter) /\ Extends(WholeText, TextRead)
<1>1. body \in Seq(Letter) /\ Len(body) \in Nat /\ read \in 0 .. Len(body)
  BY BodiesAssumption DEF Base, Letter
<1>2. Texts \in [0 .. Len(body) -> Seq(Letter)]
  BY <1>1, TextsAre
<1>3. read \in Nat /\ Len(body) - read \in Nat /\ read + (Len(body) - read) = Len(body)
      /\ Len(body) \in 0 .. Len(body)
  BY <1>1
<1>4. Extends(Texts[read + (Len(body) - read)], Texts[read])
  BY <1>1, <1>3, TextsGrow
<1>5. QED
  BY <1>1, <1>2, <1>3, <1>4 DEF TextRead, WholeText

Follows(r) ==
  /\ r.full = TextRead
  /\ r.emittedLen \in 0 .. Len(TextRead)
  /\ r.hasTools => r.emittedLen <= ToolCallStart(WholeText)

\* The handlers hear of an event: the text grows by its cells, unless it is a thought.
Heard(evt) ==
  /\ TextRead \in Seq(Letter) /\ TextRead' \in Seq(Letter) /\ WholeText \in Seq(Letter)
  /\ TextRead' = IF evt.phase = "think" THEN TextRead ELSE TextRead \o evt.cells
  /\ evt.cells \in Seq(Letter)
  /\ WholeText' = WholeText /\ Extends(WholeText, TextRead') /\ Extends(TextRead', TextRead)
  /\ ending = "none" /\ ending' = "none"

\* The reply stays as it is.
Still == TextRead' = TextRead /\ WholeText' = WholeText

LEMMA StillIs == UNCHANGED <<body, read>> => Still
<1> SUFFICES ASSUME body' = body, read' = read PROVE Still
  OBVIOUS
<1>1. Texts' = Texts
  BY DEF Texts
<1>2. QED
  BY <1>1 DEF Still, TextRead, WholeText

LEMMA DeliverIsHeard ==
  ASSUME Base, NEW n \in 1 .. Width, NEW phase \in {"think", "answer", "other"},
         ending = "none", ending' = ending, body' = body, read' = read + n, read + n <= Len(body),
         LET cells == SubSeq(body, read + 1, read + n)
         IN  IF phase = "think" THEN Thought(cells) ELSE Answer(cells)
  PROVE  Heard([phase |-> phase, cells |-> SubSeq(body, read + 1, read + n), finish |-> "none"])
<1> DEFINE cells == SubSeq(body, read + 1, read + n)
<1>0. n \in Nat /\ read \in Nat /\ finish \in {"none", "stop", "length"}
  BY WidthAssumption DEF Base
<1>1. /\ body \in Seq(Letter) /\ Len(body) \in Nat
      /\ TextRead \in Seq(Letter) /\ WholeText \in Seq(Letter) /\ Extends(WholeText, TextRead)
  BY TextFacts
<1>2. Texts' = Texts
  BY DEF Texts
<1>3. Texts \in [0 .. Len(body) -> Seq(Letter)]
  BY <1>1, TextsAre
<1>4. WholeText' = WholeText /\ TextRead' = Texts[read + n]
  BY <1>2 DEF WholeText, TextRead
<1>5. TextRead' \in Seq(Letter)
  BY <1>0, <1>1, <1>3, <1>4
<1>6. Extends(TextRead', TextRead)
  BY <1>0, <1>1, <1>4, TextsGrow DEF TextRead
<1>7. Extends(WholeText, TextRead')
  <2>1. /\ read + n \in Nat /\ Len(body) - (read + n) \in Nat
        /\ (read + n) + (Len(body) - (read + n)) = Len(body) /\ Len(body) <= Len(body)
    BY <1>0, <1>1
  <2>2. Extends(Texts[(read + n) + (Len(body) - (read + n))], Texts[read + n])
    BY <1>1, <2>1, TextsGrow
  <2>3. QED
    BY <1>4, <2>1, <2>2 DEF WholeText
<1>8. cells \in Seq(Letter) /\ Len(cells) = n /\ \A i \in 1 .. n : cells[i] = body[read + i]
  <2>1. read + 1 \in Int /\ read + n \in Int /\ \A i \in read + 1 .. read + n : body[i] \in Letter
    BY <1>0, <1>1
  <2>2. /\ cells \in Seq(Letter)
        /\ Len(cells) = IF read + 1 <= read + n THEN (read + n) - (read + 1) + 1 ELSE 0
        /\ \A i \in 1 .. (read + n) - (read + 1) + 1 : cells[i] = body[read + 1 + i - 1]
    BY <2>1, SubSeqProperties
  <2>3. (read + n) - (read + 1) + 1 = n /\ read + 1 <= read + n /\ \A i \in 1 .. n : read + 1 + i - 1 = read + i
    BY <1>0
  <2> HIDE DEF cells
  <2>4. QED
    BY <2>2, <2>3
<1> HIDE DEF cells
<1>9. ToSet(cells) = {body[read + i] : i \in 1 .. n}
  <2>1. DOMAIN cells = 1 .. n
    BY <1>8
  <2>2. QED
    BY <1>8, <2>1 DEF ToSet
<1>10. \A i \in read + 1 .. read + n : i - read \in 1 .. n /\ read + (i - read) = i
  BY <1>0
<1>11. CASE phase = "think"
  <2>1. \A i \in read + 1 .. read + n : body[i] = "t"
    BY <1>9, <1>10, <1>11 DEF Thought, cells
  <2>2. Texts[read + n] = Texts[read]
    BY <1>0, <1>1, <2>1, ThoughtsAddNothing
  <2>3. QED
    BY <1>1, <1>4, <1>5, <1>6, <1>7, <1>8, <1>11, <2>2 DEF Heard, TextRead, cells
<1>12. CASE phase # "think"
  <2>1. \A i \in read + 1 .. read + n : body[i] # "t"
    BY <1>9, <1>10, <1>12 DEF Answer, cells
  <2>2. Texts[read + n] = Texts[read] \o cells
    BY <1>0, <1>1, <2>1, AnswersAddTheirCells DEF cells
  <2>3. TextRead' = TextRead \o cells
    BY <1>4, <2>2 DEF TextRead
  <2>4. QED
    BY <1>1, <1>4, <1>5, <1>6, <1>7, <1>8, <1>12, <2>3 DEF Heard, cells
<1>13. QED
  BY <1>11, <1>12

LEMMA ReasonIsHeard ==
  ASSUME Base, ending = "none", ending' = ending, body' = body, read' = read, NEW reason
  PROVE  Heard([phase |-> "answer", cells |-> <<>>, finish |-> reason])
<1>1. /\ TextRead \in Seq(Letter) /\ WholeText \in Seq(Letter) /\ Extends(WholeText, TextRead)
  BY TextFacts
<1>2. TextRead' = TextRead /\ WholeText' = WholeText
  BY StillIs DEF Still
<1>3. TextRead \o <<>> = TextRead
  BY <1>1, ConcatEmptySeq
<1>4. Extends(TextRead, TextRead)
  BY <1>1 DEF Extends
<1>5. <<>> \in Seq(Letter)
  OBVIOUS
<1>6. QED
  BY <1>1, <1>2, <1>3, <1>4, <1>5 DEF Heard

-----------------------------------------------------------------------------
\* The chat stream: with tools it has sent the text up to emittedLen while it
\* reads and while it resolves a truncated call.
ChatFields == {"at", "hasTools", "multiFormat", "full", "emittedLen", "triggered",
               "upstreamFinish", "resolving", "round", "truncated", "out"}
OutFields == {"reasoning", "content", "calls", "finish"}
IsChat(c) == c = [x \in ChatFields |-> c[x]] /\ c.out = [x \in OutFields |-> c.out[x]]

ChatInv ==
  /\ IsChat(chat)
  /\ chat.at \in {"reading", "resolving", "done", "gone"}
  /\ chat.hasTools \in BOOLEAN /\ chat.triggered \in BOOLEAN
  /\ Follows(chat)
  /\ chat.at = "reading" <=> ending = "none"
  /\ chat.at = "resolving" => chat.hasTools /\ (ending = "error" => chat.truncated)
  /\ chat.hasTools /\ chat.at \in {"reading", "resolving"} =>
       chat.out.content = SubSeq(TextRead, 1, chat.emittedLen)
  /\ ChatTextExact
  /\ ending = "error" /\ chat.at = "done" /\ chat.out.calls = <<>> => chat.out.finish = "length"

\* What a stream has sent of its text goes on where it was.
LEMMA SentMore ==
  ASSUME NEW s \in Seq(Letter), NEW t \in Seq(Letter), Extends(t, s),
         NEW e \in 0 .. Len(s), NEW m \in e .. Len(t)
  PROVE  SubSeq(s, 1, e) \o SubSeq(t, e + 1, m) = SubSeq(t, 1, m)
<1>1. SubSeq(t, 1, e) = SubSeq(s, 1, e)
  BY FirstCells
<1>2. 1 \in 1 .. Len(t) + 1 /\ e \in 1 - 1 .. Len(t) /\ m \in e .. Len(t)
  BY DEF Extends
<1>3. SubSeq(t, 1, e) \o SubSeq(t, e + 1, m) = SubSeq(t, 1, m)
  BY <1>2, ConcatAdjacentSubSeq
<1>4. QED
  BY <1>1, <1>3

LEMMA SafeIs ==
  ASSUME NEW w \in Seq(Letter), NEW s \in Seq(Letter), NEW t \in Seq(Letter),
         Extends(t, s), Extends(w, t), NEW e \in 0 .. Len(s), e <= ToolCallStart(w),
         ~ (Len(t) - e >= Marker /\ ToolCallStart(t) < Len(t))
  PROVE  Safe(t, e) \in e .. Len(t) /\ Safe(t, e) <= ToolCallStart(w)
<1>1. Len(s) \in Nat /\ Len(t) \in Nat /\ Len(s) <= Len(t) /\ Marker = 2
  BY SpellingIs DEF Extends
<1>2. ToolCallStart(t) \in 0 .. Len(t) /\ ToolCallStart(w) \in 0 .. Len(w) /\ Len(w) \in Nat
  BY StartIs
<1>3. ToolCallStart(t) = Len(t) => Len(t) - 1 <= ToolCallStart(w)
  BY StartGrows
<1> DEFINE m == ToolCallStart(t)
           n == ToolCallStart(w)
<1> HIDE DEF m, n
<1>4. CASE Len(t) - e >= 2
  <2>1. Safe(t, e) = Len(t) - 2
    BY <1>1, <1>4 DEF Safe
  <2>2. m = Len(t)
    BY <1>1, <1>2, <1>4 DEF m
  <2>3. Len(t) - 1 <= n /\ n \in Nat
    BY <1>2, <1>3, <2>2 DEF m, n
  <2>4. Len(t) - 2 \in e .. Len(t) /\ Len(t) - 2 <= n
    BY <1>1, <1>4, <2>3
  <2>5. QED
    BY <2>1, <2>4 DEF n
<1>5. CASE ~ (Len(t) - e >= 2)
  <2>1. Safe(t, e) = e
    BY <1>1, <1>5 DEF Safe
  <2>2. e \in e .. Len(t)
    BY <1>1
  <2>3. QED
    BY <2>1, <2>2
<1>6. QED
  BY <1>4, <1>5

\* Reading on without sending anything.
LEMMA FollowsOn ==
  ASSUME NEW evt, Heard(evt), NEW r, Follows(r), NEW q, q.emittedLen = r.emittedLen,
         q.hasTools = r.hasTools, q.full = TextRead'
  PROVE  /\ q.full = TextRead' /\ q.emittedLen \in 0 .. Len(TextRead')
         /\ q.hasTools => q.emittedLen <= ToolCallStart(WholeText')
<1>1. /\ Len(TextRead) \in Nat /\ Len(TextRead') \in Nat /\ Len(TextRead) <= Len(TextRead')
      /\ WholeText' = WholeText
  BY DEF Heard, Extends
<1>2. q.emittedLen \in 0 .. Len(TextRead')
  BY <1>1 DEF Follows
<1>3. QED
  BY <1>1, <1>2 DEF Follows

LEMMA ChatHears ==
  ASSUME NEW evt, Heard(evt), ChatInv, ChatEvent(evt)
  PROVE  ChatInv'
<1>0. chat.at = "reading" /\ ending = "none" /\ ending' = "none" /\ IsChat(chat)
  BY DEF Heard, ChatInv
<1> DEFINE new == TextRead'
           e == chat.emittedLen
<1>1. /\ TextRead \in Seq(Letter) /\ new \in Seq(Letter) /\ WholeText \in Seq(Letter)
      /\ WholeText' = WholeText /\ Extends(WholeText, new) /\ Extends(new, TextRead)
      /\ e \in 0 .. Len(TextRead) /\ chat.full = TextRead
      /\ new = IF evt.phase = "think" THEN TextRead ELSE TextRead \o evt.cells
  BY DEF Heard, ChatInv, Follows
<1>2. chat.hasTools \in BOOLEAN /\ chat.triggered \in BOOLEAN
  BY DEF ChatInv
<1> HIDE DEF new, e
\* Kept: nothing is sent of the text.
<1>3. ASSUME IsChat(chat'), chat'.at = "reading", chat'.hasTools = chat.hasTools,
             chat'.triggered \in BOOLEAN, chat'.emittedLen = e, chat'.full = new,
             chat.hasTools => chat'.out.content = chat.out.content
      PROVE  ChatInv'
  <2>1. Follows(chat)'
    <3>0. /\ Follows(chat) /\ chat'.full = TextRead' /\ chat'.hasTools = chat.hasTools
          /\ chat'.emittedLen = chat.emittedLen
      BY <1>3 DEF ChatInv, new, e
    <3>1. /\ chat'.full = TextRead' /\ chat'.emittedLen \in 0 .. Len(TextRead')
          /\ chat'.hasTools => chat'.emittedLen <= ToolCallStart(WholeText')
      BY <3>0, FollowsOn
    <3>2. QED
      BY <3>1 DEF Follows
  <2>2. chat.hasTools => chat.out.content = SubSeq(new, 1, e)
    <3>1. SubSeq(new, 1, e) = SubSeq(TextRead, 1, e)
      BY <1>1, FirstCells
    <3>2. QED
      BY <1>0, <3>1 DEF ChatInv, e
  <2>3. ChatTextExact'
    BY <1>3 DEF ChatTextExact
  <2>4. QED
    BY <1>0, <1>2, <1>3, <2>1, <2>2, <2>3 DEF ChatInv, new
<1>4. CASE DirectEvent(evt)
  <2>1. CASE evt.phase = "think"
    <3>1. chat' = [chat EXCEPT !.out.reasoning = @ \o evt.cells] /\ ~ chat.hasTools
      BY <1>4, <2>1 DEF DirectEvent
    <3>2. /\ IsChat(chat') /\ chat'.at = chat.at /\ chat'.hasTools = chat.hasTools
          /\ chat'.triggered = chat.triggered /\ chat'.emittedLen = chat.emittedLen
          /\ chat'.full = chat.full
      BY <1>0, <3>1 DEF IsChat, ChatFields, OutFields
    <3>3. QED
      BY <1>0, <1>1, <1>2, <1>3, <2>1, <3>1, <3>2 DEF e
  <2>2. CASE evt.phase # "think"
    <3> DEFINE f == IF evt.finish = "none" THEN chat.upstreamFinish ELSE evt.finish
    <3>1. /\ ~ chat.hasTools
          /\ chat' = [chat EXCEPT !.out.content = @ \o evt.cells, !.full = @ \o evt.cells,
                                  !.upstreamFinish = f]
      BY <1>4, <2>2 DEF DirectEvent
    <3> HIDE DEF f
    <3>2. /\ IsChat(chat') /\ chat'.at = chat.at /\ chat'.hasTools = chat.hasTools
          /\ chat'.triggered = chat.triggered /\ chat'.emittedLen = chat.emittedLen
          /\ chat'.full = chat.full \o evt.cells
      BY <1>0, <3>1 DEF IsChat, ChatFields, OutFields
    <3>3. QED
      BY <1>0, <1>1, <1>2, <1>3, <2>2, <3>1, <3>2 DEF e
  <2>3. QED
    BY <2>1, <2>2
<1>5. CASE ToolEvent(evt)
  <2> DEFINE full == chat.full \o evt.cells
             enough == Len(full) - chat.emittedLen >= Marker
             safe == Safe(full, chat.emittedLen)
  <2>1. CASE evt.phase = "think" /\ chat' = [chat EXCEPT !.out.reasoning = @ \o evt.cells]
    <3>1. /\ IsChat(chat') /\ chat'.at = chat.at /\ chat'.hasTools = chat.hasTools
          /\ chat'.triggered = chat.triggered /\ chat'.emittedLen = chat.emittedLen
          /\ chat'.full = chat.full /\ chat'.out.content = chat.out.content
      BY <1>0, <2>1 DEF IsChat, ChatFields, OutFields
    <3>2. QED
      BY <1>0, <1>1, <1>2, <1>3, <2>1, <3>1 DEF e
  <2>2. CASE /\ evt.phase # "think"
             /\ chat' = [chat EXCEPT !.full = full] \/ chat' = [chat EXCEPT !.full = full, !.triggered = TRUE]
    <3>1. /\ IsChat(chat') /\ chat'.at = chat.at /\ chat'.hasTools = chat.hasTools
          /\ chat'.triggered \in {chat.triggered, TRUE} /\ chat'.emittedLen = chat.emittedLen
          /\ chat'.full = full /\ chat'.out.content = chat.out.content
      <4> HIDE DEF full
      <4>1. CASE chat' = [chat EXCEPT !.full = full]
        BY <1>0, <4>1 DEF IsChat, ChatFields, OutFields
      <4>2. CASE chat' = [chat EXCEPT !.full = full, !.triggered = TRUE]
        BY <1>0, <4>2 DEF IsChat, ChatFields, OutFields
      <4>3. QED
        BY <2>2, <4>1, <4>2
    <3>2. QED
      BY <1>0, <1>1, <1>2, <1>3, <2>2, <3>1 DEF e
  <2>3. CASE /\ evt.phase # "think" /\ ~ (enough /\ ToolCallStart(full) < Len(full)) /\ chat.hasTools
             /\ chat' = [chat EXCEPT !.full = full, !.emittedLen = safe,
                                     !.out.content = @ \o SubSeq(full, chat.emittedLen + 1, safe)]
    <3>1. full = new
      BY <1>1, <2>3
    <3>2. safe \in e .. Len(new) /\ safe <= ToolCallStart(WholeText)
      <4>1. e <= ToolCallStart(WholeText)
        BY <2>3 DEF ChatInv, Follows, e
      <4>2. ~ (Len(new) - e >= Marker /\ ToolCallStart(new) < Len(new))
        BY <2>3, <3>1 DEF e
      <4>3. Safe(new, e) \in e .. Len(new) /\ Safe(new, e) <= ToolCallStart(WholeText)
        BY <1>1, <4>1, <4>2, SafeIs
      <4>4. QED
        BY <3>1, <4>3 DEF e
    <3> DEFINE more == SubSeq(full, chat.emittedLen + 1, safe)
    <3>3. chat.out.content \o more = SubSeq(new, 1, safe)
      <4>1. SubSeq(TextRead, 1, e) \o SubSeq(new, e + 1, safe) = SubSeq(new, 1, safe)
        BY <1>1, <3>2, SentMore
      <4>2. chat.out.content = SubSeq(TextRead, 1, e)
        BY <1>0, <2>3 DEF ChatInv, e
      <4>3. QED
        BY <3>1, <4>1, <4>2 DEF e
    <3>p. chat' = [chat EXCEPT !.full = full, !.emittedLen = safe, !.out.content = @ \o more]
      BY <2>3
    <3> HIDE DEF full, safe, more
    <3>4. /\ IsChat(chat') /\ chat'.at = chat.at /\ chat'.hasTools = chat.hasTools
          /\ chat'.triggered = chat.triggered /\ chat'.emittedLen = safe
          /\ chat'.full = full /\ chat'.out.content = chat.out.content \o more
      BY <1>0, <3>p DEF IsChat, ChatFields, OutFields
    <3>5. safe \in 0 .. Len(new)
      BY <1>1, <3>2
    <3>6. Follows(chat)'
      BY <1>1, <3>1, <3>2, <3>4, <3>5 DEF Follows, new
    <3>7. ChatTextExact'
      BY <1>0, <3>4 DEF ChatTextExact
    <3>8. QED
      BY <1>0, <1>2, <3>3, <3>4, <3>6, <3>7 DEF ChatInv, new
  <2>4. QED
    BY <1>5, <2>1, <2>2, <2>3 DEF ToolEvent
<1>6. QED
  BY <1>4, <1>5 DEF ChatEvent

\* The rest of the text goes out, or what of it comes before the calls.
ToolsAnswered(c, calls, text, o) ==
  /\ o = [x \in OutFields |-> o[x]]
  /\ o.calls = calls
  /\ calls = <<>> => o.content = text
  /\ calls # <<>> => TrimRight(o.content) = TrimRight(SubSeq(text, 1, ToolCallStart(text)))
  /\ calls # <<>> => o.finish = "tool_calls"
  /\ c.truncated /\ calls = <<>> => o.finish = "length"

LEMMA ToolReplyIs ==
  ASSUME NEW c, IsChat(c), NEW text \in Seq(Letter), c.full = text, NEW e \in 0 .. Len(text),
         c.emittedLen = e, c.out.content = SubSeq(text, 1, e), e <= ToolCallStart(text), NEW calls,
         NEW o, o = ToolReply(c, calls)
  PROVE  ToolsAnswered(c, calls, text, o)
<1> DEFINE m == IF calls = <<>> THEN Len(text) ELSE ToolCallStart(text)
           kept == SubSeq(text, e + 1, m)
           first == SubSeq(text, 1, e)
           content == c.out.content \o (IF calls = <<>> THEN kept ELSE TrimRight(kept))
           toks == Lex(text)
           seen == HasUnclosedToolCall(toks) \/ SawToolMarker(toks)
           fin == CASE calls # <<>> -> "tool_calls"
                    [] calls = <<>> /\ (HasUnclosedToolCall(toks) \/ SawToolMarker(toks) \/ c.truncated) -> "length"
                    [] OTHER -> "stop"
<1>0. Len(text) \in Nat
  OBVIOUS
<1>1. o = [c.out EXCEPT !.content = content, !.calls = calls, !.finish = fin]
  BY DEF ToolReply
<1>2. ToolCallStart(text) \in 0 .. Len(text)
  BY StartIs
<1>3. m \in e .. Len(text)
  BY <1>0, <1>2
<1>4. first \o kept = SubSeq(text, 1, m)
  <2>1. Extends(text, text)
    BY <1>0 DEF Extends
  <2> HIDE DEF m
  <2>2. QED
    BY <1>3, <2>1, SentMore
<1>5. first \in Seq(Letter) /\ kept \in Seq(Letter)
  <2>1. \A i \in 1 .. e : text[i] \in Letter
    BY <1>0
  <2>2. \A i \in e + 1 .. m : text[i] \in Letter
    BY <1>0, <1>3
  <2>3. 1 \in Int /\ e \in Int /\ e + 1 \in Int /\ m \in Int
    BY <1>0, <1>3
  <2> HIDE DEF m
  <2>4. first \in Seq(Letter)
    BY <2>1, <2>3, SubSeqProperties
  <2>5. kept \in Seq(Letter)
    BY <2>2, <2>3, SubSeqProperties
  <2>6. QED
    BY <2>4, <2>5
<1>6. calls = <<>> => content = text
  <2>1. ASSUME calls = <<>> PROVE first \o kept = text
    <3>1. m = Len(text)
      BY <2>1
    <3>2. SubSeq(text, 1, Len(text)) = text
      BY SubSeqFull
    <3> HIDE DEF m, first, kept
    <3>3. QED
      BY <1>4, <3>1, <3>2
  <2>2. QED
    BY <2>1
<1>7. calls # <<>> => TrimRight(content) = TrimRight(SubSeq(text, 1, ToolCallStart(text)))
  <2> HIDE DEF first, kept
  <2>1. TrimRight(first \o TrimRight(kept)) = TrimRight(first \o kept)
    BY <1>5, TrimConcat
  <2>2. calls # <<>> => content = first \o TrimRight(kept)
    BY DEF first
  <2>3. QED
    BY <1>4, <2>1, <2>2
<1>8. /\ calls # <<>> => fin = "tool_calls"
      /\ c.truncated /\ calls = <<>> => fin = "length"
  <2>1. CASE calls # <<>>
    BY <2>1
  <2>2. CASE calls = <<>>
    BY <2>2
  <2>3. QED
    BY <2>1, <2>2
<1> HIDE DEF content, fin
<1>9. /\ o = [x \in OutFields |-> o[x]] /\ o.calls = calls /\ o.content = content /\ o.finish = fin
  BY <1>1 DEF IsChat, OutFields
<1>10. QED
  BY <1>6, <1>7, <1>8, <1>9 DEF ToolsAnswered

LEMMA SentBeforeMarker ==
  ASSUME Base, NEW r, Follows(r), r.hasTools
  PROVE  r.emittedLen <= ToolCallStart(TextRead)
<1>1. TextRead \in Seq(Letter) /\ WholeText \in Seq(Letter) /\ Extends(WholeText, TextRead)
  BY TextFacts
<1>2. /\ ToolCallStart(TextRead) = Len(TextRead) \/ ToolCallStart(WholeText) <= ToolCallStart(TextRead)
      /\ ToolCallStart(TextRead) \in 0 .. Len(TextRead) /\ ToolCallStart(WholeText) \in 0 .. Len(WholeText)
  BY <1>1, StartGrows, StartIs
<1>3. Len(TextRead) \in Nat /\ Len(WholeText) \in Nat
  BY <1>1
<1>4. r.emittedLen \in 0 .. Len(TextRead) /\ r.emittedLen <= ToolCallStart(WholeText)
  BY DEF Follows
<1> DEFINE m == ToolCallStart(TextRead)
           n == ToolCallStart(WholeText)
<1> HIDE DEF m, n
<1>5. QED
  BY <1>2, <1>3, <1>4 DEF m, n

\* The reply is all there: the calls are known, or the upstream is asked to go on.
LEMMA ChatAnswers ==
  ASSUME Base, ChatInv, Still, NEW c, IsChat(c), c.hasTools = TRUE, c.full = TextRead,
         c.emittedLen = chat.emittedLen, c.out = chat.out, c.triggered = chat.triggered,
         chat.at \in {"reading", "resolving"}, chat.hasTools, ending' # "none",
         ending' = "error" => c.truncated,
         NEW calls, chat' = [c EXCEPT !.at = "done", !.out = ToolReply(c, calls)]
  PROVE  ChatInv'
<1>1. TextRead \in Seq(Letter) /\ TextRead' = TextRead /\ WholeText' = WholeText
  BY TextFacts DEF Still
<1>2. chat.out.content = SubSeq(TextRead, 1, chat.emittedLen) /\ Follows(chat) /\ chat.triggered \in BOOLEAN
  BY DEF ChatInv
<1>3. chat.emittedLen <= ToolCallStart(TextRead) /\ chat.emittedLen \in 0 .. Len(TextRead)
  BY <1>2, SentBeforeMarker DEF Follows
<1> DEFINE o == ToolReply(c, calls)
           e == chat.emittedLen
           text == TextRead
<1>a. /\ IsChat(c) /\ text \in Seq(Letter) /\ c.full = text /\ e \in 0 .. Len(text) /\ c.emittedLen = e
      /\ c.out.content = SubSeq(text, 1, e) /\ e <= ToolCallStart(text) /\ o = ToolReply(c, calls)
  BY <1>1, <1>2, <1>3
<1> HIDE DEF o, e, text
<1>b. ToolsAnswered(c, calls, text, o)
  BY <1>a, ToolReplyIs
<1>4. /\ o = [x \in OutFields |-> o[x]]
      /\ o.calls = calls
      /\ calls = <<>> => o.content = TextRead
      /\ calls # <<>> => TrimRight(o.content) = TrimRight(SubSeq(TextRead, 1, ToolCallStart(TextRead)))
      /\ calls # <<>> => o.finish = "tool_calls"
      /\ c.truncated /\ calls = <<>> => o.finish = "length"
  BY <1>b DEF text, ToolsAnswered
<1>5. /\ IsChat(chat') /\ chat'.at = "done" /\ chat'.hasTools = TRUE /\ chat'.triggered = c.triggered
      /\ chat'.full = TextRead /\ chat'.emittedLen = chat.emittedLen /\ chat'.out = o
  BY <1>4 DEF IsChat, ChatFields, o
<1>6. Follows(chat)'
  BY <1>1, <1>2, <1>5 DEF Follows
<1>7. ChatTextExact'
  BY <1>1, <1>4, <1>5 DEF ChatTextExact
<1>8. QED
  BY <1>2, <1>4, <1>5, <1>6, <1>7 DEF ChatInv

LEMMA ChatEnds ==
  ASSUME Base, ChatInv, Still, ending = "none", NEW how \in {"eof", "error"}, ending' = how, ChatEnd(how)
  PROVE  ChatInv'
<1>0. /\ TextRead' = TextRead /\ WholeText' = WholeText /\ chat.at = "reading" /\ IsChat(chat)
      /\ Follows(chat) /\ chat.hasTools \in BOOLEAN /\ chat.triggered \in BOOLEAN
  BY DEF ChatInv, Still
<1>1. CASE DirectEnd(how)
  <2> DEFINE f == IF how = "error" THEN "length" ELSE chat.upstreamFinish
  <2>1. chat' = [chat EXCEPT !.at = "done", !.out.finish = f] /\ ~ chat.hasTools
    BY <1>1 DEF DirectEnd
  <2>2. how = "error" => f = "length"
    OBVIOUS
  <2> HIDE DEF f
  <2>3. /\ IsChat(chat') /\ chat'.at = "done" /\ chat'.hasTools = chat.hasTools /\ chat'.full = chat.full
        /\ chat'.triggered = chat.triggered /\ chat'.emittedLen = chat.emittedLen /\ chat'.out.finish = f
    BY <1>0, <2>1 DEF IsChat, ChatFields, OutFields
  <2>4. Follows(chat)' /\ ChatTextExact'
    BY <1>0, <2>1, <2>3 DEF Follows, ChatTextExact
  <2>5. QED
    BY <1>0, <2>1, <2>2, <2>3, <2>4 DEF ChatInv
<1>2. CASE ToolEnd(how)
  <2> DEFINE c == [chat EXCEPT !.truncated = (how = "error")]
             calls == ParseWithFormats(c.full, c.multiFormat).calls
  <2>1. /\ chat.hasTools
        /\ chat' = IF NeedsContinuation(c) THEN [c EXCEPT !.at = "resolving", !.resolving = c.full]
                   ELSE [c EXCEPT !.at = "done", !.out = ToolReply(c, calls)]
    BY <1>2 DEF ToolEnd
  <2>2. /\ IsChat(c) /\ c.hasTools = chat.hasTools /\ c.full = chat.full /\ c.emittedLen = chat.emittedLen
        /\ c.out = chat.out /\ c.triggered = chat.triggered /\ c.truncated = (how = "error")
    BY <1>0 DEF IsChat, ChatFields, OutFields
  <2> HIDE DEF c, calls
  <2>3. c.hasTools = TRUE /\ c.full = TextRead
    BY <1>0, <2>1, <2>2 DEF Follows
  <2>4. CASE NeedsContinuation(c)
    <3>1. chat' = [c EXCEPT !.at = "resolving", !.resolving = c.full]
      BY <2>1, <2>4
    <3>2. /\ IsChat(chat') /\ chat'.at = "resolving" /\ chat'.hasTools = c.hasTools /\ chat'.full = c.full
          /\ chat'.triggered = c.triggered /\ chat'.emittedLen = c.emittedLen /\ chat'.out = c.out
          /\ chat'.truncated = c.truncated
      BY <2>2, <3>1 DEF IsChat, ChatFields
    <3>3. Follows(chat)' /\ ChatTextExact'
      BY <1>0, <2>2, <3>2 DEF Follows, ChatTextExact
    <3>4. chat'.out.content = SubSeq(TextRead', 1, chat'.emittedLen)
      BY <1>0, <2>1, <2>2, <3>2 DEF ChatInv
    <3>5. QED
      BY <1>0, <2>2, <2>3, <3>2, <3>3, <3>4 DEF ChatInv
  <2>5. CASE ~ NeedsContinuation(c)
    <3>1. chat' = [c EXCEPT !.at = "done", !.out = ToolReply(c, calls)]
      BY <2>1, <2>5
    <3>2. ending' # "none" /\ (ending' = "error" => c.truncated)
      BY <2>2
    <3>3. QED
      BY <1>0, <2>1, <2>2, <2>3, <3>1, <3>2, ChatAnswers
  <2>6. QED
    BY <2>4, <2>5
<1>3. QED
  BY <1>1, <1>2 DEF ChatEnd

LEMMA ChatContinues ==
  ASSUME Base, ChatInv, Still, ending' = ending,
         (\E more \in Continuations : ContinueOnce(more)) \/ Resolved
  PROVE  ChatInv'
<1>0. /\ TextRead' = TextRead /\ WholeText' = WholeText /\ IsChat(chat) /\ ending # "none"
      /\ chat.at = "resolving" /\ chat.hasTools /\ Follows(chat) /\ chat.triggered \in BOOLEAN
      /\ chat.hasTools \in BOOLEAN /\ (ending = "error" => chat.truncated)
      /\ chat.out.content = SubSeq(TextRead, 1, chat.emittedLen)
  BY DEF ChatInv, Still, ContinueOnce, Resolved
<1>1. CASE \E more \in Continuations : ContinueOnce(more)
  <2>1. PICK more \in Continuations : ContinueOnce(more)
    BY <1>1
  <2> DEFINE text == drainStreamToText(more)
             joined == Join(chat.resolving, text)
  <2>2. \/ chat' = [chat EXCEPT !.round = MaxContinuationRounds]
        \/ chat' = [chat EXCEPT !.round = chat.round + 1, !.resolving = joined]
    BY <2>1 DEF ContinueOnce
  <2> HIDE DEF joined
  <2>3. /\ IsChat(chat') /\ chat'.at = chat.at /\ chat'.hasTools = chat.hasTools /\ chat'.full = chat.full
        /\ chat'.triggered = chat.triggered /\ chat'.emittedLen = chat.emittedLen /\ chat'.out = chat.out
        /\ chat'.truncated = chat.truncated
    <3>1. CASE chat' = [chat EXCEPT !.round = MaxContinuationRounds]
      BY <1>0, <3>1 DEF IsChat, ChatFields
    <3>2. CASE chat' = [chat EXCEPT !.round = chat.round + 1, !.resolving = joined]
      BY <1>0, <3>2 DEF IsChat, ChatFields
    <3>3. QED
      BY <2>2, <3>1, <3>2
  <2>4. Follows(chat)' /\ ChatTextExact'
    BY <1>0, <2>3 DEF Follows, ChatTextExact
  <2>5. QED
    BY <1>0, <2>3, <2>4 DEF ChatInv
<1>2. CASE Resolved
  <2>1. PICK calls : chat' = [chat EXCEPT !.at = "done", !.out = ToolReply(chat, calls)]
    BY <1>2 DEF Resolved
  <2>2. chat.hasTools = TRUE /\ chat.full = TextRead
    BY <1>0 DEF Follows
  <2>3. QED
    BY <1>0, <2>1, <2>2, ChatAnswers
<1>3. QED
  BY <1>1, <1>2

LEMMA ChatLeft ==
  ASSUME ChatInv, Still, ending' = "gone", ChatGone
  PROVE  ChatInv'
<1>1. /\ chat.at = "reading" /\ chat' = [chat EXCEPT !.at = "gone"]
      /\ TextRead' = TextRead /\ WholeText' = WholeText
  BY DEF ChatGone, Still
<1>2. /\ IsChat(chat') /\ chat'.at = "gone" /\ chat'.hasTools = chat.hasTools /\ chat'.full = chat.full
      /\ chat'.triggered = chat.triggered /\ chat'.emittedLen = chat.emittedLen /\ chat'.out = chat.out
  BY <1>1 DEF IsChat, ChatFields, ChatInv
<1>3. Follows(chat)' /\ ChatTextExact'
  BY <1>1, <1>2 DEF Follows, ChatTextExact, ChatInv
<1>4. QED
  BY <1>1, <1>2, <1>3 DEF ChatInv

\* The streams do not change while another one does.
LEMMA ChatWaits ==
  ASSUME ChatInv, Still, UNCHANGED <<chat, ending>>
  PROVE  ChatInv'
BY DEF ChatInv, Still, Follows, ChatTextExact

-----------------------------------------------------------------------------
\* The Claude stream: what its blocks are made with leaves the text alone.
ClaudeFields == {"at", "hasTools", "multiFormat", "full", "emittedLen", "triggered", "inThinking",
                 "thinkingStarted", "textStarted", "textBlockIdx", "stopReason", "out"}
IsClaude(c) == c = [x \in ClaudeFields |-> c[x]]

OnlyBlocks(c, d) ==
  /\ IsClaude(d) /\ d.at = c.at /\ d.hasTools = c.hasTools /\ d.full = c.full
  /\ d.emittedLen = c.emittedLen /\ d.triggered = c.triggered /\ d.stopReason = c.stopReason

LEMMA OnlyBlocksTwice ==
  ASSUME NEW c, NEW d, NEW e, OnlyBlocks(c, d), OnlyBlocks(d, e)
  PROVE  OnlyBlocks(c, e)
BY DEF OnlyBlocks

LEMMA EmitBlocks ==
  ASSUME NEW c, IsClaude(c), NEW events
  PROVE  OnlyBlocks(c, Emit(c, events))
BY DEF OnlyBlocks, IsClaude, ClaudeFields, Emit

LEMMA ThinkingBlocks ==
  ASSUME NEW c, IsClaude(c)
  PROVE  /\ OnlyBlocks(c, startThinkingBlock(c)) /\ OnlyBlocks(c, stopThinkingBlock(c))
         /\ \A cells : OnlyBlocks(c, emitThinkingDelta(c, cells))
<1>1. OnlyBlocks(c, c)
  BY DEF OnlyBlocks
<1>2. OnlyBlocks(c, startThinkingBlock(c))
  BY <1>1 DEF OnlyBlocks, IsClaude, ClaudeFields, Emit, startThinkingBlock
<1>3. OnlyBlocks(c, stopThinkingBlock(c))
  BY <1>1 DEF OnlyBlocks, IsClaude, ClaudeFields, Emit, stopThinkingBlock
<1>4. ASSUME NEW cells PROVE OnlyBlocks(c, emitThinkingDelta(c, cells))
  <2> DEFINE s == startThinkingBlock(c)
             events == <<BlockEvent("delta", 0, "thinking", cells)>>
  <2>1. emitThinkingDelta(c, cells) = c \/ emitThinkingDelta(c, cells) = Emit(s, events)
    BY DEF emitThinkingDelta
  <2> HIDE DEF events, s
  <2>2. OnlyBlocks(c, s) /\ IsClaude(s)
    BY <1>2 DEF OnlyBlocks, s
  <2>3. OnlyBlocks(c, Emit(s, events))
    BY <2>2, EmitBlocks, OnlyBlocksTwice
  <2>4. QED
    BY <1>1, <2>1, <2>3
<1>5. QED
  BY <1>2, <1>3, <1>4

LEMMA TextBlocks ==
  ASSUME NEW c, IsClaude(c)
  PROVE  /\ OnlyBlocks(c, startTextBlock(c)) /\ OnlyBlocks(c, stopTextBlock(c))
         /\ \A cells : OnlyBlocks(c, emitTextDelta(c, cells))
<1>1. OnlyBlocks(c, c)
  BY DEF OnlyBlocks
<1>2. OnlyBlocks(c, startTextBlock(c))
  <2> DEFINE d == stopThinkingBlock(c)
             events == <<BlockEvent("start", d.textBlockIdx, "text", <<>>)>>
             e == Emit(d, events)
  <2>1. startTextBlock(c) = c \/ startTextBlock(c) = [e EXCEPT !.textStarted = TRUE]
    BY DEF startTextBlock
  <2> HIDE DEF events, d, e
  <2>2. OnlyBlocks(c, d) /\ IsClaude(d)
    BY ThinkingBlocks DEF OnlyBlocks, d
  <2>3. OnlyBlocks(c, e)
    BY <2>2, EmitBlocks, OnlyBlocksTwice DEF e
  <2>4. OnlyBlocks(c, [e EXCEPT !.textStarted = TRUE])
    BY <2>3 DEF OnlyBlocks, IsClaude, ClaudeFields
  <2>5. QED
    BY <1>1, <2>1, <2>4
<1>3. OnlyBlocks(c, stopTextBlock(c))
  BY <1>1 DEF OnlyBlocks, IsClaude, ClaudeFields, Emit, stopTextBlock
<1>4. ASSUME NEW cells PROVE OnlyBlocks(c, emitTextDelta(c, cells))
  <2> DEFINE s == startTextBlock(c)
             events == <<BlockEvent("delta", s.textBlockIdx, "text", cells)>>
  <2>1. emitTextDelta(c, cells) = c \/ emitTextDelta(c, cells) = Emit(s, events)
    BY DEF emitTextDelta
  <2> HIDE DEF events, s
  <2>2. OnlyBlocks(c, s) /\ IsClaude(s)
    BY <1>2 DEF OnlyBlocks, s
  <2>3. OnlyBlocks(c, Emit(s, events))
    BY <2>2, EmitBlocks, OnlyBlocksTwice
  <2>4. QED
    BY <1>1, <2>1, <2>3
<1>5. QED
  BY <1>2, <1>3, <1>4

LEMMA LastBlocks ==
  ASSUME NEW c, IsClaude(c), NEW text, NEW calls
  PROVE  /\ OnlyBlocks(c, CleanText(c, text)) /\ OnlyBlocks(c, ToolBlocks(c, text, calls))
<1>1. OnlyBlocks(c, CleanText(c, text))
  <2> DEFINE begun == startTextBlock(c)
             unsent == IF c.emittedLen > 0 /\ c.emittedLen < Len(text)
                       THEN SubSeq(text, c.emittedLen + 1, Len(text)) ELSE text
             events == <<BlockEvent("delta", begun.textBlockIdx, "text", unsent)>>
             e == Emit(begun, events)
  <2>1. \/ CleanText(c, text) = stopTextBlock(c) \/ CleanText(c, text) = stopTextBlock(begun)
        \/ CleanText(c, text) = stopTextBlock(e)
    BY DEF CleanText
  <2> HIDE DEF unsent, events, begun, e
  <2>2. OnlyBlocks(c, begun) /\ IsClaude(begun)
    BY TextBlocks DEF OnlyBlocks, begun
  <2>3. OnlyBlocks(begun, e) /\ IsClaude(e)
    BY <2>2, EmitBlocks DEF OnlyBlocks, e
  <2>4. OnlyBlocks(c, stopTextBlock(c))
    BY TextBlocks
  <2>5. OnlyBlocks(begun, stopTextBlock(begun)) /\ OnlyBlocks(e, stopTextBlock(e))
    BY <2>2, <2>3, TextBlocks
  <2>6. OnlyBlocks(c, stopTextBlock(begun)) /\ OnlyBlocks(c, stopTextBlock(e))
    BY <2>2, <2>3, <2>5, OnlyBlocksTwice
  <2>7. QED
    BY <2>1, <2>4, <2>6
<1>2. OnlyBlocks(c, ToolBlocks(c, text, calls))
  <2>1. PICK events : ToolBlocks(c, text, calls) = Emit(c, events)
    BY DEF ToolBlocks
  <2>2. QED
    BY <2>1, EmitBlocks
<1>3. QED
  BY <1>1, <1>2

\* All but the last cells of a text without a marker may go out.
LEMMA HeldBack ==
  ASSUME NEW w \in Seq(Letter), NEW t \in Seq(Letter), Extends(w, t), ToolCallStart(t) = Len(t),
         NEW h \in Nat, 2 <= h, NEW e \in Nat, Len(t) - h > e
  PROVE  Len(t) - h \in 0 .. Len(t) /\ Len(t) - h <= ToolCallStart(w)
<1>1. Len(t) \in Nat
  OBVIOUS
<1>2. Len(t) - 1 <= ToolCallStart(w)
  BY StartGrows
<1>3. ToolCallStart(w) \in 0 .. Len(w) /\ Len(w) \in Nat
  BY StartIs
<1> DEFINE n == ToolCallStart(w)
<1> HIDE DEF n
<1>4. n \in Nat
  BY <1>3 DEF n
<1>5. Len(t) - h \in 0 .. Len(t) /\ Len(t) - h <= n
  BY <1>1, <1>2, <1>4 DEF n
<1>6. QED
  BY <1>5 DEF n

ClaudeInv ==
  /\ IsClaude(claude)
  /\ claude.at \in {"reading", "done", "gone"}
  /\ claude.hasTools \in BOOLEAN /\ claude.triggered \in BOOLEAN
  /\ Follows(claude)
  /\ claude.at = "reading" <=> ending = "none"
  /\ ending = "error" => claude.stopReason \in {"max_tokens", "tool_use"}

\* What a stream sent once it heard of the event, in the terms of the text now read.
FollowsNow(r) ==
  /\ r.full = TextRead'
  /\ r.emittedLen \in 0 .. Len(TextRead')
  /\ r.hasTools => r.emittedLen <= ToolCallStart(WholeText')

LEMMA ClaudeAnswers ==
  ASSUME NEW evt, Heard(evt), evt.phase # "think", NEW c, IsClaude(c), Follows(c),
         c.hasTools \in BOOLEAN, c.triggered \in BOOLEAN, NEW a, a = AnswerText(c, evt.cells)
  PROVE  /\ IsClaude(a) /\ a.at = c.at /\ a.hasTools = c.hasTools /\ a.triggered \in BOOLEAN
         /\ FollowsNow(a)
<1> DEFINE new == TextRead'
           cells == evt.cells
           d == [c EXCEPT !.full = new]
           safe == Len(new) - Marker
           all == emitTextDelta(d, cells)
           most == emitTextDelta(d, SubSeq(new, c.emittedLen + 1, safe))
<1>1. /\ TextRead \in Seq(Letter) /\ new \in Seq(Letter) /\ WholeText \in Seq(Letter)
      /\ WholeText' = WholeText /\ Extends(WholeText, new) /\ Extends(new, TextRead)
      /\ c.emittedLen \in 0 .. Len(TextRead) /\ c.full = TextRead
      /\ c.hasTools => c.emittedLen <= ToolCallStart(WholeText)
      /\ new = c.full \o cells
  BY DEF Heard, Follows
<1>2. Len(TextRead) \in Nat /\ Len(new) \in Nat /\ Len(TextRead) <= Len(new) /\ Marker = 2
  BY <1>1, SpellingIs DEF Extends
<1>3. /\ IsClaude(d) /\ d.full = new /\ d.at = c.at /\ d.hasTools = c.hasTools
      /\ d.triggered = c.triggered /\ d.emittedLen = c.emittedLen
  BY DEF IsClaude, ClaudeFields
<1>4. [c EXCEPT !.full = @ \o cells] = d
  BY <1>1
<1>5. a = CASE ~ c.hasTools -> [all EXCEPT !.emittedLen = Len(new)]
            [] c.hasTools /\ ~ c.triggered /\ ToolCallStart(new) < Len(new) ->
                 [d EXCEPT !.triggered = TRUE]
            [] c.hasTools /\ ~ c.triggered /\ ToolCallStart(new) = Len(new) /\ safe > c.emittedLen ->
                 [most EXCEPT !.emittedLen = safe]
            [] OTHER -> d
  <2> HIDE DEF d, new, cells
  <2>1. [c EXCEPT !.full = @ \o cells] = d /\ d.full = new
    BY <1>3, <1>4
  <2>2. QED
    BY <2>1 DEF AnswerText, cells
<1>6. OnlyBlocks(d, all) /\ OnlyBlocks(d, most)
  <2> HIDE DEF d
  <2>1. QED
    BY <1>3, TextBlocks
<1> HIDE DEF d, all, most, new
<1>7. CASE ~ c.hasTools /\ a = [all EXCEPT !.emittedLen = Len(new)]
  <2>1. /\ IsClaude(a) /\ a.at = all.at /\ a.hasTools = all.hasTools /\ a.triggered = all.triggered
        /\ a.full = all.full /\ a.emittedLen = Len(new)
    BY <1>6, <1>7 DEF OnlyBlocks, IsClaude, ClaudeFields
  <2>2. QED
    BY <1>2, <1>3, <1>6, <1>7, <2>1 DEF OnlyBlocks, FollowsNow, new
<1>8. ASSUME IsClaude(a), a.at = d.at, a.hasTools = d.hasTools, a.full = d.full,
             a.emittedLen = d.emittedLen, a.triggered \in BOOLEAN
      PROVE  FollowsNow(a)
  BY <1>1, <1>2, <1>3, <1>8 DEF FollowsNow, new
<1>9. CASE a = [d EXCEPT !.triggered = TRUE]
  <2>1. /\ IsClaude(a) /\ a.at = d.at /\ a.hasTools = d.hasTools /\ a.triggered = TRUE
        /\ a.full = d.full /\ a.emittedLen = d.emittedLen
    BY <1>3, <1>9 DEF IsClaude, ClaudeFields
  <2>2. QED
    BY <1>3, <1>8, <2>1
<1>10. CASE c.hasTools /\ ToolCallStart(new) = Len(new) /\ safe > c.emittedLen /\ a = [most EXCEPT !.emittedLen = safe]
  <2>1. /\ IsClaude(a) /\ a.at = most.at /\ a.hasTools = most.hasTools /\ a.triggered = most.triggered
        /\ a.full = most.full /\ a.emittedLen = safe
    BY <1>6, <1>10 DEF OnlyBlocks, IsClaude, ClaudeFields
  <2>2. c.emittedLen \in Nat /\ Marker \in Nat /\ 2 <= Marker /\ Len(new) - Marker > c.emittedLen
    BY <1>1, <1>2, <1>10
  <2>3. safe \in 0 .. Len(new) /\ safe <= ToolCallStart(WholeText)
    BY <1>1, <1>10, <2>2, HeldBack
  <2>4. QED
    BY <1>1, <1>3, <1>6, <2>1, <2>3 DEF OnlyBlocks, FollowsNow, new
<1>11. CASE a = d
  BY <1>3, <1>8, <1>11
<1>12. QED
  BY <1>5, <1>7, <1>9, <1>10, <1>11

LEMMA ClaudeHears ==
  ASSUME NEW evt, Heard(evt), ClaudeInv, ClaudeEvent(evt)
  PROVE  ClaudeInv'
<1>0. /\ claude.at = "reading" /\ IsClaude(claude) /\ Follows(claude) /\ ending = "none" /\ ending' = "none"
      /\ claude.hasTools \in BOOLEAN /\ claude.triggered \in BOOLEAN
  BY DEF Heard, ClaudeInv
<1>1. ASSUME IsClaude(claude'), claude'.at = "reading", claude'.hasTools \in BOOLEAN,
             claude'.triggered \in BOOLEAN, FollowsNow(claude')
      PROVE  ClaudeInv'
  BY <1>0, <1>1 DEF ClaudeInv, FollowsNow, Follows
<1>2. CASE evt.phase = "think"
  <2> DEFINE d == emitThinkingDelta(claude, evt.cells)
  <2>1. claude' = [d EXCEPT !.inThinking = TRUE]
    BY <1>2 DEF ClaudeEvent
  <2>2. OnlyBlocks(claude, d)
    BY <1>0, ThinkingBlocks
  <2> HIDE DEF d
  <2>3. OnlyBlocks(claude, claude')
    BY <2>1, <2>2 DEF OnlyBlocks, IsClaude, ClaudeFields
  <2>4. TextRead' = TextRead /\ WholeText' = WholeText
    BY <1>2 DEF Heard
  <2>5. QED
    BY <1>0, <1>1, <2>3, <2>4 DEF OnlyBlocks, FollowsNow, Follows
<1>3. CASE evt.phase # "think"
  <2> DEFINE s == stopThinkingBlock(claude)
             q == IF claude.inThinking /\ evt.phase = "answer" THEN [s EXCEPT !.inThinking = FALSE] ELSE claude
             a == AnswerText(q, evt.cells)
             f == IF evt.finish = "none" THEN a.stopReason ELSE StopReason(evt.finish)
  <2>1. claude' = [a EXCEPT !.stopReason = f]
    BY <1>3 DEF ClaudeEvent
  <2>2. OnlyBlocks(claude, s) /\ OnlyBlocks(claude, claude)
    BY <1>0, ThinkingBlocks DEF OnlyBlocks
  <2>3. OnlyBlocks(claude, q)
    <3> HIDE DEF s
    <3>1. OnlyBlocks(claude, [s EXCEPT !.inThinking = FALSE])
      BY <2>2 DEF OnlyBlocks, IsClaude, ClaudeFields
    <3>2. QED
      BY <2>2, <3>1
  <2> HIDE DEF f, s, q
  <2>4. /\ IsClaude(q) /\ Follows(q) /\ q.at = "reading"
        /\ q.hasTools \in BOOLEAN /\ q.triggered \in BOOLEAN /\ a = AnswerText(q, evt.cells)
    BY <1>0, <2>3 DEF OnlyBlocks, Follows
  <2> HIDE DEF a
  <2>5. /\ IsClaude(a) /\ a.at = q.at /\ a.hasTools = q.hasTools /\ a.triggered \in BOOLEAN /\ FollowsNow(a)
    BY <1>3, <2>4, ClaudeAnswers
  <2>6. /\ IsClaude(claude') /\ claude'.at = a.at /\ claude'.hasTools = a.hasTools
        /\ claude'.triggered = a.triggered /\ claude'.full = a.full /\ claude'.emittedLen = a.emittedLen
    BY <2>1, <2>5 DEF IsClaude, ClaudeFields
  <2>7. QED
    BY <1>1, <2>4, <2>5, <2>6 DEF FollowsNow
<1>4. QED
  BY <1>2, <1>3

LEMMA ClaudeEnds ==
  ASSUME ClaudeInv, Still, ending = "none", NEW how \in {"eof", "error"}, ending' = how, ClaudeEnd(how)
  PROVE  ClaudeInv'
<1>0. IsClaude(claude) /\ Follows(claude) /\ claude.hasTools \in BOOLEAN /\ claude.triggered \in BOOLEAN
  BY DEF ClaudeInv
<1> DEFINE f == IF how = "error" THEN "max_tokens" ELSE claude.stopReason
           b == [claude EXCEPT !.inThinking = FALSE, !.stopReason = f]
           c == stopThinkingBlock(b)
           answer == Reply(claude.full, claude.hasTools, claude.multiFormat)
           d == BlocksDone(c, answer)
<1>1. claude' = [d EXCEPT !.at = "done"]
  BY DEF ClaudeEnd
<1> HIDE DEF f, answer
<1>2. /\ IsClaude(b) /\ b.hasTools = claude.hasTools /\ b.full = claude.full
      /\ b.emittedLen = claude.emittedLen /\ b.triggered = claude.triggered /\ b.stopReason = f
  BY <1>0 DEF IsClaude, ClaudeFields
<1> HIDE DEF b
<1>3. OnlyBlocks(b, c) /\ IsClaude(c)
  BY <1>2, ThinkingBlocks DEF OnlyBlocks
<1> HIDE DEF c
<1>4. /\ IsClaude(d) /\ d.hasTools = c.hasTools /\ d.full = c.full /\ d.emittedLen = c.emittedLen
      /\ d.triggered = c.triggered /\ d.stopReason \in {c.stopReason, "tool_use"}
  <2> DEFINE m == CleanText(c, answer.text)
             k == ToolBlocks(m, answer.text, answer.calls)
             g == emitTextDelta(c, SubSeq(c.full, c.emittedLen + 1, Len(c.full)))
  <2>1. d = [k EXCEPT !.stopReason = "tool_use"] \/ d = stopTextBlock(g) \/ d = stopTextBlock(c)
    <3>1. CASE answer.calls # <<>>
      BY <3>1 DEF BlocksDone
    <3>2. CASE answer.calls = <<>> /\ c.hasTools
      BY <3>2 DEF BlocksDone
    <3>3. CASE answer.calls = <<>> /\ ~ c.hasTools
      BY <3>3 DEF BlocksDone
    <3>4. QED
      BY <3>1, <3>2, <3>3
  <2>2. OnlyBlocks(c, m) /\ IsClaude(m)
    BY <1>3, LastBlocks DEF OnlyBlocks
  <2>3. OnlyBlocks(c, g) /\ IsClaude(g) /\ OnlyBlocks(c, stopTextBlock(c))
    BY <1>3, TextBlocks DEF OnlyBlocks
  <2> HIDE DEF m, g
  <2>4. OnlyBlocks(m, k)
    BY <2>2, LastBlocks
  <2>5. OnlyBlocks(g, stopTextBlock(g))
    BY <2>3, TextBlocks
  <2> HIDE DEF k, d
  <2>6. OnlyBlocks(c, k) /\ OnlyBlocks(c, stopTextBlock(g))
    BY <2>2, <2>3, <2>4, <2>5, OnlyBlocksTwice
  <2>7. CASE d = [k EXCEPT !.stopReason = "tool_use"]
    BY <2>6, <2>7 DEF OnlyBlocks, IsClaude, ClaudeFields
  <2>8. CASE d = stopTextBlock(g) \/ d = stopTextBlock(c)
    BY <2>3, <2>6, <2>8 DEF OnlyBlocks
  <2>9. QED
    BY <2>1, <2>7, <2>8
<1> HIDE DEF d
<1>5. /\ IsClaude(claude') /\ claude'.at = "done" /\ claude'.hasTools = d.hasTools
      /\ claude'.triggered = d.triggered /\ claude'.full = d.full /\ claude'.emittedLen = d.emittedLen
      /\ claude'.stopReason = d.stopReason
  BY <1>1, <1>4 DEF IsClaude, ClaudeFields
<1>6. how = "error" => f = "max_tokens"
  BY DEF f
<1>7. how = "error" => claude'.stopReason \in {"max_tokens", "tool_use"}
  BY <1>2, <1>3, <1>4, <1>5, <1>6 DEF OnlyBlocks
<1>8. /\ claude'.hasTools = claude.hasTools /\ claude'.triggered = claude.triggered
      /\ claude'.full = claude.full /\ claude'.emittedLen = claude.emittedLen
  BY <1>2, <1>3, <1>4, <1>5 DEF OnlyBlocks
<1>9. Follows(claude)'
  BY <1>0, <1>8 DEF Follows, Still
<1>10. QED
  BY <1>0, <1>5, <1>7, <1>8, <1>9 DEF ClaudeInv

LEMMA ClaudeLeft ==
  ASSUME ClaudeInv, Still, ending' = "gone", ClaudeGone
  PROVE  ClaudeInv'
<1>1. claude' = [claude EXCEPT !.at = "gone"] /\ TextRead' = TextRead /\ WholeText' = WholeText
  BY DEF ClaudeGone, Still
<1>2. /\ IsClaude(claude') /\ claude'.at = "gone" /\ claude'.hasTools = claude.hasTools
      /\ claude'.full = claude.full /\ claude'.triggered = claude.triggered
      /\ claude'.emittedLen = claude.emittedLen
  BY <1>1 DEF IsClaude, ClaudeFields, ClaudeInv
<1>3. Follows(claude)'
  BY <1>1, <1>2 DEF Follows, ClaudeInv
<1>4. QED
  BY <1>1, <1>2, <1>3 DEF ClaudeInv

LEMMA ClaudeWaits ==
  ASSUME ClaudeInv, Still, UNCHANGED <<claude, ending>>
  PROVE  ClaudeInv'
BY DEF ClaudeInv, Still, Follows

-----------------------------------------------------------------------------
\* The Responses stream: its items are made without touching the text.
ResponsesFields == {"at", "hasTools", "multiFormat", "full", "thinking", "emittedLen", "triggered",
                    "inThinking", "thinkingStarted", "thinkingDone", "messageStarted", "outputIdx",
                    "doneText", "status", "out"}
IsResponses(r) == r = [x \in ResponsesFields |-> r[x]]

OnlyItems(r, s) ==
  /\ IsResponses(s) /\ s.at = r.at /\ s.hasTools = r.hasTools /\ s.multiFormat = r.multiFormat
  /\ s.full = r.full /\ s.emittedLen = r.emittedLen /\ s.triggered = r.triggered

LEMMA OnlyItemsTwice ==
  ASSUME NEW r, NEW s, NEW t, OnlyItems(r, s), OnlyItems(s, t)
  PROVE  OnlyItems(r, t)
BY DEF OnlyItems

LEMMA SendItems ==
  ASSUME NEW r, IsResponses(r), NEW events
  PROVE  OnlyItems(r, Send(r, events))
BY DEF OnlyItems, IsResponses, ResponsesFields, Send

LEMMA Items ==
  ASSUME NEW r, IsResponses(r)
  PROVE  /\ OnlyItems(r, startReasoningItem(r)) /\ OnlyItems(r, closeReasoningItem(r))
         /\ OnlyItems(r, startMessageItem(r)) /\ \A cells : OnlyItems(r, sendTextDelta(r, cells))
<1>1. OnlyItems(r, r)
  BY DEF OnlyItems
<1>2. OnlyItems(r, startReasoningItem(r))
  BY <1>1 DEF OnlyItems, IsResponses, ResponsesFields, Send, startReasoningItem
<1>3. OnlyItems(r, closeReasoningItem(r))
  <2> DEFINE events == <<ItemEvent("delta", r.outputIdx, "reasoning", r.thinking),
                         ItemEvent("stop", r.outputIdx, "reasoning", <<>>)>>
             s == Send(r, events)
  <2>1. \/ closeReasoningItem(r) = r
        \/ closeReasoningItem(r) = [s EXCEPT !.thinkingDone = TRUE, !.outputIdx = @ + 1]
    BY DEF closeReasoningItem
  <2> HIDE DEF events
  <2>2. OnlyItems(r, s)
    BY SendItems
  <2> HIDE DEF s
  <2>3. OnlyItems(r, [s EXCEPT !.thinkingDone = TRUE, !.outputIdx = s.outputIdx + 1])
    BY <2>2 DEF OnlyItems, IsResponses, ResponsesFields
  <2>4. QED
    BY <1>1, <2>1, <2>3
<1>4. OnlyItems(r, startMessageItem(r))
  <2> DEFINE s == closeReasoningItem(r)
             events == <<ItemEvent("start", s.outputIdx, "message", <<>>)>>
             t == Send(s, events)
  <2>1. startMessageItem(r) = r \/ startMessageItem(r) = [t EXCEPT !.messageStarted = TRUE]
    BY DEF startMessageItem
  <2> HIDE DEF events, s, t
  <2>2. OnlyItems(r, s) /\ IsResponses(s)
    BY <1>3 DEF OnlyItems, s
  <2>3. OnlyItems(r, t)
    BY <2>2, SendItems, OnlyItemsTwice DEF t
  <2>4. OnlyItems(r, [t EXCEPT !.messageStarted = TRUE])
    BY <2>3 DEF OnlyItems, IsResponses, ResponsesFields
  <2>5. QED
    BY <1>1, <2>1, <2>4
<1>5. ASSUME NEW cells PROVE OnlyItems(r, sendTextDelta(r, cells))
  <2> DEFINE s == startMessageItem(r)
             events == <<ItemEvent("delta", s.outputIdx, "message", cells)>>
  <2>1. sendTextDelta(r, cells) = r \/ sendTextDelta(r, cells) = Send(s, events)
    BY DEF sendTextDelta
  <2> HIDE DEF events, s
  <2>2. OnlyItems(r, s) /\ IsResponses(s)
    BY <1>4 DEF OnlyItems, s
  <2>3. OnlyItems(r, Send(s, events))
    BY <2>2, SendItems, OnlyItemsTwice
  <2>4. QED
    BY <1>1, <2>1, <2>3
<1>6. QED
  BY <1>2, <1>3, <1>4, <1>5

LEMMA LastItems ==
  ASSUME NEW r, IsResponses(r), NEW answer
  PROVE  /\ IsResponses(ItemsDone(r, answer)) /\ ItemsDone(r, answer).at = "done"
         /\ ItemsDone(r, answer).hasTools = r.hasTools /\ ItemsDone(r, answer).full = r.full
         /\ ItemsDone(r, answer).emittedLen = r.emittedLen
         /\ ItemsDone(r, answer).triggered = r.triggered
<1> DEFINE text == answer.text
           a == sendTextDelta(r, SubSeq(text, r.emittedLen + 1, Len(text)))
           b == startMessageItem(a)
           m == Send(b, <<ItemEvent("stop", b.outputIdx, "message", <<>>)>>)
           d == [m EXCEPT !.outputIdx = @ + 1, !.doneText = text]
<1>1. OnlyItems(r, a) /\ IsResponses(a)
  BY Items DEF OnlyItems
<1> HIDE DEF a, text
<1>2. OnlyItems(a, b) /\ IsResponses(b)
  BY <1>1, Items DEF OnlyItems
<1>3. d = MessageDone(RestOfText(r, answer.text), answer.text)
  BY DEF MessageDone, RestOfText, a, text
<1> HIDE DEF b
<1>4. OnlyItems(b, m) /\ IsResponses(m)
  BY <1>2, SendItems DEF OnlyItems
<1> HIDE DEF m
<1>5. OnlyItems(m, d) /\ IsResponses(d)
  <2>1. d = [m EXCEPT !.outputIdx = m.outputIdx + 1, !.doneText = text]
    OBVIOUS
  <2> HIDE DEF d
  <2>2. QED
    BY <1>4, <2>1 DEF OnlyItems, IsResponses, ResponsesFields
<1> HIDE DEF d
<1>6. PICK events : ItemsDone(r, answer)
        = [[Send(d, events) EXCEPT !.outputIdx = @ + Len(answer.calls)] EXCEPT !.at = "done"]
  BY <1>3 DEF ItemsDone, CallItems
<1> DEFINE s == Send(d, events)
           c == [s EXCEPT !.outputIdx = s.outputIdx + Len(answer.calls)]
           e == [c EXCEPT !.at = "done"]
<1>7. OnlyItems(d, s) /\ IsResponses(s)
  BY <1>5, SendItems DEF OnlyItems
<1>8. ItemsDone(r, answer) = e
  BY <1>6
<1> HIDE DEF s
<1>9. OnlyItems(d, c) /\ IsResponses(c)
  BY <1>7 DEF OnlyItems, IsResponses, ResponsesFields
<1> HIDE DEF c
<1>10. /\ IsResponses(e) /\ e.at = "done" /\ e.hasTools = c.hasTools /\ e.full = c.full
       /\ e.emittedLen = c.emittedLen /\ e.triggered = c.triggered
  BY <1>9 DEF IsResponses, ResponsesFields
<1> HIDE DEF e
<1>11. QED
  BY <1>1, <1>2, <1>4, <1>5, <1>8, <1>9, <1>10 DEF OnlyItems

ResponsesInv ==
  /\ IsResponses(responses)
  /\ responses.at \in {"reading", "done", "gone"}
  /\ responses.hasTools \in BOOLEAN /\ responses.triggered \in BOOLEAN
  /\ Follows(responses)
  /\ responses.at = "reading" <=> ending = "none"
  /\ ending = "error" => responses.status = "incomplete"

LEMMA ResponsesAnswers ==
  ASSUME NEW evt, Heard(evt), evt.phase # "think", NEW c, IsResponses(c), Follows(c),
         c.hasTools \in BOOLEAN, c.triggered \in BOOLEAN, NEW a, a = MessageText(c, evt.cells)
  PROVE  /\ IsResponses(a) /\ a.at = c.at /\ a.hasTools = c.hasTools /\ a.triggered \in BOOLEAN
         /\ FollowsNow(a)
<1> DEFINE new == TextRead'
           cells == evt.cells
           d == [c EXCEPT !.full = new]
           h == Holdback(c.multiFormat)
           safe == Len(new) - h
           all == sendTextDelta(d, cells)
           most == sendTextDelta(d, SubSeq(new, c.emittedLen + 1, safe))
<1>1. /\ TextRead \in Seq(Letter) /\ new \in Seq(Letter) /\ WholeText \in Seq(Letter)
      /\ WholeText' = WholeText /\ Extends(WholeText, new) /\ Extends(new, TextRead)
      /\ c.emittedLen \in 0 .. Len(TextRead) /\ c.full = TextRead
      /\ c.hasTools => c.emittedLen <= ToolCallStart(WholeText)
      /\ new = c.full \o cells
  BY DEF Heard, Follows
<1>2. /\ Len(TextRead) \in Nat /\ Len(new) \in Nat /\ Len(TextRead) <= Len(new)
      /\ h \in Nat /\ 2 <= h
  BY <1>1, HoldbackIs DEF Extends
<1>3. /\ IsResponses(d) /\ d.full = new /\ d.at = c.at /\ d.hasTools = c.hasTools
      /\ d.triggered = c.triggered /\ d.emittedLen = c.emittedLen
  BY DEF IsResponses, ResponsesFields
<1>4. [c EXCEPT !.full = @ \o cells] = d
  BY <1>1
<1>5. a = CASE ~ c.hasTools -> [all EXCEPT !.emittedLen = Len(new)]
            [] c.hasTools /\ ~ c.triggered /\ ShowsTag(new, c.multiFormat) -> [d EXCEPT !.triggered = TRUE]
            [] c.hasTools /\ ~ c.triggered /\ ~ ShowsTag(new, c.multiFormat) /\ safe > c.emittedLen ->
                 [most EXCEPT !.emittedLen = safe]
            [] OTHER -> d
  <2> HIDE DEF d, new, cells
  <2>1. [c EXCEPT !.full = @ \o cells] = d /\ d.full = new
    BY <1>3, <1>4
  <2>2. QED
    BY <2>1 DEF MessageText, cells
<1>6. OnlyItems(d, all) /\ OnlyItems(d, most)
  <2> HIDE DEF d
  <2>1. QED
    BY <1>3, Items
<1> HIDE DEF d, all, most, new, h
<1>7. CASE ~ c.hasTools /\ a = [all EXCEPT !.emittedLen = Len(new)]
  <2>1. /\ IsResponses(a) /\ a.at = all.at /\ a.hasTools = all.hasTools /\ a.triggered = all.triggered
        /\ a.full = all.full /\ a.emittedLen = Len(new)
    BY <1>6, <1>7 DEF OnlyItems, IsResponses, ResponsesFields
  <2>2. QED
    BY <1>2, <1>3, <1>6, <1>7, <2>1 DEF OnlyItems, FollowsNow, new
<1>8. ASSUME IsResponses(a), a.at = d.at, a.hasTools = d.hasTools, a.full = d.full,
             a.emittedLen = d.emittedLen, a.triggered \in BOOLEAN
      PROVE  FollowsNow(a)
  BY <1>1, <1>2, <1>3, <1>8 DEF FollowsNow, new
<1>9. CASE a = [d EXCEPT !.triggered = TRUE]
  <2>1. /\ IsResponses(a) /\ a.at = d.at /\ a.hasTools = d.hasTools /\ a.triggered = TRUE
        /\ a.full = d.full /\ a.emittedLen = d.emittedLen
    BY <1>3, <1>9 DEF IsResponses, ResponsesFields
  <2>2. QED
    BY <1>3, <1>8, <2>1
<1>10. CASE /\ c.hasTools /\ ~ ShowsTag(new, c.multiFormat) /\ safe > c.emittedLen
            /\ a = [most EXCEPT !.emittedLen = safe]
  <2>1. /\ IsResponses(a) /\ a.at = most.at /\ a.hasTools = most.hasTools /\ a.triggered = most.triggered
        /\ a.full = most.full /\ a.emittedLen = safe
    BY <1>6, <1>10 DEF OnlyItems, IsResponses, ResponsesFields
  <2>2. c.emittedLen \in Nat /\ Len(new) - h > c.emittedLen
    BY <1>1, <1>2, <1>10
  <2>3. ToolCallStart(new) = Len(new)
    BY <1>1, <1>10, NoTagNoMarker
  <2>4. safe \in 0 .. Len(new) /\ safe <= ToolCallStart(WholeText)
    BY <1>1, <1>2, <2>2, <2>3, HeldBack
  <2>5. QED
    BY <1>1, <1>3, <1>6, <2>1, <2>4 DEF OnlyItems, FollowsNow, new
<1>11. CASE a = d
  BY <1>3, <1>8, <1>11
<1>12. QED
  BY <1>5, <1>7, <1>9, <1>10, <1>11

LEMMA ResponsesHears ==
  ASSUME NEW evt, Heard(evt), ResponsesInv, ResponsesEvent(evt)
  PROVE  ResponsesInv'
<1>0. /\ responses.at = "reading" /\ IsResponses(responses) /\ Follows(responses)
      /\ ending = "none" /\ ending' = "none"
      /\ responses.hasTools \in BOOLEAN /\ responses.triggered \in BOOLEAN
  BY DEF Heard, ResponsesInv
<1>1. ASSUME IsResponses(responses'), responses'.at = "reading", responses'.hasTools \in BOOLEAN,
             responses'.triggered \in BOOLEAN, FollowsNow(responses')
      PROVE  ResponsesInv'
  BY <1>0, <1>1 DEF ResponsesInv, FollowsNow, Follows
<1> DEFINE quiet == [responses EXCEPT !.inThinking = @ /\ evt.phase # "answer"]
<1>2. OnlyItems(responses, quiet)
  BY <1>0 DEF OnlyItems, IsResponses, ResponsesFields
<1>3. ASSUME OnlyItems(responses, responses'), TextRead' = TextRead
      PROVE  ResponsesInv'
  <2>1. WholeText' = WholeText
    BY DEF Heard
  <2>2. QED
    BY <1>0, <1>1, <1>3, <2>1 DEF OnlyItems, FollowsNow, Follows
<1>4. CASE evt.phase = "think"
  <2> DEFINE s == IF responses.inThinking THEN responses ELSE startReasoningItem(responses)
  <2>1. responses' = [s EXCEPT !.inThinking = TRUE, !.thinking = s.thinking \o evt.cells]
    BY <1>4 DEF ResponsesEvent
  <2>2. OnlyItems(responses, s)
    BY <1>0, Items DEF OnlyItems
  <2> HIDE DEF s
  <2>3. OnlyItems(responses, responses')
    BY <2>1, <2>2 DEF OnlyItems, IsResponses, ResponsesFields
  <2>4. TextRead' = TextRead
    BY <1>4 DEF Heard
  <2>5. QED
    BY <1>3, <2>3, <2>4
<1>5. CASE evt.phase # "think" /\ evt.cells = <<>>
  <2>1. responses' = quiet
    BY <1>5 DEF ResponsesEvent
  <2>2. TextRead' = TextRead
    BY <1>5, ConcatEmptySeq DEF Heard
  <2>3. QED
    BY <1>2, <1>3, <2>1, <2>2
<1>6. CASE evt.phase # "think" /\ evt.cells # <<>>
  <2>1. responses' = MessageText(quiet, evt.cells)
    BY <1>6 DEF ResponsesEvent
  <2> HIDE DEF quiet
  <2>2. /\ IsResponses(quiet) /\ Follows(quiet) /\ quiet.at = "reading"
        /\ quiet.hasTools \in BOOLEAN /\ quiet.triggered \in BOOLEAN
    BY <1>0, <1>2 DEF OnlyItems, Follows
  <2>3. /\ IsResponses(responses') /\ responses'.at = quiet.at /\ responses'.hasTools = quiet.hasTools
        /\ responses'.triggered \in BOOLEAN /\ FollowsNow(responses')
    BY <1>6, <2>1, <2>2, ResponsesAnswers
  <2>4. QED
    BY <1>1, <2>2, <2>3
<1>7. QED
  BY <1>4, <1>5, <1>6

LEMMA ResponsesEnds ==
  ASSUME ResponsesInv, Still, ending = "none", NEW how \in {"eof", "error"}, ending' = how,
         ResponsesEnd(how)
  PROVE  ResponsesInv'
<1>0. /\ IsResponses(responses) /\ Follows(responses)
      /\ responses.hasTools \in BOOLEAN /\ responses.triggered \in BOOLEAN
  BY DEF ResponsesInv
<1> DEFINE k == closeReasoningItem(responses)
           r == IF responses.inThinking \/ responses.thinkingStarted
                THEN [k EXCEPT !.inThinking = FALSE] ELSE responses
           answer == Reply(responses.full, responses.hasTools, responses.multiFormat)
           d == ItemsDone(r, answer)
           s == IF how = "error" THEN "incomplete" ELSE "completed"
<1>1. responses' = [d EXCEPT !.status = s]
  BY DEF ResponsesEnd
<1> HIDE DEF answer
<1>2. OnlyItems(responses, k)
  BY <1>0, Items
<1> HIDE DEF k
<1>3. OnlyItems(responses, r) /\ IsResponses(r)
  <2>1. OnlyItems(responses, [k EXCEPT !.inThinking = FALSE])
    BY <1>2 DEF OnlyItems, IsResponses, ResponsesFields
  <2>2. QED
    BY <1>0, <2>1 DEF OnlyItems
<1> HIDE DEF r
<1>4. /\ IsResponses(d) /\ d.at = "done" /\ d.hasTools = r.hasTools /\ d.full = r.full
      /\ d.emittedLen = r.emittedLen /\ d.triggered = r.triggered
  BY <1>3, LastItems
<1> HIDE DEF d
<1>5. how = "error" => s = "incomplete"
  OBVIOUS
<1> HIDE DEF s
<1>6. /\ IsResponses(responses') /\ responses'.at = "done" /\ responses'.hasTools = d.hasTools
      /\ responses'.triggered = d.triggered /\ responses'.full = d.full
      /\ responses'.emittedLen = d.emittedLen /\ responses'.status = s
  BY <1>1, <1>4 DEF IsResponses, ResponsesFields
<1>7. /\ responses'.hasTools = responses.hasTools /\ responses'.triggered = responses.triggered
      /\ responses'.full = responses.full /\ responses'.emittedLen = responses.emittedLen
  BY <1>3, <1>4, <1>6 DEF OnlyItems
<1>8. Follows(responses)'
  BY <1>0, <1>7 DEF Follows, Still
<1>9. QED
  BY <1>0, <1>5, <1>6, <1>7, <1>8 DEF ResponsesInv

LEMMA ResponsesLeft ==
  ASSUME ResponsesInv, Still, ending' = "gone", ResponsesGone
  PROVE  ResponsesInv'
<1>1. responses' = [responses EXCEPT !.at = "gone"] /\ TextRead' = TextRead /\ WholeText' = WholeText
  BY DEF ResponsesGone, Still
<1>2. /\ IsResponses(responses') /\ responses'.at = "gone" /\ responses'.hasTools = responses.hasTools
      /\ responses'.full = responses.full /\ responses'.triggered = responses.triggered
      /\ responses'.emittedLen = responses.emittedLen
  BY <1>1 DEF IsResponses, ResponsesFields, ResponsesInv
<1>3. Follows(responses)'
  BY <1>1, <1>2 DEF Follows, ResponsesInv
<1>4. QED
  BY <1>1, <1>2, <1>3 DEF ResponsesInv

LEMMA ResponsesWaits ==
  ASSUME ResponsesInv, Still, UNCHANGED <<responses, ending>>
  PROVE  ResponsesInv'
BY DEF ResponsesInv, Still, Follows

-----------------------------------------------------------------------------
\* The answer that is not streamed is asked for within the attempts.
OnceFields == {"at", "hasTools", "multiFormat", "fullContent", "attempt", "resp"}
IsOnce(o) == o = [x \in OnceFields |-> o[x]]

OnceInv ==
  /\ IsOnce(once) /\ once.hasTools \in BOOLEAN
  /\ once.attempt \in 1 .. continuationAttempts
  /\ once.at = "continuing" => once.attempt < continuationAttempts
  /\ NoTruncatedAnswer

LEMMA OnceCollects ==
  ASSUME OnceInv, NEW attempt \in 1 .. continuationAttempts, NEW content, NEW how, NEW reason,
         Collected(attempt, content, how, reason)
  PROVE  OnceInv'
<1> DEFINE resp == collectChatCompletion(content, how, reason)
           truncated == once.hasTools /\ isTruncatedToolCallContent(content)
           to == CASE how = "error" -> "failed"
                   [] how # "error" /\ truncated ->
                        IF attempt < continuationAttempts THEN "continuing" ELSE "failed"
                   [] OTHER -> "answered"
<1>1. once' = [once EXCEPT !.attempt = attempt, !.fullContent = content, !.resp = resp, !.at = to]
  BY DEF Collected
<1>2. /\ to = "continuing" => attempt < continuationAttempts
      /\ to = "answered" => ~ truncated
  OBVIOUS
<1> HIDE DEF resp, to
<1>3. /\ IsOnce(once') /\ once'.hasTools = once.hasTools /\ once'.attempt = attempt
      /\ once'.fullContent = content /\ once'.at = to
  BY <1>1 DEF OnceInv, IsOnce, OnceFields
<1>4. once'.attempt <= continuationAttempts
  BY <1>3, AttemptsAssumption
<1>5. NoTruncatedAnswer'
  BY <1>2, <1>3, <1>4 DEF NoTruncatedAnswer
<1>6. QED
  BY <1>2, <1>3, <1>5 DEF OnceInv

LEMMA OnceEnds ==
  ASSUME OnceInv, NEW full, NEW thinks, NEW how, NEW reason, OnceEnd(full, thinks, how, reason)
  PROVE  OnceInv'
<1>1. Collected(1, Gathered(full, thinks), how, reason)
  BY DEF OnceEnd
<1>2. 1 \in 1 .. continuationAttempts
  BY AttemptsAssumption
<1>3. QED
  BY <1>1, <1>2, OnceCollects

LEMMA OnceGoesOn ==
  ASSUME OnceInv, NEW reply, CollectAgain(reply)
  PROVE  OnceInv'
<1>1. PICK how : Collected(once.attempt + 1, drainStreamToText(reply), how, "stop")
  BY DEF CollectAgain
<1>2. once.attempt + 1 \in 1 .. continuationAttempts
  BY AttemptsAssumption DEF OnceInv, CollectAgain
<1>3. QED
  BY <1>1, <1>2, OnceCollects

LEMMA OnceLeft ==
  ASSUME OnceInv, OnceGone
  PROVE  OnceInv'
<1>1. once' = [once EXCEPT !.at = "gone"]
  BY DEF OnceGone
<1>2. /\ IsOnce(once') /\ once'.at = "gone" /\ once'.hasTools = once.hasTools
      /\ once'.attempt = once.attempt
  BY <1>1 DEF IsOnce, OnceFields, OnceInv
<1>3. QED
  BY <1>2 DEF OnceInv, NoTruncatedAnswer

LEMMA OnceWaits ==
  ASSUME OnceInv, UNCHANGED once
  PROVE  OnceInv'
BY DEF OnceInv, NoTruncatedAnswer

-----------------------------------------------------------------------------
ReplyInv == Base /\ ChatInv /\ ClaudeInv /\ ResponsesInv /\ OnceInv

LEMMA ReplyInit == Init => ReplyInv
<1> SUFFICES ASSUME Init PROVE ReplyInv
  OBVIOUS
<1>1. body \in Seq(Letter) /\ Len(body) \in Nat /\ read = 0 /\ ending = "none"
  BY BodiesAssumption DEF Init, Letter
<1>2. Base
  BY <1>1 DEF Init, Base
<1>3. TextRead = <<>>
  BY <1>1, TextsAre DEF TextRead
<1>4. ToolCallStart(WholeText) \in 0 .. Len(WholeText) /\ Len(WholeText) \in Nat
  BY <1>2, TextFacts, StartIs
<1>5. 0 <= ToolCallStart(WholeText)
  <2> DEFINE n == ToolCallStart(WholeText)
  <2> HIDE DEF n
  <2>1. n \in Nat
    BY <1>4 DEF n
  <2>2. QED
    BY <2>1 DEF n
<1>6. ASSUME NEW r, r.full = <<>>, r.emittedLen = 0 PROVE Follows(r)
  <2>1. Len(TextRead) = 0
    BY <1>3
  <2>2. QED
    BY <1>3, <1>5, <1>6, <2>1 DEF Follows
<1>7. PICK f \in Features : /\ ChatInit(f[1], f[2]) /\ OnceInit(f[1], f[2])
                            /\ ClaudeInit(f[1], f[2]) /\ ResponsesInit(f[1], f[2])
  BY DEF Init
<1>8. f[1] \in BOOLEAN
  BY FeaturesAssumption
<1> DEFINE tools == f[1]
           multi == f[2]
<1> HIDE DEF tools, multi
<1>9. ChatInv
  <2>1. /\ IsChat(chat) /\ chat.at = "reading" /\ chat.hasTools = tools /\ chat.full = <<>>
        /\ chat.emittedLen = 0 /\ chat.triggered = FALSE /\ chat.out.content = <<>>
    BY <1>7 DEF ChatInit, Silence, IsChat, ChatFields, OutFields, tools
  <2>2. SubSeq(TextRead, 1, 0) = <<>>
    BY <1>3
  <2>3. ChatTextExact
    BY <2>1 DEF ChatTextExact
  <2>4. QED
    BY <1>1, <1>6, <1>8, <2>1, <2>2, <2>3 DEF ChatInv, tools
<1>10. ClaudeInv
  <2>1. /\ IsClaude(claude) /\ claude.at = "reading" /\ claude.hasTools = tools /\ claude.full = <<>>
        /\ claude.emittedLen = 0 /\ claude.triggered = FALSE
    BY <1>7 DEF ClaudeInit, IsClaude, ClaudeFields, tools
  <2>2. QED
    BY <1>1, <1>6, <1>8, <2>1 DEF ClaudeInv, tools
<1>11. ResponsesInv
  <2>1. /\ IsResponses(responses) /\ responses.at = "reading" /\ responses.hasTools = tools
        /\ responses.full = <<>> /\ responses.emittedLen = 0 /\ responses.triggered = FALSE
    BY <1>7 DEF ResponsesInit, IsResponses, ResponsesFields, tools
  <2>2. QED
    BY <1>1, <1>6, <1>8, <2>1 DEF ResponsesInv, tools
<1>12. OnceInv
  <2>1. IsOnce(once) /\ once.at = "reading" /\ once.hasTools = tools /\ once.attempt = 1
    BY <1>7 DEF OnceInit, IsOnce, OnceFields, tools
  <2>2. 1 \in 1 .. continuationAttempts
    BY AttemptsAssumption
  <2>3. QED
    BY <1>8, <2>1, <2>2 DEF OnceInv, NoTruncatedAnswer, tools
<1>13. QED
  BY <1>2, <1>9, <1>10, <1>11, <1>12 DEF ReplyInv

LEMMA ReplyNext == ReplyInv /\ [Next]_vars => ReplyInv'
<1> SUFFICES ASSUME ReplyInv, [Next]_vars PROVE ReplyInv'
  OBVIOUS
<1>0. Base /\ ChatInv /\ ClaudeInv /\ ResponsesInv /\ OnceInv
  BY DEF ReplyInv
<1>1. CASE Deliver
  <2>1. PICK n \in 1 .. Width, phase \in {"think", "answer", "other"} :
          LET cells == SubSeq(body, read + 1, read + n)
              evt == [phase |-> phase, cells |-> cells, finish |-> "none"]
          IN /\ read + n <= Len(body)
             /\ IF phase = "think" THEN Thought(cells) ELSE Answer(cells)
             /\ phase = "other" => Has(body, {"t"})
             /\ read' = read + n
             /\ ChatEvent(evt) /\ ClaudeEvent(evt) /\ ResponsesEvent(evt)
    BY <1>1 DEF Deliver
  <2> DEFINE evt == [phase |-> phase, cells |-> SubSeq(body, read + 1, read + n), finish |-> "none"]
  <2>2. /\ ending = "none" /\ finish = "none" /\ ending' = ending /\ body' = body /\ finish' = finish
        /\ read' = read + n /\ read + n <= Len(body) /\ once' = once
    BY <1>1, <2>1 DEF Deliver
  <2>3. Heard(evt)
    BY <1>0, <2>1, <2>2, DeliverIsHeard
  <2>4. ChatEvent(evt) /\ ClaudeEvent(evt) /\ ResponsesEvent(evt)
    BY <2>1
  <2>5. Base'
    <3>1. n \in Nat /\ read \in Nat /\ Len(body) \in Nat
      BY <1>0, TextFacts, WidthAssumption DEF Base
    <3>2. read' \in 0 .. Len(body')
      BY <2>2, <3>1
    <3>3. QED
      BY <1>0, <2>2, <3>2 DEF Base
  <2> HIDE DEF evt
  <2>6. ChatInv' /\ ClaudeInv' /\ ResponsesInv'
    BY <1>0, <2>3, <2>4, ChatHears, ClaudeHears, ResponsesHears
  <2>7. OnceInv'
    BY <1>0, <2>2, OnceWaits
  <2>8. QED
    BY <2>5, <2>6, <2>7 DEF ReplyInv
<1>2. CASE FinishReason
  <2>1. PICK reason \in {"stop", "length"} :
          LET evt == [phase |-> "answer", cells |-> <<>>, finish |-> reason]
          IN /\ finish' = reason
             /\ ChatEvent(evt) /\ ClaudeEvent(evt) /\ ResponsesEvent(evt)
    BY <1>2 DEF FinishReason
  <2> DEFINE evt == [phase |-> "answer", cells |-> <<>>, finish |-> reason]
  <2>2. /\ ending = "none" /\ ending' = ending /\ body' = body /\ finish' = reason /\ read' = read
        /\ once' = once
    BY <1>2, <2>1 DEF FinishReason
  <2>3. Heard(evt)
    BY <1>0, <2>2, ReasonIsHeard
  <2>4. ChatEvent(evt) /\ ClaudeEvent(evt) /\ ResponsesEvent(evt)
    BY <2>1
  <2>5. Base'
    BY <1>0, <2>2 DEF Base
  <2> HIDE DEF evt
  <2>6. ChatInv' /\ ClaudeInv' /\ ResponsesInv'
    BY <1>0, <2>3, <2>4, ChatHears, ClaudeHears, ResponsesHears
  <2>7. OnceInv'
    BY <1>0, <2>2, OnceWaits
  <2>8. QED
    BY <2>5, <2>6, <2>7 DEF ReplyInv
<1>3. CASE Over
  <2> DEFINE how == ending'
             thinks == read > 0 /\ body[read] = "t" /\ finish = "none"
  <2>1. /\ ending = "none" /\ how \in {"eof", "error"} /\ body' = body /\ read' = read /\ finish' = finish
        /\ OnceEnd(TextRead, thinks, how, Reason)
        /\ ChatEnd(how) /\ ClaudeEnd(how) /\ ResponsesEnd(how)
    BY <1>3 DEF Over
  <2>2. Still
    BY <2>1, StillIs
  <2>3. Base'
    BY <1>0, <2>1 DEF Base
  <2> HIDE DEF thinks
  <2>4. OnceInv'
    BY <1>0, <2>1, OnceEnds
  <2>5. PICK h \in {"eof", "error"} : ending' = h
    BY <2>1
  <2>6. ChatEnd(h) /\ ClaudeEnd(h) /\ ResponsesEnd(h)
    BY <2>1, <2>5
  <2>7. ChatInv'
    BY <1>0, <2>1, <2>2, <2>5, <2>6, ChatEnds
  <2>8. ClaudeInv'
    BY <1>0, <2>1, <2>2, <2>5, <2>6, ClaudeEnds
  <2>9. ResponsesInv'
    BY <1>0, <2>1, <2>2, <2>5, <2>6, ResponsesEnds
  <2>10. QED
    BY <2>3, <2>4, <2>7, <2>8, <2>9 DEF ReplyInv
<1>4. CASE Leave
  <2>1. /\ ending' = "gone" /\ body' = body /\ read' = read /\ finish' = finish
        /\ ChatGone /\ OnceGone /\ ClaudeGone /\ ResponsesGone
    BY <1>4 DEF Leave
  <2>2. Still
    BY <2>1, StillIs
  <2>3. Base'
    BY <1>0, <2>1 DEF Base
  <2>4. ChatInv' /\ ClaudeInv' /\ ResponsesInv' /\ OnceInv'
    BY <1>0, <2>1, <2>2, ChatLeft, ClaudeLeft, ResponsesLeft, OnceLeft
  <2>5. QED
    BY <2>3, <2>4 DEF ReplyInv
<1>5. CASE Continue
  <2>1. /\ claude' = claude /\ responses' = responses /\ body' = body /\ read' = read
        /\ ending' = ending /\ finish' = finish
    BY <1>5 DEF Continue
  <2>2. Still
    BY <2>1, StillIs
  <2>3. Base'
    BY <1>0, <2>1 DEF Base
  <2>4. ClaudeInv' /\ ResponsesInv'
    BY <1>0, <2>1, <2>2, ClaudeWaits, ResponsesWaits
  <2>5. ChatInv' /\ OnceInv'
    <3>1. CASE ((\E more \in Continuations : ContinueOnce(more)) \/ Resolved) /\ once' = once
      BY <1>0, <2>1, <2>2, <3>1, ChatContinues, OnceWaits
    <3>2. CASE (\E reply \in Continuations : CollectAgain(reply)) /\ chat' = chat
      BY <1>0, <2>1, <2>2, <3>2, ChatWaits, OnceGoesOn
    <3>3. QED
      BY <1>5, <3>1, <3>2 DEF Continue
  <2>6. QED
    BY <2>3, <2>4, <2>5 DEF ReplyInv
<1>6. CASE UNCHANGED vars
  <2>1. /\ chat' = chat /\ once' = once /\ claude' = claude /\ responses' = responses
        /\ body' = body /\ read' = read /\ ending' = ending /\ finish' = finish
    BY <1>6 DEF vars
  <2>2. Still
    BY <2>1, StillIs
  <2>3. QED
    BY <1>0, <2>1, <2>2, ChatWaits, ClaudeWaits, ResponsesWaits, OnceWaits DEF ReplyInv, Base
<1>7. QED
  BY <1>1, <1>2, <1>3, <1>4, <1>5, <1>6 DEF Next

\* Every stream has gathered just the text it was given, and what it has sent of it
\* ends within it: the accumulators of the three handlers never drift apart.
THEOREM StreamsTyped == Spec => []TypeOK
<1>1. ReplyInv => TypeOK
  <2> SUFFICES ASSUME ReplyInv PROVE TypeOK
    OBVIOUS
  <2>1. Base /\ Follows(chat) /\ Follows(claude) /\ Follows(responses)
        /\ chat.at \in {"reading", "resolving", "done", "gone"}
    BY DEF ReplyInv, ChatInv, ClaudeInv, ResponsesInv
  <2>2. QED
    BY <2>1 DEF TypeOK, Base, Follows
<1>2. QED
  BY <1>1, ReplyInit, ReplyNext, PTL DEF Spec

\* No cell of a reply's first tool call marker goes out in any stream before it is
\* known for one, whatever the reply and however it is cut into events.
THEOREM MarkerNeverGoesOut == Spec => []MarkerHeldBack
<1>1. ReplyInv => MarkerHeldBack
  BY DEF ReplyInv, ChatInv, ClaudeInv, ResponsesInv, Follows, MarkerHeldBack
<1>2. QED
  BY <1>1, ReplyInit, ReplyNext, PTL DEF Spec

\* The chat client is sent the text of a reply in order and once: whole when no call
\* was found in it, up to the first call and without the white space before when one was.
THEOREM ChatTextOnce == Spec => []ChatTextExact
<1>1. ReplyInv => ChatTextExact
  BY DEF ReplyInv, ChatInv
<1>2. QED
  BY <1>1, ReplyInit, ReplyNext, PTL DEF Spec

\* An answer that is not streamed is never one that ends inside a tool call, and the
\* upstream is asked no more often than the configuration says.
THEOREM NoTruncatedAnswerEver == Spec => []NoTruncatedAnswer
<1>1. ReplyInv => NoTruncatedAnswer
  BY DEF ReplyInv, OnceInv
<1>2. QED
  BY <1>1, ReplyInit, ReplyNext, PTL DEF Spec

-----------------------------------------------------------------------------
\* Lists joined one after another.
LEMMA FlattenRolls ==
  ASSUME NEW T, NEW ss \in Seq(Seq(T)), NEW round,
         round = [s \in Seq(T) |-> [a \in Seq(T) |-> a \o s]]
  PROVE  \E f : Rolls(f, ss, round, <<>>, Seq(T)) /\ FlattenSeq(ss) = f[Len(ss)]
<1> DEFINE n == Len(ss)
           Loop(f) == [i \in 1 .. n |-> IF i = 1 THEN ss[i] ELSE f[i - 1] \o ss[i]]
           flat == CHOOSE f : f = Loop(f)
<1>1. n \in Nat /\ \A i \in 1 .. n : ss[i] \in Seq(T)
  OBVIOUS
<1>2. <<>> \in Seq(T)
  OBVIOUS
<1>3. round \in [Seq(T) -> [Seq(T) -> Seq(T)]] /\ \A s, a \in Seq(T) : round[s][a] = a \o s
  BY ConcatProperties
<1>4. \A s \in Seq(T) : <<>> \o s = s
  BY ConcatEmptySeq
<1>5. CASE n = 0
  <2>1. ss = <<>>
    BY <1>5, EmptySeq
  <2>2. FlattenSeq(ss) = <<>>
    BY <1>5, <2>1 DEF FlattenSeq
  <2>3. PICK f : Rolls(f, ss, round, <<>>, Seq(T))
    BY <1>2, <1>3, RollRuns
  <2>4. f[0] = <<>>
    BY <2>3 DEF Rolls
  <2>5. QED
    BY <1>5, <2>2, <2>3, <2>4
<1>6. CASE n # 0
  <2>1. FlattenSeq(ss) = flat[n]
    BY <1>6 DEF FlattenSeq
  <2>2. PICK f : Rolls(f, ss, round, <<>>, Seq(T))
    BY <1>2, <1>3, RollRuns
  <2> DEFINE g == [i \in 1 .. n |-> f[i]]
  <2>3. \A i \in 1 .. n : f[i - 1] \in Seq(T) /\ f[i] = f[i - 1] \o ss[i]
    <3> TAKE i \in 1 .. n
    <3>1. i - 1 \in 0 .. n
      BY <1>1
    <3>2. f[i - 1] \in Seq(T) /\ f[i] = round[ss[i]][f[i - 1]]
      BY <2>2, <3>1 DEF Rolls
    <3>3. QED
      BY <1>1, <1>3, <3>2
  <2>4. f[0] = <<>>
    BY <2>2 DEF Rolls
  <2>5. \A i \in 1 .. n : g[i] = IF i = 1 THEN ss[i] ELSE g[i - 1] \o ss[i]
    <3> TAKE i \in 1 .. n
    <3>1. CASE i = 1
      <4>1. 1 \in 1 .. n /\ 1 - 1 = 0 /\ ss[1] \in Seq(T)
        BY <1>1, <3>1
      <4>2. f[1] = f[0] \o ss[1]
        BY <2>3, <4>1
      <4>3. f[1] = ss[1]
        BY <1>4, <2>4, <4>1, <4>2
      <4>4. QED
        BY <3>1, <4>1, <4>3
    <3>2. CASE i # 1
      <4>1. i - 1 \in 1 .. n
        BY <1>1, <3>2
      <4>2. QED
        BY <2>3, <3>2, <4>1
    <3>3. QED
      BY <3>1, <3>2
  <2>6. g = Loop(g)
    BY <2>5
  <2> HIDE DEF g
  <2>7. flat = Loop(flat)
    BY <2>6
  <2> HIDE DEF flat
  <2> DEFINE h == [i \in 0 .. n |-> IF i = 0 THEN <<>> ELSE flat[i]]
  <2>8. h = [i \in 0 .. n |-> h[i]] /\ h[0] = <<>> /\ h[n] = flat[n]
    BY <1>1, <1>6
  <2>9. \A i \in 1 .. n : h[i] = h[i - 1] \o ss[i]
    <3> TAKE i \in 1 .. n
    <3>1. i \in 0 .. n /\ i - 1 \in 0 .. n /\ i # 0
      BY <1>1
    <3>2. h[i] = flat[i] /\ flat[i] = IF i = 1 THEN ss[i] ELSE flat[i - 1] \o ss[i]
      BY <2>7, <3>1
    <3>3. CASE i = 1
      BY <1>1, <1>4, <3>2, <3>3
    <3>4. CASE i # 1
      <4>1. i - 1 # 0
        BY <1>1, <3>4
      <4>2. h[i] = flat[i] /\ h[i - 1] = flat[i - 1]
        BY <3>1, <4>1
      <4>3. QED
        BY <3>2, <3>4, <4>2
    <3>5. QED
      BY <3>3, <3>4
  <2> HIDE DEF h
  <2>10. \A i \in 1 .. n : h[i - 1] \in Seq(T) => h[i] = round[ss[i]][h[i - 1]]
    BY <1>1, <1>3, <2>9
  <2> DEFINE b == <<>>
  <2>11. b \in Seq(T) /\ h[0] = b
    BY <1>2, <2>8
  <2> HIDE DEF b
  <2>12. Rolls(h, ss, round, b, Seq(T))
    BY <1>3, <2>8, <2>10, <2>11, RollTyped
  <2>13. QED
    BY <2>1, <2>8, <2>12 DEF b
<1>7. QED
  BY <1>5, <1>6

LEMMA FlattenIs ==
  ASSUME NEW T, NEW ss \in Seq(Seq(T))
  PROVE  /\ FlattenSeq(ss) \in Seq(T)
         /\ \A s \in Seq(T) : FlattenSeq(Append(ss, s)) = FlattenSeq(ss) \o s
<1> DEFINE round == [s \in Seq(T) |-> [a \in Seq(T) |-> a \o s]]
           b == <<>>
<1>1. b \in Seq(T)
  OBVIOUS
<1>2. round \in [Seq(T) -> [Seq(T) -> Seq(T)]] /\ \A s, a \in Seq(T) : round[s][a] = a \o s
  BY ConcatProperties
<1>3. \A tt \in Seq(Seq(T)) : \E f : Rolls(f, tt, round, b, Seq(T)) /\ FlattenSeq(tt) = f[Len(tt)]
  BY FlattenRolls
<1> HIDE DEF round, b
<1> DEFINE W == Seq(T)
<1>w. b \in W /\ round \in [W -> [W -> W]] /\ ss \in Seq(W)
  BY <1>1, <1>2
<1>4. PICK f : Rolls(f, ss, round, b, W) /\ FlattenSeq(ss) = f[Len(ss)]
  BY <1>3
<1>5. Len(ss) \in 0 .. Len(ss)
  OBVIOUS
<1>6. FlattenSeq(ss) \in Seq(T)
  BY <1>4, <1>5 DEF Rolls
<1>7. ASSUME NEW s \in Seq(T) PROVE FlattenSeq(Append(ss, s)) = FlattenSeq(ss) \o s
  <2> DEFINE tt == Append(ss, s)
  <2>1. tt \in Seq(Seq(T)) /\ Len(tt) = Len(ss) + 1
    OBVIOUS
  <2>2. PICK g : Rolls(g, tt, round, b, W) /\ FlattenSeq(tt) = g[Len(tt)]
    BY <1>3, <2>1
  <2>3. g[Len(ss) + 1] = round[s][f[Len(ss)]]
    <3>1. s \in W
      OBVIOUS
    <3> HIDE DEF W
    <3>2. QED
      BY <1>w, <1>4, <2>2, <3>1, RollMore, SMTT(30)
  <2>4. QED
    BY <1>2, <1>4, <1>6, <2>1, <2>2, <2>3
<1>8. QED
  BY <1>6, <1>7

LEMMA FlattenNothing == FlattenSeq(<<>>) = <<>>
BY DEF FlattenSeq

LEMMA FlattenOne ==
  ASSUME NEW T, NEW s \in Seq(T)
  PROVE  FlattenSeq(<<s>>) = s
<1> DEFINE none == <<>>
<1>1. none \in Seq(Seq(T)) /\ <<s>> = Append(none, s)
  OBVIOUS
<1>2. FlattenSeq(Append(none, s)) = FlattenSeq(none) \o s
  BY <1>1, FlattenIs
<1>3. <<>> \o s = s
  BY ConcatEmptySeq
<1>4. QED
  BY <1>1, <1>2, <1>3, FlattenNothing

\* The lists of two halves, one after the other.
LEMMA Associates ==
  ASSUME NEW T, NEW a \in Seq(T), NEW b \in Seq(T), NEW c \in Seq(T)
  PROVE  (a \o b) \o c = a \o (b \o c)
BY ConcatAssociative

LEMMA FlattenConcat ==
  ASSUME NEW T, NEW ss \in Seq(Seq(T)), NEW tt \in Seq(Seq(T))
  PROVE  FlattenSeq(ss \o tt) = FlattenSeq(ss) \o FlattenSeq(tt)
<1> DEFINE n == Len(tt)
           first(k) == SubSeq(tt, 1, k)
           P == {k \in 0 .. n : FlattenSeq(ss \o first(k)) = FlattenSeq(ss) \o FlattenSeq(first(k))}
<1>1. n \in Nat /\ n \in 0 .. n
  OBVIOUS
<1>2. 0 \in P
  <2>1. first(0) = <<>> /\ ss \o <<>> = ss
    BY ConcatEmptySeq
  <2>2. FlattenSeq(ss) \in Seq(T)
    BY FlattenIs
  <2>3. FlattenSeq(ss) \o <<>> = FlattenSeq(ss)
    BY <2>2, ConcatEmptySeq
  <2> HIDE DEF first
  <2>4. FlattenSeq(ss \o first(0)) = FlattenSeq(ss) \o FlattenSeq(first(0))
    BY <2>1, <2>3, FlattenNothing
  <2>5. 0 \in 0 .. n
    BY <1>1
  <2>6. QED
    BY <2>4, <2>5
<1>3. ASSUME NEW k \in 1 .. n, k - 1 \in P PROVE k \in P
  <2> DEFINE a == first(k - 1)
             x == tt[k]
  <2>1. first(k) = Append(a, x) /\ a \in Seq(Seq(T)) /\ x \in Seq(T)
    BY OneAtATime
  <2>2. FlattenSeq(ss \o a) = FlattenSeq(ss) \o FlattenSeq(a)
    BY <1>3
  <2> HIDE DEF a, x
  <2>3. ss \o Append(a, x) = Append(ss \o a, x) /\ ss \o a \in Seq(Seq(T))
    BY <2>1
  <2> DEFINE u == ss \o a
  <2> HIDE DEF first
  <2>a. u \in Seq(Seq(T)) /\ ss \o first(k) = Append(u, x)
    BY <2>1, <2>3
  <2>b. FlattenSeq(u) = FlattenSeq(ss) \o FlattenSeq(a)
    BY <2>2
  <2> HIDE DEF u
  <2>c. FlattenSeq(Append(u, x)) = FlattenSeq(u) \o x
    BY <2>1, <2>a, FlattenIs
  <2>4. FlattenSeq(ss \o first(k)) = (FlattenSeq(ss) \o FlattenSeq(a)) \o x
    BY <2>a, <2>b, <2>c
  <2>5. FlattenSeq(first(k)) = FlattenSeq(a) \o x
    BY <2>1, FlattenIs
  <2>6. FlattenSeq(ss) \in Seq(T) /\ FlattenSeq(a) \in Seq(T)
    BY <2>1, FlattenIs
  <2> DEFINE f == FlattenSeq(ss)
             g == FlattenSeq(a)
  <2>d. f \in Seq(T) /\ g \in Seq(T) /\ x \in Seq(T)
    BY <2>1, <2>6
  <2>e. FlattenSeq(ss \o first(k)) = (f \o g) \o x /\ FlattenSeq(first(k)) = g \o x
    BY <2>4, <2>5
  <2>f. FlattenSeq(ss) = f
    OBVIOUS
  <2> HIDE DEF f, g
  <2>7. (f \o g) \o x = f \o (g \o x)
    BY <2>d, Associates, SMTT(30)
  <2>8. FlattenSeq(ss \o first(k)) = FlattenSeq(ss) \o FlattenSeq(first(k))
    BY <2>e, <2>f, <2>7
  <2>9. k \in 0 .. n
    OBVIOUS
  <2>10. QED
    BY <2>8, <2>9
<1>4. \A k \in 0 .. n : k \in P
  <2> HIDE DEF P
  <2>1. QED
    BY <1>1, <1>2, <1>3, Climb
<1>5. first(n) = tt
  BY SubSeqFull
<1>6. QED
  BY <1>1, <1>4, <1>5

-----------------------------------------------------------------------------
\* The tokens of a text: its letters, the spelled ones and what the parser makes of
\* them.
Token == Letter \union {"O", "F", "J", "R", "N", "X", "H", "I"}

LEMMA LettersAreTokens == Seq(Letter) \subseteq Seq(Token)
<1>1. Letter \subseteq Token
  BY DEF Token
<1>2. QED
  BY <1>1, SeqMonotonic

LEMMA LetterIs ==
  Letter = {"p", "w", "g", "c", "fn", "fc", "i", "r", "n", "x", "h", "o1", "o2", "f1", "f2", "f3", "j1", "j2", "t"}
<1>1. DOMAIN Spelling = {"O", "F", "J"}
  BY DEF Spelling
<1>2. Spelling["O"] = <<"o1", "o2">> /\ Spelling["F"] = <<"f1", "f2", "f3">> /\ Spelling["J"] = <<"j1", "j2">>
  BY DEF Spelling
<1>3. /\ ToSet(<<"o1", "o2">>) = {"o1", "o2"} /\ ToSet(<<"j1", "j2">>) = {"j1", "j2"}
      /\ ToSet(<<"f1", "f2", "f3">>) = {"f1", "f2", "f3"}
  <2>1. DOMAIN <<"o1", "o2">> = 1 .. 2 /\ DOMAIN <<"j1", "j2">> = 1 .. 2 /\ DOMAIN <<"f1", "f2", "f3">> = 1 .. 3
    OBVIOUS
  <2>2. 1 .. 2 = {1, 2} /\ 1 .. 3 = {1, 2, 3}
    OBVIOUS
  <2>3. QED
    BY <2>1, <2>2 DEF ToSet
<1>4. UNION {ToSet(Spelling[t]) : t \in DOMAIN Spelling} = {"o1", "o2", "f1", "f2", "f3", "j1", "j2"}
  <2>1. {ToSet(Spelling[t]) : t \in DOMAIN Spelling} = {{"o1", "o2"}, {"f1", "f2", "f3"}, {"j1", "j2"}}
    BY <1>1, <1>2, <1>3
  <2> DEFINE u == {"o1", "o2"}
             v == {"f1", "f2", "f3"}
             w == {"j1", "j2"}
  <2>2. {ToSet(Spelling[t]) : t \in DOMAIN Spelling} = {u, v, w}
    BY <2>1
  <2> HIDE DEF u, v, w
  <2>3. UNION {u, v, w} = u \union v \union w
    BY Zenon
  <2>4. QED
    BY <2>2, <2>3 DEF u, v, w
<1>5. QED
  BY <1>4 DEF Letter, Cell

\* What a token stands for.
LEMMA SpelledIs ==
  /\ Spelled("O") = <<"o1", "o2">>
  /\ \A t \in Letter : Spelled(t) = <<t>>
  /\ \A t \in Token : Spelled(t) \in Seq(Token) /\ Spelled(t) # <<>>
  /\ \A t \in DOMAIN Spelling : /\ t \in Token /\ Spelled(t) = Spelling[t]
                                /\ Spelling[t] \in Seq(Letter) /\ Spelling[t] # <<>>
<1>1. DOMAIN Spelling = {"O", "F", "J"}
  BY DEF Spelling
<1>2. Spelling["O"] = <<"o1", "o2">> /\ Spelling["F"] = <<"f1", "f2", "f3">> /\ Spelling["J"] = <<"j1", "j2">>
  BY DEF Spelling
<1>3. \A t \in DOMAIN Spelling : t \in Token /\ Spelled(t) = Spelling[t]
  BY <1>1 DEF Spelled, Token
<1>4. /\ <<"o1", "o2">> \in Seq(Letter) /\ <<"f1", "f2", "f3">> \in Seq(Letter)
      /\ <<"j1", "j2">> \in Seq(Letter)
  BY LetterIs
<1>5. <<"o1", "o2">> # <<>> /\ <<"f1", "f2", "f3">> # <<>> /\ <<"j1", "j2">> # <<>>
  OBVIOUS
<1>6. \A t \in DOMAIN Spelling : Spelling[t] \in Seq(Letter) /\ Spelling[t] # <<>>
  BY <1>1, <1>2, <1>4, <1>5
<1>7. \A t \in Letter : t \notin DOMAIN Spelling
  BY <1>1, LetterIs
<1>8. \A t \in Letter : Spelled(t) = <<t>>
  BY <1>7 DEF Spelled
<1>9. ASSUME NEW t \in Token PROVE Spelled(t) \in Seq(Token) /\ Spelled(t) # <<>>
  <2>1. CASE t \in DOMAIN Spelling
    BY <1>3, <1>6, <2>1, LettersAreTokens
  <2>2. CASE t \notin DOMAIN Spelling
    <3>1. Spelled(t) = <<t>>
      BY <2>2 DEF Spelled
    <3>2. <<t>> \in Seq(Token) /\ <<t>> # <<>>
      OBVIOUS
    <3>3. QED
      BY <3>1, <3>2
  <2>3. QED
    BY <2>1, <2>2
<1>10. QED
  BY <1>1, <1>2, <1>3, <1>6, <1>8, <1>9

Spellings(toks) == [k \in DOMAIN toks |-> Spelled(toks[k])]

LEMMA SpellingsAre ==
  ASSUME NEW a \in Seq(Token)
  PROVE  /\ Spellings(a) \in Seq(Seq(Token)) /\ Len(Spellings(a)) = Len(a)
         /\ \A k \in 1 .. Len(a) : Spellings(a)[k] = Spelled(a[k])
<1>1. Len(a) \in Nat /\ DOMAIN a = 1 .. Len(a) /\ \A k \in 1 .. Len(a) : a[k] \in Token
  OBVIOUS
<1>2. \A k \in 1 .. Len(a) : Spelled(a[k]) \in Seq(Token)
  BY <1>1, SpelledIs
<1>3. Spellings(a) = [k \in 1 .. Len(a) |-> Spelled(a[k])]
  BY <1>1 DEF Spellings
<1>4. QED
  BY <1>1, <1>2, <1>3

LEMMA SpellIs ==
  ASSUME NEW a \in Seq(Token)
  PROVE  /\ Spell(a) \in Seq(Token)
         /\ \A t \in Token : Spell(Append(a, t)) = Spell(a) \o Spelled(t)
<1>1. \A s \in Seq(Token) : Spell(s) = FlattenSeq(Spellings(s))
  BY DEF Spell, Spellings
<1>2. Spellings(a) \in Seq(Seq(Token)) /\ Len(Spellings(a)) = Len(a)
      /\ \A k \in 1 .. Len(a) : Spellings(a)[k] = Spelled(a[k])
  BY SpellingsAre
<1>3. Spell(a) \in Seq(Token)
  BY <1>1, <1>2, FlattenIs
<1>4. ASSUME NEW t \in Token PROVE Spell(Append(a, t)) = Spell(a) \o Spelled(t)
  <2> DEFINE s == Append(a, t)
             u == Append(Spellings(a), Spelled(t))
  <2>1. s \in Seq(Token) /\ Len(s) = Len(a) + 1 /\ s[Len(a) + 1] = t /\ \A k \in 1 .. Len(a) : s[k] = a[k]
    OBVIOUS
  <2>2. Spelled(t) \in Seq(Token)
    BY SpelledIs
  <2> HIDE DEF s
  <2>3. /\ Spellings(s) \in Seq(Seq(Token)) /\ Len(Spellings(s)) = Len(a) + 1
        /\ \A k \in 1 .. Len(a) + 1 : Spellings(s)[k] = Spelled(s[k])
    BY <2>1, SpellingsAre
  <2>4. /\ u \in Seq(Seq(Token)) /\ Len(u) = Len(a) + 1 /\ u[Len(a) + 1] = Spelled(t)
        /\ \A k \in 1 .. Len(a) : u[k] = Spelled(a[k])
    BY <1>2, <2>2
  <2> HIDE DEF u
  <2>5. \A k \in 1 .. Len(a) + 1 : Spellings(s)[k] = u[k]
    <3> TAKE k \in 1 .. Len(a) + 1
    <3>1. Spellings(s)[k] = Spelled(s[k]) /\ Len(a) \in Nat
      BY <2>3
    <3>2. CASE k = Len(a) + 1
      BY <2>1, <2>4, <3>1, <3>2
    <3>3. CASE k # Len(a) + 1
      <4>1. k \in 1 .. Len(a)
        BY <3>1, <3>3
      <4>2. QED
        BY <2>1, <2>4, <3>1, <4>1
    <3>4. QED
      BY <3>2, <3>3
  <2>6. Spellings(s) = u
    BY <2>3, <2>4, <2>5, SeqEqual
  <2>7. FlattenSeq(u) = FlattenSeq(Spellings(a)) \o Spelled(t)
    BY <1>2, <2>2, FlattenIs DEF u
  <2>8. QED
    BY <1>1, <2>1, <2>6, <2>7 DEF s
<1>5. QED
  BY <1>3, <1>4

LEMMA SpellNothing == Spell(<<>>) = <<>>
<1>1. DOMAIN <<>> = {}
  OBVIOUS
<1>2. [k \in DOMAIN <<>> |-> Spelled(<<>>[k])] = <<>>
  BY <1>1
<1>3. QED
  BY <1>2, FlattenNothing DEF Spell

LEMMA SpellConcat ==
  ASSUME NEW a \in Seq(Token), NEW b \in Seq(Token)
  PROVE  Spell(a \o b) = Spell(a) \o Spell(b)
<1> DEFINE s == a \o b
           u == Spellings(a) \o Spellings(b)
<1>1. \A c \in Seq(Token) : Spell(c) = FlattenSeq(Spellings(c))
  BY DEF Spell, Spellings
<1>2. /\ s \in Seq(Token) /\ Len(s) = Len(a) + Len(b) /\ Len(a) \in Nat /\ Len(b) \in Nat
      /\ \A k \in 1 .. Len(a) + Len(b) : s[k] = IF k <= Len(a) THEN a[k] ELSE b[k - Len(a)]
  BY ConcatProperties
<1> HIDE DEF s
<1>3. /\ Spellings(a) \in Seq(Seq(Token)) /\ Len(Spellings(a)) = Len(a)
      /\ \A k \in 1 .. Len(a) : Spellings(a)[k] = Spelled(a[k])
  BY SpellingsAre
<1>4. /\ Spellings(b) \in Seq(Seq(Token)) /\ Len(Spellings(b)) = Len(b)
      /\ \A k \in 1 .. Len(b) : Spellings(b)[k] = Spelled(b[k])
  BY SpellingsAre
<1>5. /\ Spellings(s) \in Seq(Seq(Token)) /\ Len(Spellings(s)) = Len(a) + Len(b)
      /\ \A k \in 1 .. Len(a) + Len(b) : Spellings(s)[k] = Spelled(s[k])
  BY <1>2, SpellingsAre
<1> DEFINE v == Spellings(a)
           w == Spellings(b)
<1>a. v \in Seq(Seq(Token)) /\ Len(v) = Len(a) /\ w \in Seq(Seq(Token)) /\ Len(w) = Len(b) /\ u = v \o w
  BY <1>3, <1>4
<1> HIDE DEF u, v, w
<1>b. /\ v \o w \in Seq(Seq(Token)) /\ Len(v \o w) = Len(v) + Len(w)
      /\ \A k \in 1 .. Len(v) + Len(w) : (v \o w)[k] = IF k <= Len(v) THEN v[k] ELSE w[k - Len(v)]
  BY <1>a, ConcatProperties
<1>6. /\ u \in Seq(Seq(Token)) /\ Len(u) = Len(a) + Len(b)
      /\ \A k \in 1 .. Len(a) + Len(b) :
           u[k] = IF k <= Len(a) THEN Spellings(a)[k] ELSE Spellings(b)[k - Len(a)]
  BY <1>a, <1>b DEF v, w
<1>7. ASSUME NEW k \in 1 .. Len(a) + Len(b) PROVE Spellings(s)[k] = u[k]
  <2>1. CASE k <= Len(a)
    <3>1. k \in 1 .. Len(a)
      BY <1>2, <2>1
    <3>2. u[k] = Spellings(a)[k] /\ s[k] = a[k]
      BY <1>2, <1>6, <2>1
    <3>3. QED
      BY <1>3, <1>5, <3>1, <3>2
  <2>2. CASE ~ (k <= Len(a))
    <3>1. k - Len(a) \in 1 .. Len(b)
      BY <1>2, <2>2
    <3>2. QED
      BY <1>2, <1>4, <1>5, <1>6, <2>2, <3>1
  <2>3. QED
    BY <2>1, <2>2
<1>8. Spellings(s) = u
  BY <1>5, <1>6, <1>7, SeqEqual
<1>9. FlattenSeq(u) = FlattenSeq(Spellings(a)) \o FlattenSeq(Spellings(b))
  BY <1>3, <1>4, FlattenConcat DEF u
<1>10. QED
  BY <1>1, <1>2, <1>8, <1>9 DEF s

\* A text of letters stands for itself.
LEMMA LettersSpell ==
  ASSUME NEW s \in Seq(Letter)
  PROVE  Spell(s) = s
<1> DEFINE n == Len(s)
           first(k) == SubSeq(s, 1, k)
           P == {k \in 0 .. n : Spell(first(k)) = first(k)}
<1>1. n \in Nat /\ n \in 0 .. n
  OBVIOUS
<1>2. 0 \in P
  <2>1. first(0) = <<>>
    OBVIOUS
  <2> HIDE DEF first
  <2>2. QED
    BY <1>1, <2>1, SpellNothing
<1>3. ASSUME NEW k \in 1 .. n, k - 1 \in P PROVE k \in P
  <2> DEFINE a == first(k - 1)
             x == s[k]
  <2>1. first(k) = Append(a, x) /\ a \in Seq(Letter) /\ x \in Letter
    BY OneAtATime
  <2>2. Spell(a) = a
    BY <1>3
  <2> HIDE DEF a, x, first
  <2>3. a \in Seq(Token) /\ x \in Token /\ Spelled(x) = <<x>>
    BY <2>1, LettersAreTokens, SpelledIs DEF Token
  <2>4. Spell(Append(a, x)) = Spell(a) \o Spelled(x)
    BY <2>3, SpellIs
  <2>5. a \o <<x>> = Append(a, x)
    BY <2>1, AppendIsConcat
  <2>6. Spell(first(k)) = first(k)
    BY <2>1, <2>2, <2>3, <2>4, <2>5
  <2>7. QED
    BY <2>6
<1>4. \A k \in 0 .. n : k \in P
  <2> HIDE DEF P
  <2>1. QED
    BY <1>1, <1>2, <1>3, Climb
<1>5. first(n) = s
  BY SubSeqFull
<1>6. QED
  BY <1>1, <1>4, <1>5

LEMMA SuffixIs ==
  ASSUME NEW T, NEW w \in Seq(T), NEW s \in Seq(T), IsSuffix(w, s)
  PROVE  /\ Len(s) - Len(w) \in 0 .. Len(s)
         /\ s = SubSeq(s, 1, Len(s) - Len(w)) \o w
<1> DEFINE m == Len(w)
           n == Len(s)
           rw == Reverse(w)
           rs == Reverse(s)
           front == SubSeq(s, 1, n - m)
<1>1. m \in Nat /\ n \in Nat /\ \A i \in 1 .. m : w[i] \in T /\ \A j \in 1 .. n : s[j] \in T
  OBVIOUS
<1>2. rw \in Seq(T) /\ Len(rw) = m /\ \A i \in 1 .. m : rw[i] = w[(m - i) + 1]
  BY <1>1 DEF Reverse
<1>3. rs \in Seq(T) /\ Len(rs) = n /\ \A i \in 1 .. n : rs[i] = s[(n - i) + 1]
  BY <1>1 DEF Reverse
<1>4. IsPrefix(rw, rs)
  BY DEF IsSuffix
<1> HIDE DEF rw, rs
<1>5. m <= n /\ SubSeq(rw, 1, m) = SubSeq(rs, 1, m)
  BY <1>2, <1>3, <1>4 DEF IsPrefix
<1>6. \A i \in 1 .. m : rw[i] = rs[i]
  <2>1. \A i \in 1 .. m : SubSeq(rw, 1, m)[i] = rw[i] /\ SubSeq(rs, 1, m)[i] = rs[i]
    BY <1>1, <1>2, <1>3, <1>5
  <2>2. QED
    BY <1>5, <2>1
<1>7. \A j \in 1 .. m : s[(n - m) + j] = w[j]
  <2> TAKE j \in 1 .. m
  <2> DEFINE i == (m - j) + 1
  <2>1. i \in 1 .. m /\ i \in 1 .. n /\ (m - i) + 1 = j /\ (n - i) + 1 = (n - m) + j
    BY <1>1, <1>5
  <2> HIDE DEF i
  <2>2. rw[i] = w[j] /\ rs[i] = s[(n - m) + j]
    BY <1>2, <1>3, <2>1
  <2>3. QED
    BY <1>6, <2>1, <2>2
<1>8. n - m \in 0 .. n
  BY <1>1, <1>5
<1>9. front \in Seq(T) /\ Len(front) = n - m /\ \A i \in 1 .. n - m : front[i] = s[i]
  BY <1>1, <1>8
<1> HIDE DEF front
<1> DEFINE t == front \o w
<1>10. /\ t \in Seq(T) /\ Len(t) = (n - m) + m
       /\ \A i \in 1 .. (n - m) + m : t[i] = IF i <= n - m THEN front[i] ELSE w[i - (n - m)]
  BY <1>9, ConcatProperties
<1> HIDE DEF t
<1>11. ASSUME NEW i \in 1 .. n PROVE s[i] = t[i]
  <2>1. i \in 1 .. (n - m) + m
    BY <1>1, <1>5
  <2>2. CASE i <= n - m
    BY <1>9, <1>10, <2>1, <2>2
  <2>3. CASE ~ (i <= n - m)
    <3>1. i - (n - m) \in 1 .. m /\ (n - m) + (i - (n - m)) = i
      BY <1>1, <1>5, <2>3
    <3>2. s[i] = w[i - (n - m)]
      BY <1>7, <3>1
    <3>3. QED
      BY <1>10, <2>1, <2>3, <3>2
  <2>4. QED
    BY <2>2, <2>3
<1>12. Len(t) = n
  BY <1>1, <1>5, <1>10
<1>13. s = t
  BY <1>10, <1>11, <1>12, SeqEqual
<1>14. QED
  BY <1>8, <1>13 DEF t, front

\* Reading a spelled token in its last cells leaves what the cells stand for.
LEMMA FoldedIs ==
  ASSUME NEW cells \in Seq(Token)
  PROVE  Folded(cells) \in Seq(Token) /\ Spell(Folded(cells)) = Spell(cells)
<1> DEFINE done == {t \in DOMAIN Spelling : IsSuffix(Spelling[t], cells)}
           t == CHOOSE t \in done : TRUE
           w == Spelling[t]
           front == SubSeq(cells, 1, Len(cells) - Len(w))
<1>1. Folded(cells) = IF done = {} THEN cells ELSE Append(front, t)
  BY DEF Folded
<1>2. CASE done = {}
  BY <1>1, <1>2
<1>3. CASE done # {}
  <2>1. t \in done
    BY <1>3
  <2>2. t \in DOMAIN Spelling /\ IsSuffix(w, cells)
    BY <2>1
  <2> HIDE DEF t
  <2>3. t \in Token /\ Spelled(t) = w /\ w \in Seq(Letter)
    BY <2>2, SpelledIs
  <2>4. w \in Seq(Token)
    BY <2>3, LettersAreTokens
  <2> HIDE DEF w
  <2>5. Len(cells) - Len(w) \in 0 .. Len(cells) /\ cells = front \o w
    BY <2>2, <2>4, SuffixIs
  <2>6. front \in Seq(Token)
    BY <2>5
  <2> HIDE DEF front
  <2>7. Spell(cells) = Spell(front) \o Spell(w)
    BY <2>4, <2>5, <2>6, SpellConcat
  <2>8. Spell(w) = w
    BY <2>3, LettersSpell
  <2>9. Spell(Append(front, t)) = Spell(front) \o Spelled(t) /\ Append(front, t) \in Seq(Token)
    BY <2>3, <2>6, SpellIs
  <2>10. QED
    BY <1>1, <1>3, <2>3, <2>7, <2>8, <2>9
<1>4. QED
  BY <1>2, <1>3

LexRound == [t \in Token |-> [a \in Seq(Token) |-> Folded(Append(a, t))]]

LEMMA LexRoundIs ==
  /\ <<>> \in Seq(Token)
  /\ LexRound \in [Token -> [Seq(Token) -> Seq(Token)]]
  /\ \A t \in Token : \A a \in Seq(Token) : LexRound[t][a] = Folded(Append(a, t))
<1>1. \A t \in Token : \A a \in Seq(Token) : Append(a, t) \in Seq(Token)
  OBVIOUS
<1>2. \A t \in Token : \A a \in Seq(Token) : Folded(Append(a, t)) \in Seq(Token)
  BY <1>1, FoldedIs
<1>3. QED
  BY <1>2 DEF LexRound

LEMMA LexRolls ==
  ASSUME NEW s \in Seq(Token)
  PROVE  \E f : Rolls(f, s, LexRound, <<>>, Seq(Token)) /\ Lex(s) = f[Len(s)]
<1> DEFINE n == Len(s)
           Loop(f) == [i \in 0 .. n |-> IF i = 0 THEN <<>> ELSE Folded(Append(f[i - 1], s[i]))]
           toks == CHOOSE f : f = Loop(f)
           b == <<>>
<1>1. Lex(s) = toks[n]
  BY DEF Lex
<1>2. n \in Nat /\ \A i \in 1 .. n : s[i] \in Token
  OBVIOUS
<1>3. b \in Seq(Token) /\ LexRound \in [Token -> [Seq(Token) -> Seq(Token)]]
  BY LexRoundIs
<1>4. PICK f : Rolls(f, s, LexRound, b, Seq(Token))
  BY <1>3, RollRuns
<1>5. \A i \in 1 .. n : f[i] = Folded(Append(f[i - 1], s[i]))
  <2> TAKE i \in 1 .. n
  <2>1. i - 1 \in 0 .. n
    BY <1>2
  <2>2. f[i - 1] \in Seq(Token) /\ f[i] = LexRound[s[i]][f[i - 1]]
    BY <1>4, <2>1 DEF Rolls
  <2>3. QED
    BY <1>2, <2>2, LexRoundIs
<1>6. \A i \in 0 .. n : i # 0 => i \in 1 .. n
  BY <1>2
<1>7. f = Loop(f)
  BY <1>4, <1>5, <1>6 DEF Rolls
<1>8. toks = Loop(toks)
  BY <1>7
<1> HIDE DEF toks
<1>9. toks = [i \in 0 .. n |-> toks[i]] /\ toks[0] = b
  BY <1>2, <1>8
<1>10. ASSUME NEW i \in 1 .. n, toks[i - 1] \in Seq(Token)
       PROVE toks[i] = LexRound[s[i]][toks[i - 1]]
  <2>1. i \in 0 .. n /\ i # 0
    BY <1>2
  <2>2. toks[i] = Folded(Append(toks[i - 1], s[i]))
    BY <1>8, <2>1
  <2>3. QED
    BY <1>2, <1>10, <2>2, LexRoundIs
<1> HIDE DEF b
<1>11. Rolls(toks, s, LexRound, b, Seq(Token))
  BY <1>3, <1>9, <1>10, RollTyped
<1>12. QED
  BY <1>1, <1>11 DEF b

LEMMA LexIs ==
  ASSUME NEW s \in Seq(Token)
  PROVE  /\ Lex(s) \in Seq(Token)
         /\ \A t \in Token : Lex(Append(s, t)) = Folded(Append(Lex(s), t))
<1> DEFINE b == <<>>
           W == Seq(Token)
<1>1. b \in W /\ LexRound \in [Token -> [W -> W]]
  BY LexRoundIs
<1>2. \A r \in Seq(Token) : \E f : Rolls(f, r, LexRound, b, W) /\ Lex(r) = f[Len(r)]
  BY LexRolls
<1>3. PICK f : Rolls(f, s, LexRound, b, W) /\ Lex(s) = f[Len(s)]
  BY <1>2
<1>4. Lex(s) \in Seq(Token)
  <2>1. Len(s) \in 0 .. Len(s)
    OBVIOUS
  <2>2. QED
    BY <1>3, <2>1 DEF Rolls
<1>5. ASSUME NEW t \in Token PROVE Lex(Append(s, t)) = Folded(Append(Lex(s), t))
  <2>1. Append(s, t) \in Seq(Token) /\ Len(Append(s, t)) = Len(s) + 1
    OBVIOUS
  <2>2. PICK g : Rolls(g, Append(s, t), LexRound, b, W) /\ Lex(Append(s, t)) = g[Len(s) + 1]
    BY <1>2, <2>1
  <2>3. g[Len(s) + 1] = LexRound[t][f[Len(s)]]
    <3> HIDE DEF b, W
    <3>1. QED
      BY <1>1, <1>3, <2>2, RollMore, SMTT(30)
  <2>4. QED
    BY <1>3, <1>4, <2>2, <2>3, LexRoundIs
<1>6. QED
  BY <1>4, <1>5

LEMMA LexNothing == Lex(<<>>) = <<>>
<1> DEFINE s == <<>>
<1>1. s \in Seq(Token) /\ Len(s) = 0
  OBVIOUS
<1> HIDE DEF s
<1>2. PICK f : Rolls(f, s, LexRound, <<>>, Seq(Token)) /\ Lex(s) = f[Len(s)]
  BY <1>1, LexRolls
<1>3. Lex(s) = <<>>
  BY <1>1, <1>2 DEF Rolls
<1>4. QED
  BY <1>3 DEF s

\* What is read of a text stands for the text.
LEMMA LexSpells ==
  ASSUME NEW s \in Seq(Letter)
  PROVE  Lex(s) \in Seq(Token) /\ Spell(Lex(s)) = s
<1> DEFINE n == Len(s)
           first(k) == SubSeq(s, 1, k)
           P == {k \in 0 .. n : Spell(Lex(first(k))) = first(k)}
<1>1. n \in Nat /\ n \in 0 .. n
  OBVIOUS
<1>2. 0 \in P
  <2>1. first(0) = <<>>
    OBVIOUS
  <2> HIDE DEF first
  <2>2. QED
    BY <1>1, <2>1, SpellNothing, LexNothing
<1>3. ASSUME NEW k \in 1 .. n, k - 1 \in P PROVE k \in P
  <2> DEFINE a == first(k - 1)
             x == s[k]
  <2>1. first(k) = Append(a, x) /\ a \in Seq(Letter) /\ x \in Letter
    BY OneAtATime
  <2>2. Spell(Lex(a)) = a
    BY <1>3
  <2> HIDE DEF a, x, first
  <2>3. a \in Seq(Token) /\ x \in Token /\ Spelled(x) = <<x>>
    BY <2>1, LettersAreTokens, SpelledIs DEF Token
  <2>4. Lex(a) \in Seq(Token) /\ Lex(Append(a, x)) = Folded(Append(Lex(a), x))
    BY <2>3, LexIs
  <2>5. Append(Lex(a), x) \in Seq(Token)
    BY <2>3, <2>4
  <2>6. Spell(Lex(Append(a, x))) = Spell(Append(Lex(a), x))
    BY <2>4, <2>5, FoldedIs
  <2>7. Spell(Append(Lex(a), x)) = Spell(Lex(a)) \o Spelled(x)
    BY <2>3, <2>4, SpellIs
  <2>8. a \o <<x>> = Append(a, x)
    BY <2>1, AppendIsConcat
  <2>9. Spell(Lex(first(k))) = first(k)
    BY <2>1, <2>2, <2>3, <2>6, <2>7, <2>8
  <2>10. QED
    BY <2>9
<1>4. \A k \in 0 .. n : k \in P
  <2> HIDE DEF P
  <2>1. QED
    BY <1>1, <1>2, <1>3, Climb
<1>5. first(n) = s
  BY SubSeqFull
<1>6. s \in Seq(Token)
  BY LettersAreTokens
<1>7. Lex(s) \in Seq(Token)
  BY <1>6, LexIs
<1>8. QED
  BY <1>1, <1>4, <1>5, <1>7

-----------------------------------------------------------------------------
\* What the parser's helpers leave is made of tokens.
LEMMA PartIs ==
  ASSUME NEW T, NEW s \in Seq(T), NEW a \in Nat, NEW b \in Int, 1 <= a, b <= Len(s)
  PROVE  SubSeq(s, a, b) \in Seq(T)
<1>1. a \in Int /\ b \in Int /\ \A i \in a .. b : s[i] \in T
  OBVIOUS
<1>2. QED
  BY <1>1, SubSeqProperties

LEMMA TrimTyped ==
  ASSUME NEW T, NEW s \in Seq(T)
  PROVE  TrimRight(s) \in Seq(T) /\ Reverse(s) \in Seq(T)
<1>1. PICK m \in 0 .. Len(s) : Ends(s, m)
  BY TextEnds
<1>2. TrimRight(s) = SubSeq(s, 1, m)
  BY <1>1, TrimIs
<1>3. SubSeq(s, 1, m) \in Seq(T)
  BY PartIs
<1>4. Len(s) \in Nat /\ \A i \in 1 .. Len(s) : s[i] \in T
  OBVIOUS
<1>5. Reverse(s) \in Seq(T)
  BY <1>4 DEF Reverse
<1>6. QED
  BY <1>2, <1>3, <1>5

LEMMA SpaceTyped ==
  ASSUME NEW T, NEW s \in Seq(T)
  PROVE  TrimSpace(s) \in Seq(T)
<1> DEFINE a == TrimRight(s)
           b == Reverse(a)
           c == TrimRight(b)
<1>1. a \in Seq(T)
  BY TrimTyped
<1> HIDE DEF a
<1>2. b \in Seq(T)
  BY <1>1, TrimTyped
<1> HIDE DEF b
<1>3. c \in Seq(T)
  BY <1>2, TrimTyped
<1> HIDE DEF c
<1>4. Reverse(c) \in Seq(T)
  BY <1>3, TrimTyped
<1>5. QED
  BY <1>4 DEF TrimSpace, a, b, c

LEMMA InnerTyped ==
  ASSUME NEW s \in Seq(Token)
  PROVE  Inner(s) \in Seq(Token) /\ stripCodeFences(s) \in Seq(Token)
<1> DEFINE part == SubSeq(s, 2, Len(s) - 1)
<1>1. part \in Seq(Token)
  BY PartIs
<1> HIDE DEF part
<1>2. TrimSpace(part) \in Seq(Token)
  BY <1>1, SpaceTyped
<1>3. QED
  BY <1>2 DEF Inner, stripCodeFences, part

LEMMA RepairTyped ==
  ASSUME NEW doc \in Seq(Token)
  PROVE  Repair(doc) \in Seq(Token)
<1> DEFINE mended == MendJSON(doc)
           braces == Only(mended, {"J", "R", "r", "n", "j1", "h"})
           extracted == extractJSON(mended)
<1>1. mended \in Seq(Token)
  <2>1. Len(doc) \in Nat /\ DOMAIN doc = 1 .. Len(doc) /\ \A k \in 1 .. Len(doc) : doc[k] \in Token
    OBVIOUS
  <2>2. "R" \in Token
    BY DEF Token
  <2>3. \A k \in 1 .. Len(doc) : (IF doc[k] = "r" THEN "R" ELSE doc[k]) \in Token
    BY <2>1, <2>2
  <2>4. mended = [k \in 1 .. Len(doc) |-> IF doc[k] = "r" THEN "R" ELSE doc[k]]
    BY <2>1 DEF MendJSON
  <2>5. QED
    BY <2>1, <2>3, <2>4
<1> HIDE DEF mended
<1>2. braces \in Seq(Token)
  BY <1>1, OnlyKeeps
<1>3. extracted = IF braces # <<>> /\ Head(braces) \notin {"j1", "h"} THEN <<Head(braces)>> ELSE <<>>
  BY DEF extractJSON
<1> HIDE DEF braces, extracted
<1>4. extracted \in Seq(Token)
  <2>1. braces # <<>> => Head(braces) \in Token
    BY <1>2
  <2>2. QED
    BY <1>3, <2>1
<1>5. Repair(doc) \in {doc, mended, extracted}
  BY DEF Repair, mended, extracted
<1>6. QED
  BY <1>1, <1>4, <1>5

LEMMA ParsedTyped ==
  ASSUME NEW doc \in Seq(Token)
  PROVE  ParsedDoc(doc) \in Seq(Token)
<1>1. "N" \in Token /\ "X" \in Token /\ "H" \in Token
  BY DEF Token
<1>2. <<>> \in Seq(Token) /\ <<"N">> \in Seq(Token) /\ <<"X">> \in Seq(Token) /\ <<"H">> \in Seq(Token)
  BY <1>1
<1>3. parseJSON(doc) \in Seq(Token)
  BY <1>2 DEF parseJSON
<1>4. parseXML(doc) \in Seq(Token)
  BY <1>2 DEF parseXML
<1>5. parseHybrid(doc) \in Seq(Token)
  BY <1>2 DEF parseHybrid
<1>6. QED
  BY <1>3, <1>4, <1>5 DEF ParsedDoc

LEMMA BlockTyped ==
  ASSUME NEW block \in Seq(Token)
  PROVE  parseBlock(Inner(block)) \in Seq(Token)
<1> DEFINE a == Inner(block)
           b == stripCodeFences(a)
           c == Repair(b)
<1>1. a \in Seq(Token)
  BY InnerTyped
<1> HIDE DEF a
<1>2. b \in Seq(Token)
  BY <1>1, InnerTyped
<1> HIDE DEF b
<1>3. c \in Seq(Token)
  BY <1>2, RepairTyped
<1> HIDE DEF c
<1>4. ParsedDoc(c) \in Seq(Token)
  BY <1>3, ParsedTyped
<1>5. QED
  BY <1>4 DEF parseBlock, a, b, c

Finds == [calls : Seq(Token), text : Seq(Token)]

LEMMA FoundIs ==
  ASSUME NEW c \in Seq(Token), NEW t \in Seq(Token)
  PROVE  Found(c, t) \in Finds /\ Found(c, t).calls = c /\ Found(c, t).text = t
BY DEF Found, Finds

LEMMA BlockOfTyped ==
  ASSUME NEW block \in Seq(Token), NEW kind
  PROVE  BlockOf(kind, block) \in Finds
<1> DEFINE call == parseBlock(Inner(block))
           left == IF call = <<>> THEN block ELSE <<>>
           n == TokenCount(block, {"i"})
           invokes == [k \in 1 .. n |-> "I"]
           none == <<>>
<1>1. call \in Seq(Token)
  BY BlockTyped
<1> HIDE DEF call
<1>2. none \in Seq(Token) /\ left \in Seq(Token)
  OBVIOUS
<1>3. n \in Nat
  BY OnlyKeeps DEF TokenCount
<1>4. "I" \in Token
  BY DEF Token
<1> HIDE DEF n, left
<1>5. invokes \in Seq(Token)
  BY <1>3, <1>4
<1> HIDE DEF invokes, none
<1>6. Found(call, left) \in Finds /\ Found(invokes, none) \in Finds
      /\ Found(call, none) \in Finds /\ Found(none, none) \in Finds
  BY <1>1, <1>2, <1>5, FoundIs
<1>7. BlockOf(kind, block) \in {Found(call, left), Found(invokes, none), Found(call, none), Found(none, none)}
  BY DEF BlockOf, Unless, call, left, n, invokes, none
<1>8. QED
  BY <1>6, <1>7

-----------------------------------------------------------------------------
\* What begins with a list still does when more comes after it.
LEMMA ExtendsMore ==
  ASSUME NEW T, NEW a \in Seq(T), NEW p \in Seq(T), NEW more \in Seq(T), Extends(a, p)
  PROVE  Extends(a \o more, p)
<1>1. /\ a \o more \in Seq(T) /\ Len(a \o more) = Len(a) + Len(more)
      /\ \A i \in 1 .. Len(a) + Len(more) : (a \o more)[i] = IF i <= Len(a) THEN a[i] ELSE more[i - Len(a)]
  BY ConcatProperties
<1>2. Len(a) \in Nat /\ Len(more) \in Nat /\ Len(p) \in Nat
  OBVIOUS
<1>3. Len(p) <= Len(a) /\ \A i \in 1 .. Len(p) : a[i] = p[i]
  BY DEF Extends
<1> DEFINE c == a \o more
<1> HIDE DEF c
<1>4. \A i \in 1 .. Len(p) : c[i] = a[i]
  BY <1>1, <1>2, <1>3 DEF c
<1>5. Len(c) = Len(a) + Len(more)
  BY <1>1 DEF c
<1>6. Extends(c, p)
  BY <1>2, <1>3, <1>4, <1>5 DEF Extends
<1>7. QED
  BY <1>6 DEF c

\* Blocks, token by token: the calls so far, the text so far, and the block it is in.
Scans == [calls : Seq(Token), text : Seq(Token), block : Seq(Token)]
NoScan == [calls |-> <<>>, text |-> <<>>, block |-> <<>>]
ScanRound(open, closers, kind) ==
  [t \in Token |-> [a \in Scans |-> Scanned(a, t, open, closers, kind)]]

LEMMA ScannedIs ==
  ASSUME NEW a \in Scans, NEW t \in Token, NEW open, NEW closers, NEW kind,
         NEW b, b = Scanned(a, t, open, closers, kind)
  PROVE  /\ b \in Scans
         /\ a.block = <<>> /\ t # open => b = [a EXCEPT !.text = Append(@, t)]
         /\ \A p \in Seq(Token) : Extends(a.text, p) => Extends(b.text, p)
<1> DEFINE block == Append(a.block, t)
           found == BlockOf(kind, block)
           e == <<>>
<1>0. a.calls \in Seq(Token) /\ a.text \in Seq(Token) /\ a.block \in Seq(Token) /\ e \in Seq(Token)
  BY DEF Scans
<1>1. block \in Seq(Token) /\ block # <<>>
  BY <1>0
<1> HIDE DEF block
<1>2. found \in Finds
  BY <1>1, BlockOfTyped
<1> HIDE DEF found
<1>3. found.calls \in Seq(Token) /\ found.text \in Seq(Token)
  BY <1>2 DEF Finds
<1>4. ASSUME NEW more \in Seq(Token), b.text = a.text \o more, NEW p \in Seq(Token), Extends(a.text, p)
      PROVE  Extends(b.text, p)
  <2> DEFINE x == a.text
  <2>1. x \in Seq(Token) /\ Extends(x, p)
    BY <1>0, <1>4
  <2> HIDE DEF x
  <2>2. Extends(x \o more, p)
    BY <2>1, ExtendsMore
  <2>3. QED
    BY <1>4, <2>2 DEF x
<1>5. CASE a.block = <<>> /\ t # open
  <2>1. b = [a EXCEPT !.text = Append(@, t)]
    BY <1>5 DEF Scanned
  <2>2. Append(a.text, t) \in Seq(Token)
    BY <1>0
  <2>3. b \in Scans /\ b.text = Append(a.text, t) /\ b.block = a.block
    BY <2>1, <2>2 DEF Scans
  <2>4. Append(a.text, t) = a.text \o <<t>> /\ <<t>> \in Seq(Token)
    BY <1>0, AppendIsConcat
  <2>5. QED
    BY <1>4, <1>5, <2>1, <2>3, <2>4
<1>6. CASE a.block = <<>> /\ t = open
  <2>1. b = [a EXCEPT !.block = <<t>>]
    BY <1>6 DEF Scanned
  <2>2. <<t>> \in Seq(Token)
    OBVIOUS
  <2>3. b \in Scans /\ b.text = a.text
    BY <2>1, <2>2 DEF Scans
  <2>4. QED
    BY <1>6, <2>1, <2>3
<1>7. CASE a.block # <<>> /\ t \notin closers
  <2>1. b = [a EXCEPT !.block = block]
    BY <1>7 DEF Scanned, block
  <2>2. b \in Scans /\ b.text = a.text /\ b.block = block
    BY <1>1, <2>1 DEF Scans
  <2>3. QED
    BY <1>1, <1>7, <2>2
<1>8. CASE a.block # <<>> /\ t \in closers
  <2>1. b = [calls |-> a.calls \o found.calls, text |-> a.text \o found.text, block |-> <<>>]
    BY <1>8 DEF Scanned, Replaced, found, block
  <2>2. a.calls \o found.calls \in Seq(Token) /\ a.text \o found.text \in Seq(Token)
    BY <1>0, <1>3, ConcatProperties
  <2>3. b \in Scans /\ b.text = a.text \o found.text
    BY <1>0, <2>1, <2>2 DEF Scans
  <2>4. QED
    BY <1>3, <1>4, <1>8, <2>3
<1>9. QED
  BY <1>5, <1>6, <1>7, <1>8

LEMMA ScanRoundIs ==
  ASSUME NEW open, NEW closers, NEW kind
  PROVE  /\ NoScan \in Scans
         /\ ScanRound(open, closers, kind) \in [Token -> [Scans -> Scans]]
         /\ \A t \in Token : \A a \in Scans :
              ScanRound(open, closers, kind)[t][a] = Scanned(a, t, open, closers, kind)
<1>1. <<>> \in Seq(Token)
  OBVIOUS
<1>2. \A t \in Token : \A a \in Scans : Scanned(a, t, open, closers, kind) \in Scans
  BY ScannedIs
<1>3. QED
  BY <1>1, <1>2 DEF ScanRound, NoScan, Scans

LEMMA BlocksRoll ==
  ASSUME NEW s \in Seq(Token), NEW open, NEW closers, NEW kind
  PROVE  \E f : /\ Rolls(f, s, ScanRound(open, closers, kind), NoScan, Scans)
                /\ Blocks(s, open, closers, kind) = Found(f[Len(s)].calls, f[Len(s)].text \o f[Len(s)].block)
<1> DEFINE n == Len(s)
           Loop(f) == [i \in 0 .. n |-> IF i = 0 THEN [calls |-> <<>>, text |-> <<>>, block |-> <<>>]
                                        ELSE Scanned(f[i - 1], s[i], open, closers, kind)]
           acc == CHOOSE f : f = Loop(f)
           b == NoScan
           round == ScanRound(open, closers, kind)
<1>1. Blocks(s, open, closers, kind) = Found(acc[n].calls, acc[n].text \o acc[n].block)
  BY DEF Blocks, AtEnd
<1>2. n \in Nat /\ \A i \in 1 .. n : s[i] \in Token
  OBVIOUS
<1>3. /\ b \in Scans /\ round \in [Token -> [Scans -> Scans]]
      /\ \A t \in Token : \A a \in Scans : round[t][a] = Scanned(a, t, open, closers, kind)
  BY ScanRoundIs
<1>b. b = [calls |-> <<>>, text |-> <<>>, block |-> <<>>]
  BY DEF NoScan
<1> HIDE DEF round, b
<1>4. PICK f : Rolls(f, s, round, b, Scans)
  BY <1>3, RollRuns
<1>5. \A i \in 1 .. n : f[i] = Scanned(f[i - 1], s[i], open, closers, kind)
  <2> TAKE i \in 1 .. n
  <2>1. i - 1 \in 0 .. n
    BY <1>2
  <2>2. f[i - 1] \in Scans /\ f[i] = round[s[i]][f[i - 1]]
    BY <1>4, <2>1 DEF Rolls
  <2>3. QED
    BY <1>2, <1>3, <2>2
<1>6. \A i \in 0 .. n : i # 0 => i \in 1 .. n
  BY <1>2
<1>7. f = Loop(f)
  BY <1>4, <1>5, <1>6, <1>b DEF Rolls
<1>8. acc = Loop(acc)
  BY <1>7
<1> HIDE DEF acc
<1>9. acc = [i \in 0 .. n |-> acc[i]] /\ acc[0] = b
  BY <1>2, <1>8, <1>b
<1>10. ASSUME NEW i \in 1 .. n, acc[i - 1] \in Scans
       PROVE acc[i] = round[s[i]][acc[i - 1]]
  <2>1. i \in 0 .. n /\ i # 0
    BY <1>2
  <2>2. acc[i] = Scanned(acc[i - 1], s[i], open, closers, kind)
    BY <1>8, <2>1
  <2>3. QED
    BY <1>2, <1>3, <1>10, <2>2
<1>11. Rolls(acc, s, round, b, Scans)
  BY <1>3, <1>9, <1>10, RollTyped
<1>12. QED
  BY <1>1, <1>11 DEF round, b

\* What the scan leaves: calls and a text of tokens.  A list of tokens that are no
\* openers, at the front, stays at the front; with no opener at all nothing changes.
LEMMA BlocksAre ==
  ASSUME NEW s \in Seq(Token), NEW open, NEW closers, NEW kind
  PROVE  LET b == Blocks(s, open, closers, kind)
         IN  /\ b \in Finds
             /\ \A p \in Seq(Token) :
                  Extends(s, p) /\ (\A k \in 1 .. Len(p) : p[k] # open) => Extends(b.text, p)
             /\ (\A k \in 1 .. Len(s) : s[k] # open) => b = Found(<<>>, s)
<1> DEFINE n == Len(s)
           round == ScanRound(open, closers, kind)
<1>0. /\ round \in [Token -> [Scans -> Scans]]
      /\ \A t \in Token : \A a \in Scans : round[t][a] = Scanned(a, t, open, closers, kind)
  BY ScanRoundIs
<1>1. PICK f : /\ Rolls(f, s, round, NoScan, Scans)
               /\ Blocks(s, open, closers, kind) = Found(f[n].calls, f[n].text \o f[n].block)
  BY BlocksRoll
<1> HIDE DEF round
<1>2. n \in Nat /\ n \in 0 .. n /\ \A i \in 1 .. n : s[i] \in Token
  OBVIOUS
<1>3. f[0] = NoScan /\ \A i \in 0 .. n : f[i] \in Scans
  BY <1>1, <1>2 DEF Rolls
<1>4. \A i \in 1 .. n : f[i] = Scanned(f[i - 1], s[i], open, closers, kind) /\ f[i - 1] \in Scans
  <2> TAKE i \in 1 .. n
  <2>1. i - 1 \in 0 .. n
    BY <1>2
  <2>2. f[i - 1] \in Scans /\ f[i] = round[s[i]][f[i - 1]]
    BY <1>1, <2>1 DEF Rolls
  <2>3. QED
    BY <1>0, <1>2, <2>2
<1>5. f[n].calls \in Seq(Token) /\ f[n].text \in Seq(Token) /\ f[n].block \in Seq(Token)
  BY <1>2, <1>3 DEF Scans
<1> DEFINE left == f[n].text \o f[n].block
           b == Blocks(s, open, closers, kind)
<1>6. left \in Seq(Token)
  BY <1>5, ConcatProperties
<1> HIDE DEF left
<1>7. b \in Finds /\ b.calls = f[n].calls /\ b.text = left /\ b = Found(f[n].calls, left)
  <2> DEFINE c == f[n].calls
  <2>1. b = Found(c, left) /\ c \in Seq(Token) /\ left \in Seq(Token)
    BY <1>1, <1>5, <1>6 DEF left
  <2> HIDE DEF b, c
  <2>2. b \in Finds /\ b.calls = c /\ b.text = left
    BY <2>1, FoundIs
  <2>3. QED
    BY <2>1, <2>2 DEF c
<1> HIDE DEF b
\* While no opener came there is no block and the text is what was read.
<1>8. ASSUME NEW j \in 0 .. n, \A k \in 1 .. j : s[k] # open
      PROVE  f[j] = [calls |-> <<>>, text |-> SubSeq(s, 1, j), block |-> <<>>]
  <2> DEFINE P == {i \in 0 .. j : f[i] = [calls |-> <<>>, text |-> SubSeq(s, 1, i), block |-> <<>>]}
  <2>1. 0 \in P
    <3>1. SubSeq(s, 1, 0) = <<>>
      OBVIOUS
    <3>2. QED
      BY <1>3, <3>1 DEF NoScan
  <2>2. ASSUME NEW i \in 1 .. j, i - 1 \in P PROVE i \in P
    <3>1. i \in 1 .. n /\ i \in 0 .. j /\ s[i] # open
      BY <1>2, <1>8
    <3>2. f[i] = Scanned(f[i - 1], s[i], open, closers, kind) /\ f[i - 1] \in Scans /\ s[i] \in Token
      BY <1>2, <1>4, <3>1
    <3>3. f[i - 1] = [calls |-> <<>>, text |-> SubSeq(s, 1, i - 1), block |-> <<>>]
      BY <2>2
    <3> DEFINE a == f[i - 1]
               x == s[i]
    <3>b. a.block = <<>> /\ x # open /\ a \in Scans /\ x \in Token
      BY <3>1, <3>2, <3>3
    <3>c. f[i] = Scanned(a, x, open, closers, kind)
      BY <3>2
    <3>d. a = [calls |-> <<>>, text |-> SubSeq(s, 1, i - 1), block |-> <<>>]
      BY <3>3
    <3> HIDE DEF a, x
    <3>4. f[i] = [a EXCEPT !.text = Append(@, x)]
      BY <3>b, <3>c, ScannedIs
    <3>5. Append(SubSeq(s, 1, i - 1), x) = SubSeq(s, 1, i)
      BY <3>1, OneAtATime DEF x
    <3> HIDE DEF P
    <3>e. f[i] = [calls |-> <<>>, text |-> Append(SubSeq(s, 1, i - 1), x), block |-> <<>>]
      BY <3>4, <3>d
    <3>6. f[i] = [calls |-> <<>>, text |-> SubSeq(s, 1, i), block |-> <<>>]
      BY <3>5, <3>e
    <3>7. QED
      BY <3>1, <3>6 DEF P
  <2>3. \A i \in 0 .. j : i \in P
    <3>1. j \in Nat
      BY <1>2
    <3> HIDE DEF P
    <3>2. QED
      BY <2>1, <2>2, <3>1, Climb
  <2>4. j \in 0 .. j
    BY <1>2
  <2>5. QED
    BY <2>3, <2>4
<1>9. ASSUME NEW p \in Seq(Token), Extends(s, p), \A k \in 1 .. Len(p) : p[k] # open
      PROVE  Extends(b.text, p)
  <2> DEFINE m == Len(p)
             Q == {i \in 0 .. n - m : Extends(f[m + i].text, p)}
  <2>0. m \in Nat /\ m <= n /\ \A k \in 1 .. m : s[k] = p[k]
    BY <1>9 DEF Extends
  <2>1. 0 \in Q
    <3>1. m \in 0 .. n /\ \A k \in 1 .. m : s[k] # open
      BY <1>2, <1>9, <2>0
    <3>2. f[m] = [calls |-> <<>>, text |-> SubSeq(s, 1, m), block |-> <<>>]
      BY <1>8, <3>1
    <3>3. Len(SubSeq(s, 1, m)) = m /\ \A k \in 1 .. m : SubSeq(s, 1, m)[k] = s[k]
      BY <2>0, <3>1
    <3>4. Extends(f[m].text, p)
      BY <2>0, <3>2, <3>3 DEF Extends
    <3>5. 0 \in 0 .. n - m /\ m + 0 = m
      BY <1>2, <2>0
    <3>6. QED
      BY <3>4, <3>5
  <2>2. ASSUME NEW i \in 1 .. n - m, i - 1 \in Q PROVE i \in Q
    <3>1. m + i \in 1 .. n /\ m + (i - 1) = (m + i) - 1 /\ i \in 0 .. n - m
      BY <1>2, <2>0
    <3>2. Extends(f[(m + i) - 1].text, p)
      BY <2>2, <3>1
    <3>3. /\ f[m + i] = Scanned(f[(m + i) - 1], s[m + i], open, closers, kind)
          /\ f[(m + i) - 1] \in Scans /\ s[m + i] \in Token
      BY <1>2, <1>4, <3>1
    <3> DEFINE a == f[(m + i) - 1]
               c == f[m + i]
    <3> DEFINE x == s[m + i]
    <3>4. c = Scanned(a, x, open, closers, kind) /\ a \in Scans /\ x \in Token /\ Extends(a.text, p)
      BY <3>2, <3>3
    <3> HIDE DEF a, c, x
    <3>5. Extends(c.text, p)
      BY <3>4, ScannedIs
    <3>7. Extends(f[m + i].text, p)
      BY <3>5 DEF c
    <3>8. QED
      BY <3>1, <3>7
  <2>3. n - m \in Nat /\ n - m \in 0 .. n - m /\ m + (n - m) = n
    BY <1>2, <2>0
  <2>4. \A i \in 0 .. n - m : i \in Q
    <3> HIDE DEF Q
    <3>1. QED
      BY <2>1, <2>2, <2>3, Climb
  <2>5. Extends(f[n].text, p)
    BY <2>3, <2>4
  <2>6. Extends(left, p)
    <3> DEFINE x == f[n].text
               y == f[n].block
    <3>1. x \in Seq(Token) /\ y \in Seq(Token) /\ Extends(x, p)
      BY <1>5, <2>5
    <3> HIDE DEF x, y
    <3>2. Extends(x \o y, p)
      BY <3>1, ExtendsMore
    <3>3. QED
      BY <3>2 DEF left, x, y
  <2>7. QED
    BY <1>7, <2>6
<1>10. ASSUME \A k \in 1 .. n : s[k] # open PROVE b = Found(<<>>, s)
  <2>1. f[n] = [calls |-> <<>>, text |-> SubSeq(s, 1, n), block |-> <<>>]
    BY <1>2, <1>8, <1>10
  <2>2. SubSeq(s, 1, n) = s
    BY SubSeqFull
  <2>3. s \o <<>> = s
    BY ConcatEmptySeq
  <2>4. left = s
    BY <2>1, <2>2, <2>3 DEF left
  <2>5. QED
    BY <1>7, <2>1, <2>4
<1>11. QED
  BY <1>7, <1>9, <1>10 DEF b

-----------------------------------------------------------------------------
\* The filter that keeps everything.
LEMMA OnlyAll ==
  ASSUME NEW S, NEW s \in Seq(S), NEW keep, \A k \in 1 .. Len(s) : s[k] \in keep
  PROVE  Only(s, keep) = s
<1> DEFINE n == Len(s)
           first(k) == SubSeq(s, 1, k)
           P == {k \in 0 .. n : Only(first(k), keep) = first(k)}
<1>1. n \in Nat /\ n \in 0 .. n
  OBVIOUS
<1>2. 0 \in P
  <2>1. first(0) = <<>>
    OBVIOUS
  <2>2. Only(<<>>, keep) = <<>>
    BY OnlyNothing
  <2>3. Only(first(0), keep) = first(0)
    BY <2>1, <2>2
  <2>4. 0 \in 0 .. n
    BY <1>1
  <2>5. QED
    BY <2>3, <2>4
<1>3. ASSUME NEW k \in 1 .. n, k - 1 \in P PROVE k \in P
  <2> DEFINE a == first(k - 1)
             x == s[k]
  <2>1. first(k) = Append(a, x) /\ a \in Seq(S) /\ x \in S
    BY OneAtATime
  <2>2. Only(a, keep) = a /\ x \in keep /\ k \in 0 .. n
    BY <1>3
  <2> HIDE DEF a, x
  <2>3. Only(Append(a, x), keep) = Append(a, x)
    BY <2>1, <2>2, OnlyOneMore
  <2>4. QED
    BY <2>1, <2>2, <2>3
<1>4. \A k \in 0 .. n : k \in P
  <2> HIDE DEF P
  <2>1. QED
    BY <1>1, <1>2, <1>3, Climb
<1>5. first(n) = s
  BY SubSeqFull
<1>6. QED
  BY <1>1, <1>4, <1>5

\* Elements chosen by their places: none, the first ones and more, or all.
LEMMA ChosenIs ==
  ASSUME NEW T, NEW s \in Seq(T), NEW at
  PROVE  /\ Chosen(s, at) \in Seq(T)
         /\ (\A k \in 1 .. Len(s) : k \notin at) => Chosen(s, at) = <<>>
         /\ \A m \in 0 .. Len(s) : (\A k \in 1 .. m : k \in at) =>
              /\ m <= Len(Chosen(s, at)) /\ \A k \in 1 .. m : Chosen(s, at)[k] = s[k]
         /\ (\A k \in 1 .. Len(s) : k \in at) => Chosen(s, at) = s
<1> DEFINE n == Len(s)
           all == [k \in 1 .. n |-> k]
           kept == Only(all, at)
           c == Chosen(s, at)
<1>0. n \in Nat /\ DOMAIN s = 1 .. n /\ \A k \in 1 .. n : s[k] \in T
  OBVIOUS
<1>1. all \in Seq(1 .. n) /\ Len(all) = n /\ \A k \in 1 .. n : all[k] = k
  BY <1>0
<1>2. c = [k \in DOMAIN kept |-> s[kept[k]]]
  BY <1>0 DEF Chosen
<1> HIDE DEF all, c, kept
<1>3. kept \in Seq(1 .. n) /\ Elements(kept) = Elements(all) \intersect at
  BY <1>1, OnlyKeeps DEF kept
<1>4. Len(kept) \in Nat /\ DOMAIN kept = 1 .. Len(kept) /\ \A k \in 1 .. Len(kept) : kept[k] \in 1 .. n
  BY <1>3
<1>5. \A k \in 1 .. Len(kept) : s[kept[k]] \in T
  BY <1>0, <1>4
<1>6. c \in Seq(T) /\ Len(c) = Len(kept) /\ \A k \in 1 .. Len(kept) : c[k] = s[kept[k]]
  <2>1. c = [k \in 1 .. Len(kept) |-> s[kept[k]]]
    BY <1>2, <1>4
  <2>2. QED
    BY <1>4, <1>5, <2>1
<1>7. ASSUME \A k \in 1 .. n : k \notin at PROVE c = <<>>
  <2>1. SUFFICES ASSUME Len(kept) # 0 PROVE FALSE
    BY <1>6
  <2>2. kept[1] \in Elements(kept)
    BY <1>4, <2>1 DEF Elements
  <2>3. kept[1] \in 1 .. n /\ kept[1] \in at
    BY <1>3, <1>4, <2>1, <2>2
  <2>4. QED
    BY <1>7, <2>3
<1>8. ASSUME NEW m \in 0 .. n, \A k \in 1 .. m : k \in at
      PROVE  m <= Len(c) /\ \A k \in 1 .. m : c[k] = s[k]
  <2> DEFINE first == SubSeq(all, 1, m)
  <2>1. first \in Seq(1 .. n) /\ Len(first) = m /\ \A k \in 1 .. m : first[k] = all[k]
    BY <1>0, <1>1
  <2>2. Extends(kept, Only(first, at))
    BY <1>1, OnlyGrows DEF kept
  <2> HIDE DEF first
  <2>3. \A k \in 1 .. m : first[k] = k /\ k \in 1 .. n
    <3> TAKE k \in 1 .. m
    <3>1. k \in 1 .. n
      BY <1>0
    <3>2. first[k] = all[k] /\ all[k] = k
      BY <1>1, <2>1, <3>1
    <3>3. QED
      BY <3>1, <3>2
  <2>4. \A k \in 1 .. Len(first) : first[k] \in at
    BY <1>8, <2>1, <2>3
  <2>5. Only(first, at) = first
    BY <2>1, <2>4, OnlyAll
  <2>6. Extends(kept, first)
    BY <2>2, <2>5
  <2>7. m <= Len(kept) /\ \A k \in 1 .. m : kept[k] = first[k]
    BY <2>1, <2>6 DEF Extends
  <2>8. \A k \in 1 .. m : k \in 1 .. Len(kept) /\ kept[k] = k
    BY <1>0, <1>4, <2>3, <2>7
  <2>9. QED
    BY <1>6, <2>7, <2>8
<1>9. ASSUME \A k \in 1 .. n : k \in at PROVE c = s
  <2>1. kept = all
    <3>1. \A k \in 1 .. Len(all) : all[k] \in at
      BY <1>1, <1>9
    <3>2. QED
      BY <1>1, <3>1, OnlyAll DEF kept
  <2>2. Len(c) = n /\ \A k \in 1 .. n : c[k] = s[k]
    BY <1>1, <1>6, <2>1
  <2>3. QED
    BY <1>6, <2>2, SeqEqual
<1>10. QED
  BY <1>6, <1>7, <1>8, <1>9 DEF c

\* No token of the sort is counted where there is none.
LEMMA CountIs ==
  ASSUME NEW T, NEW s \in Seq(T), NEW tags
  PROVE  /\ TokenCount(s, tags) \in Nat
         /\ (\A k \in 1 .. Len(s) : s[k] \notin tags) => TokenCount(s, tags) = 0
<1> DEFINE kept == Only(s, tags)
<1>1. kept \in Seq(T) /\ Elements(kept) = Elements(s) \intersect tags
  BY OnlyKeeps
<1> HIDE DEF kept
<1>2. Len(kept) \in Nat
  BY <1>1
<1>3. ASSUME \A k \in 1 .. Len(s) : s[k] \notin tags, Len(kept) # 0 PROVE FALSE
  <2>1. kept[1] \in Elements(kept)
    BY <1>2, <1>3 DEF Elements
  <2>2. kept[1] \in tags /\ kept[1] \in Elements(s)
    BY <1>1, <2>1
  <2>3. QED
    BY <1>3, <2>2 DEF Elements
<1>4. QED
  BY <1>2, <1>3 DEF TokenCount, kept

LEMMA ClosedIs ==
  ASSUME NEW s \in Seq(Token)
  PROVE  LET t == closeUnclosedToolCallTags(s)
         IN  /\ t \in Seq(Token) /\ Extends(t, s)
             /\ (\A k \in 1 .. Len(s) : s[k] # "O") => t = s
<1> DEFINE n == TokenCount(s, {"O"}) - TokenCount(s, Closers)
           more == [k \in 1 .. n |-> "c"]
           t == closeUnclosedToolCallTags(s)
<1>1. TokenCount(s, {"O"}) \in Nat /\ TokenCount(s, Closers) \in Nat
  BY CountIs
<1>2. t = IF ~ HasUnclosedToolCall(s) THEN s ELSE s \o more
  BY DEF closeUnclosedToolCallTags
<1>3. HasUnclosedToolCall(s) => n \in Nat
  BY <1>1 DEF HasUnclosedToolCall
<1>4. "c" \in Token
  BY LetterIs DEF Token
<1> HIDE DEF n
<1>5. HasUnclosedToolCall(s) => more \in Seq(Token)
  BY <1>3, <1>4
<1> HIDE DEF more, t
<1>6. Extends(s, s)
  BY DEF Extends
<1>7. t \in Seq(Token) /\ Extends(t, s)
  <2>1. CASE ~ HasUnclosedToolCall(s)
    BY <1>2, <1>6, <2>1
  <2>2. CASE HasUnclosedToolCall(s)
    <3>1. s \o more \in Seq(Token) /\ Extends(s \o more, s)
      BY <1>5, <1>6, <2>2, ConcatProperties, ExtendsMore
    <3>2. QED
      BY <1>2, <2>2, <3>1
  <2>3. QED
    BY <2>1, <2>2
<1>8. ASSUME \A k \in 1 .. Len(s) : s[k] # "O" PROVE t = s
  <2>1. \A k \in 1 .. Len(s) : s[k] \notin {"O"}
    BY <1>8
  <2>2. TokenCount(s, {"O"}) = 0
    BY <2>1, CountIs
  <2>3. ~ HasUnclosedToolCall(s)
    BY <1>1, <2>2 DEF HasUnclosedToolCall
  <2>4. QED
    BY <1>2, <2>3
<1>9. QED
  BY <1>7, <1>8 DEF t

LEMMA ExtendsTrans ==
  ASSUME NEW T, NEW a \in Seq(T), NEW b \in Seq(T), NEW c \in Seq(T), Extends(a, b), Extends(b, c)
  PROVE  Extends(a, c)
BY DEF Extends

-----------------------------------------------------------------------------
\* What each pass of the parser leaves.  Plain: tokens at the front of a text none of
\* the passes looks for, "O" and, with the other formats, "F" and bare JSON.
Plain(p, multi) ==
  \A k \in 1 .. Len(p) : p[k] # "O" /\ (multi => p[k] # "F" /\ p[k] # "J" /\ p[k] # "n")

\* A pass: it finds calls, keeps a plain front and leaves a plain text alone.
Passes(found, toks, multi) ==
  /\ found \in Finds
  /\ \A p \in Seq(Token) : Extends(toks, p) /\ Plain(p, multi) => Extends(found.text, p)
  /\ Plain(toks, multi) => found = Found(<<>>, toks)

LEMMA TagsPass ==
  ASSUME NEW s \in Seq(Token), NEW multi, NEW open, NEW closers, NEW kind,
         open = "O" \/ (open = "F" /\ multi)
  PROVE  Passes(Blocks(s, open, closers, kind), s, multi)
<1> DEFINE b == Blocks(s, open, closers, kind)
<1>1. /\ b \in Finds
      /\ \A p \in Seq(Token) : Extends(s, p) /\ (\A k \in 1 .. Len(p) : p[k] # open) => Extends(b.text, p)
      /\ (\A k \in 1 .. Len(s) : s[k] # open) => b = Found(<<>>, s)
  BY BlocksAre
<1>2. \A p \in Seq(Token) : Plain(p, multi) => \A k \in 1 .. Len(p) : p[k] # open
  BY DEF Plain
<1> HIDE DEF b
<1>3. QED
  BY <1>1, <1>2 DEF Passes, b

LEMMA BarePasses ==
  ASSUME NEW s \in Seq(Token), NEW multi, multi
  PROVE  Passes(parseBareJSON(s), s, multi)
<1> DEFINE n == Len(s)
           Fenced(k) == TokenCount(SubSeq(s, 1, k), {"g"}) % 2 = 1
           bare == {k \in DOMAIN s : s[k] \in {"J", "n"} /\ ~ Fenced(k)}
           rest == DOMAIN s \ bare
           found == Chosen(s, bare)
           calls == [k \in DOMAIN found |-> IF found[k] = "J" THEN "J" ELSE "N"]
           text == Chosen(s, rest)
<1>0. n \in Nat /\ DOMAIN s = 1 .. n
  OBVIOUS
<1>1. parseBareJSON(s) = Found(calls, text)
  BY DEF parseBareJSON
<1>2. \A k \in 1 .. n : k \in bare => s[k] \in {"J", "n"}
  OBVIOUS
<1>3. \A k \in 1 .. n : k \in rest <=> k \notin bare
  BY <1>0
<1> HIDE DEF bare, rest
<1>4. found \in Seq(Token) /\ ((\A k \in 1 .. n : k \notin bare) => found = <<>>)
  BY ChosenIs
<1>5. /\ text \in Seq(Token)
      /\ \A m \in 0 .. n : (\A k \in 1 .. m : k \in rest) => m <= Len(text) /\ \A k \in 1 .. m : text[k] = s[k]
      /\ (\A k \in 1 .. n : k \in rest) => text = s
  BY ChosenIs
<1> HIDE DEF found, text
<1>6. calls \in Seq(Token) /\ (found = <<>> => calls = <<>>)
  <2>1. "J" \in Token /\ "N" \in Token
    BY DEF Token
  <2>2. Len(found) \in Nat /\ DOMAIN found = 1 .. Len(found)
    BY <1>4
  <2>3. calls = [k \in 1 .. Len(found) |-> IF found[k] = "J" THEN "J" ELSE "N"]
    BY <2>2
  <2>4. QED
    BY <2>1, <2>2, <2>3
<1> HIDE DEF calls
<1>7. Found(calls, text) \in Finds /\ Found(calls, text).text = text
  BY <1>5, <1>6, FoundIs
<1>8. ASSUME NEW p \in Seq(Token), Extends(s, p), Plain(p, multi)
      PROVE  Extends(text, p)
  <2>1. Len(p) \in 0 .. n /\ \A k \in 1 .. Len(p) : s[k] = p[k] /\ k \in 1 .. n
    BY <1>0, <1>8 DEF Extends
  <2>2. \A k \in 1 .. Len(p) : s[k] \notin {"J", "n"}
    BY <1>8, <2>1 DEF Plain
  <2>3. \A k \in 1 .. Len(p) : k \in rest
    BY <1>2, <1>3, <2>1, <2>2
  <2>4. Len(p) <= Len(text) /\ \A k \in 1 .. Len(p) : text[k] = s[k]
    BY <1>5, <2>1, <2>3
  <2>5. QED
    BY <2>1, <2>4 DEF Extends
<1>9. ASSUME Plain(s, multi) PROVE calls = <<>> /\ text = s
  <2>1. \A k \in 1 .. n : s[k] \notin {"J", "n"}
    BY <1>9 DEF Plain
  <2>2. \A k \in 1 .. n : k \notin bare /\ k \in rest
    BY <1>2, <1>3, <2>1
  <2>3. QED
    BY <1>4, <1>5, <1>6, <2>2
<1>10. QED
  BY <1>1, <1>7, <1>8, <1>9 DEF Passes

\* A pass after another.
LEMMA PassesThen ==
  ASSUME NEW s \in Seq(Token), NEW multi, NEW a, Passes(a, s, multi), NEW b, Passes(b, a.text, multi)
  PROVE  Passes(Then(a, b), s, multi)
<1>1. /\ a.calls \in Seq(Token) /\ a.text \in Seq(Token) /\ b.calls \in Seq(Token) /\ b.text \in Seq(Token)
  BY DEF Passes, Finds
<1> DEFINE c == a.calls \o b.calls
<1>2. c \in Seq(Token)
  BY <1>1, ConcatProperties
<1>3. Then(a, b) = Found(c, b.text)
  BY DEF Then
<1> HIDE DEF c
<1>4. Found(c, b.text) \in Finds /\ Found(c, b.text).text = b.text
  BY <1>1, <1>2, FoundIs
<1>5. ASSUME NEW p \in Seq(Token), Extends(s, p), Plain(p, multi) PROVE Extends(b.text, p)
  BY <1>5 DEF Passes
<1>6. ASSUME Plain(s, multi) PROVE c = <<>> /\ b.text = s
  <2> DEFINE e == <<>>
  <2>1. a = Found(e, s) /\ e \in Seq(Token)
    BY <1>6 DEF Passes
  <2> HIDE DEF e
  <2>2. a.calls = e /\ a.text = s
    BY <2>1, FoundIs
  <2>3. b = Found(e, s)
    BY <1>6, <2>2 DEF Passes, e
  <2>4. b.calls = e /\ b.text = s
    BY <2>1, <2>3, FoundIs
  <2>5. <<>> \o <<>> = <<>>
    OBVIOUS
  <2>6. QED
    BY <2>2, <2>4, <2>5 DEF c, e
<1>7. QED
  BY <1>3, <1>4, <1>5, <1>6 DEF Passes

-----------------------------------------------------------------------------
\* The calls of a text and what the parser leaves of the text.
LEMMA SanitizeIs ==
  ASSUME NEW calls \in Seq(Token)
  PROVE  Sanitize(calls) \in Seq(Token) /\ (calls = <<>> => Sanitize(calls) = <<>>)
<1> DEFINE valid == FilterInvalid(calls)
           keep == {call \in ToSet(calls) : ValidateToolCall(call)}
           at == {k \in DOMAIN valid : ~ Contains(SubSeq(valid, 1, k - 1), valid[k])}
<1>1. valid = Only(calls, keep) /\ Sanitize(calls) = Chosen(valid, at)
  BY DEF FilterInvalid, Sanitize, FilterDuplicates
<1> HIDE DEF valid, keep, at
<1>2. valid \in Seq(Token) /\ (calls = <<>> => valid = <<>>)
  BY <1>1, OnlyKeeps, OnlyNothing
<1>3. Chosen(valid, at) \in Seq(Token) /\ ((\A k \in 1 .. Len(valid) : k \notin at) => Chosen(valid, at) = <<>>)
  BY <1>2, ChosenIs
<1>4. valid = <<>> => \A k \in 1 .. Len(valid) : k \notin at
  OBVIOUS
<1>5. QED
  BY <1>1, <1>2, <1>3, <1>4

LEMMA OrphansGo ==
  ASSUME NEW s \in Seq(Token), NEW multi
  PROVE  /\ stripOrphanToolCallBlocks(s) \in Seq(Token)
         /\ \A p \in Seq(Token) : Extends(s, p) /\ Plain(p, multi) => Extends(stripOrphanToolCallBlocks(s), p)
<1> DEFINE a == Blocks(s, "O", {"c"}, "orphan")
           b == Blocks(a.text, "O", {"fn", "fc"}, "orphan")
<1>1. Passes(a, s, multi)
  BY TagsPass
<1> HIDE DEF a
<1>2. a.text \in Seq(Token)
  BY <1>1 DEF Passes, Finds
<1>3. Passes(b, a.text, multi)
  BY <1>2, TagsPass
<1> HIDE DEF b
<1>4. b.text \in Seq(Token)
  BY <1>3 DEF Passes, Finds
<1>5. stripOrphanToolCallBlocks(s) = b.text
  BY DEF stripOrphanToolCallBlocks, a, b
<1>6. QED
  BY <1>1, <1>3, <1>4, <1>5 DEF Passes

\* The passes of ParseWithFormats, before the calls are cleaned.
Gone(toks, multi) ==
  ThenBare(ThenHybrid(ThenClaude(parseToolCallBlocks(closeUnclosedToolCallTags(toks)), multi)), multi)

LEMMA GoneIs ==
  ASSUME NEW toks \in Seq(Token), NEW multi
  PROVE  Passes(Gone(toks, multi), toks, multi)
<1> DEFINE s == closeUnclosedToolCallTags(toks)
           a == parseToolCallBlocks(s)
           b == ThenClaude(a, multi)
           c == ThenHybrid(b)
           d == ThenBare(c, multi)
<1>1. s \in Seq(Token) /\ Extends(s, toks) /\ ((\A k \in 1 .. Len(toks) : toks[k] # "O") => s = toks)
  BY ClosedIs
<1> HIDE DEF s
<1>2. Passes(a, s, multi)
  BY <1>1, TagsPass DEF parseToolCallBlocks
<1> HIDE DEF a
<1>3. a.text \in Seq(Token)
  BY <1>2 DEF Passes, Finds
<1>4. Passes(b, s, multi)
  <2>1. CASE multi
    <3>1. Passes(parseFunctionCallBlocks(a.text), a.text, multi)
      BY <1>3, <2>1, TagsPass DEF parseFunctionCallBlocks
    <3>2. b = Then(a, parseFunctionCallBlocks(a.text))
      BY <2>1 DEF ThenClaude
    <3>3. QED
      BY <1>1, <1>2, <3>1, <3>2, PassesThen
  <2>2. CASE ~ multi
    BY <1>2, <2>2 DEF ThenClaude
  <2>3. QED
    BY <2>1, <2>2
<1> HIDE DEF b
<1>5. b.text \in Seq(Token)
  BY <1>4 DEF Passes, Finds
<1>6. Passes(c, s, multi)
  <2>1. Passes(parseHybridToolCallBlocks(b.text), b.text, multi)
    BY <1>5, TagsPass DEF parseHybridToolCallBlocks
  <2>2. c = Then(b, parseHybridToolCallBlocks(b.text))
    BY DEF ThenHybrid
  <2>3. QED
    BY <1>1, <1>4, <2>1, <2>2, PassesThen
<1> HIDE DEF c
<1>7. c.text \in Seq(Token)
  BY <1>6 DEF Passes, Finds
<1>8. Passes(d, s, multi)
  <2>1. CASE multi
    <3>1. Passes(parseBareJSON(c.text), c.text, multi)
      BY <1>7, <2>1, BarePasses
    <3>2. d = Then(c, parseBareJSON(c.text))
      BY <2>1 DEF ThenBare
    <3>3. QED
      BY <1>1, <1>6, <3>1, <3>2, PassesThen
  <2>2. CASE ~ multi
    BY <1>6, <2>2 DEF ThenBare
  <2>3. QED
    BY <2>1, <2>2
<1>9. Gone(toks, multi) = d
  BY DEF Gone, s, a, b, c
<1> HIDE DEF d
<1>10. ASSUME NEW p \in Seq(Token), Extends(toks, p), Plain(p, multi) PROVE Extends(d.text, p)
  <2>1. Extends(s, p)
    BY <1>1, <1>10, ExtendsTrans
  <2>2. QED
    BY <1>8, <1>10, <2>1 DEF Passes
<1>11. ASSUME Plain(toks, multi) PROVE d = Found(<<>>, toks)
  <2>1. s = toks
    BY <1>1, <1>11 DEF Plain
  <2>2. QED
    BY <1>8, <1>11, <2>1 DEF Passes
<1>12. QED
  BY <1>8, <1>9, <1>10, <1>11 DEF Passes

\* A text parsed: its calls and its text are lists of tokens, a plain front of the text
\* stays at its front, and a plain text has no calls.
Cleaning(text, multi) == Spell(stripOrphanToolCallBlocks(Gone(Lex(text), multi).text))

LEMMA ParsedIs ==
  ASSUME NEW text \in Seq(Letter), NEW multi
  PROVE  /\ ParseWithFormats(text, multi).calls \in Seq(Token)
         /\ Cleaning(text, multi) \in Seq(Token)
         /\ ParseWithFormats(text, multi).text = TrimSpace(Cleaning(text, multi))
         /\ ParseWithFormats(text, multi).text \in Seq(Token)
         /\ \A p \in Seq(Token) : Extends(Lex(text), p) /\ Plain(p, multi) => Extends(Cleaning(text, multi), Spell(p))
         /\ Plain(Lex(text), multi) => ParseWithFormats(text, multi).calls = <<>>
<1> DEFINE toks == Lex(text)
           found == Gone(toks, multi)
           left == stripOrphanToolCallBlocks(found.text)
           y == Spell(left)
           calls == Sanitize(found.calls)
           trimmed == TrimSpace(y)
           parsed == ParseWithFormats(text, multi)
<1>1. toks \in Seq(Token)
  BY LexSpells
<1> HIDE DEF toks
<1>2. Passes(found, toks, multi)
  BY <1>1, GoneIs
<1>3. parsed = Found(calls, trimmed)
  BY DEF ParseWithFormats, Cleaned, Gone, toks
<1>4. Cleaning(text, multi) = y
  BY DEF Cleaning, toks
<1> HIDE DEF found, parsed
<1>5. found.calls \in Seq(Token) /\ found.text \in Seq(Token)
  BY <1>2 DEF Passes, Finds
<1>6. /\ left \in Seq(Token)
      /\ \A p \in Seq(Token) : Extends(found.text, p) /\ Plain(p, multi) => Extends(left, p)
  BY <1>5, OrphansGo
<1>7. calls \in Seq(Token) /\ (found.calls = <<>> => calls = <<>>)
  BY <1>5, SanitizeIs
<1> HIDE DEF left, calls
<1>8. y \in Seq(Token)
  BY <1>6, SpellIs
<1>9. ASSUME NEW p \in Seq(Token), Extends(toks, p), Plain(p, multi) PROVE Extends(y, Spell(p))
  <2>1. Extends(found.text, p)
    BY <1>2, <1>9 DEF Passes
  <2>2. Extends(left, p)
    BY <1>6, <1>9, <2>1
  <2> DEFINE m == Len(p)
             a == SubSeq(left, 1, m)
             b == SubSeq(left, m + 1, Len(left))
  <2>3. m \in 0 .. Len(left) /\ Len(left) \in Nat /\ \A k \in 1 .. m : left[k] = p[k]
    BY <1>6, <2>2 DEF Extends
  <2>4. a \in Seq(Token) /\ b \in Seq(Token) /\ left = a \o b
    <3>1. SubSeq(left, 1, Len(left)) = left
      BY <1>6, SubSeqFull
    <3>2. 1 \in 1 .. Len(left) + 1 /\ m \in 1 - 1 .. Len(left) /\ Len(left) \in m .. Len(left)
      BY <2>3
    <3>3. a \o b = SubSeq(left, 1, Len(left))
      BY <1>6, <3>2, ConcatAdjacentSubSeq
    <3>4. a \in Seq(Token) /\ b \in Seq(Token)
      BY <1>6, <2>3, PartIs
    <3>5. QED
      BY <3>1, <3>3, <3>4
  <2>5. a = p
    <3>1. Len(a) = m /\ \A k \in 1 .. m : a[k] = left[k]
      BY <1>6, <2>3
    <3> HIDE DEF a
    <3>2. QED
      BY <2>3, <2>4, <3>1, SeqEqual
  <2> HIDE DEF a, b
  <2>6. Spell(a \o b) = Spell(a) \o Spell(b) /\ Spell(a) \in Seq(Token) /\ Spell(b) \in Seq(Token)
    BY <2>4, SpellConcat, SpellIs
  <2> DEFINE u == Spell(a)
             v == Spell(b)
  <2>7. u \in Seq(Token) /\ v \in Seq(Token) /\ y = u \o v /\ u = Spell(p)
    BY <2>4, <2>5, <2>6
  <2> HIDE DEF u, v
  <2>8. Extends(u, u)
    BY <2>7 DEF Extends
  <2>9. Extends(u \o v, u)
    BY <2>7, <2>8, ExtendsMore
  <2>10. QED
    BY <2>7, <2>9
<1> HIDE DEF y
<1>10. trimmed \in Seq(Token)
  BY <1>8, SpaceTyped
<1>11. parsed.calls = calls /\ parsed.text = trimmed
  BY <1>3, <1>7, <1>10, FoundIs
<1>12. ASSUME Plain(toks, multi) PROVE calls = <<>>
  <2> DEFINE e == <<>>
  <2>1. found = Found(e, toks) /\ e \in Seq(Token)
    BY <1>2, <1>12 DEF Passes
  <2> HIDE DEF e
  <2>2. found.calls = e
    BY <1>1, <2>1, FoundIs
  <2>3. QED
    BY <1>7, <2>2 DEF e
<1>13. QED
  BY <1>4, <1>7, <1>8, <1>9, <1>10, <1>11, <1>12 DEF parsed, toks

-----------------------------------------------------------------------------
\* A reply as prompted for, whatever state it is read in.
Prompted(text, multi) ==
  /\ ~ Has(Lex(text), {"F", "i", "x", "h", "fn", "fc", "g"})
  /\ multi => ~ Has(parseToolCallBlocks(Lex(text)).text, {"J", "n"})
  /\ text # <<>> => Head(text) # "w"

LEMMA HasIs ==
  ASSUME NEW T, NEW s \in Seq(T), NEW tags
  PROVE  Has(s, tags) <=> \E k \in 1 .. Len(s) : s[k] \in tags
<1>1. DOMAIN s = 1 .. Len(s)
  OBVIOUS
<1>2. ToSet(s) = {s[k] : k \in 1 .. Len(s)}
  BY <1>1 DEF ToSet
<1>3. QED
  BY <1>2 DEF Has

\* A list up to its first element of a sort.
LEMMA UpToFirst ==
  ASSUME NEW T, NEW s \in Seq(T), NEW x
  PROVE  \E n \in 0 .. Len(s) : /\ \A k \in 1 .. n : s[k] # x
                                /\ n < Len(s) => s[n + 1] = x
<1> DEFINE at == {k \in 1 .. Len(s) : s[k] = x}
<1>0. Len(s) \in Nat
  OBVIOUS
<1>1. CASE at = {}
  <2>1. \A k \in 1 .. Len(s) : s[k] # x
    BY <1>1
  <2>2. Len(s) \in 0 .. Len(s)
    BY <1>0
  <2>3. QED
    BY <1>0, <2>1, <2>2
<1>2. CASE at # {}
  <2>1. at \in SUBSET Nat
    BY <1>0
  <2>2. PICK k \in at : \A m \in at : k <= m
    BY <1>2, <2>1, LeastIs
  <2>3. k \in 1 .. Len(s) /\ s[k] = x
    OBVIOUS
  <2>4. k - 1 \in 0 .. Len(s) /\ (k - 1) + 1 = k
    BY <1>0, <2>3
  <2>5. \A m \in 1 .. k - 1 : s[m] # x
    <3> TAKE m \in 1 .. k - 1
    <3>1. m \in 1 .. Len(s) /\ ~ (k <= m)
      BY <1>0, <2>3
    <3>2. QED
      BY <2>2, <3>1
  <2>6. QED
    BY <2>3, <2>4, <2>5
<1>3. QED
  BY <1>1, <1>2

\* Halves of a list.
LEMMA SplitAt ==
  ASSUME NEW T, NEW s \in Seq(T), NEW n \in 0 .. Len(s)
  PROVE  /\ SubSeq(s, 1, n) \in Seq(T) /\ Len(SubSeq(s, 1, n)) = n
         /\ \A k \in 1 .. n : SubSeq(s, 1, n)[k] = s[k]
         /\ SubSeq(s, n + 1, Len(s)) \in Seq(T)
         /\ Len(SubSeq(s, n + 1, Len(s))) = Len(s) - n
         /\ \A k \in 1 .. Len(s) - n : SubSeq(s, n + 1, Len(s))[k] = s[n + k]
         /\ SubSeq(s, 1, n) \o SubSeq(s, n + 1, Len(s)) = s
<1>0. Len(s) \in Nat /\ n \in Nat
  OBVIOUS
<1>1. SubSeq(s, 1, Len(s)) = s
  BY SubSeqFull
<1>2. 1 \in 1 .. Len(s) + 1 /\ n \in 1 - 1 .. Len(s) /\ Len(s) \in n .. Len(s)
  BY <1>0
<1>3. SubSeq(s, 1, n) \o SubSeq(s, n + 1, Len(s)) = SubSeq(s, 1, Len(s))
  BY <1>2, ConcatAdjacentSubSeq
<1>4. /\ SubSeq(s, 1, n) \in Seq(T) /\ Len(SubSeq(s, 1, n)) = n
      /\ \A k \in 1 .. n : SubSeq(s, 1, n)[k] = s[k]
  BY <1>0
<1>5. /\ SubSeq(s, n + 1, Len(s)) \in Seq(T)
      /\ Len(SubSeq(s, n + 1, Len(s))) = Len(s) - n
      /\ \A k \in 1 .. Len(s) - n : SubSeq(s, n + 1, Len(s))[k] = s[n + k]
  BY <1>0
<1>6. QED
  BY <1>1, <1>3, <1>4, <1>5

\* A list that begins with another is that one and what comes after.
LEMMA ExtendsSplit ==
  ASSUME NEW T, NEW s \in Seq(T), NEW p \in Seq(T), Extends(s, p)
  PROVE  /\ Len(p) \in 0 .. Len(s) /\ SubSeq(s, 1, Len(p)) = p
         /\ SubSeq(s, Len(p) + 1, Len(s)) \in Seq(T) /\ s = p \o SubSeq(s, Len(p) + 1, Len(s))
<1> DEFINE n == Len(p)
           a == SubSeq(s, 1, n)
<1>1. n \in 0 .. Len(s) /\ \A k \in 1 .. n : s[k] = p[k]
  BY DEF Extends
<1> HIDE DEF n
<1>2. /\ a \in Seq(T) /\ Len(a) = n /\ \A k \in 1 .. n : a[k] = s[k]
      /\ SubSeq(s, n + 1, Len(s)) \in Seq(T) /\ a \o SubSeq(s, n + 1, Len(s)) = s
  BY <1>1, SplitAt
<1> HIDE DEF a
<1>3. a = p
  <2>1. Len(a) = Len(p) /\ \A k \in 1 .. Len(a) : a[k] = p[k]
    BY <1>1, <1>2 DEF n
  <2>2. QED
    BY <1>2, <2>1, SeqEqual
<1>4. QED
  BY <1>1, <1>2, <1>3 DEF n, a

\* What a text says before its first marker is read as tokens that are no openers.
LEMMA BeforeMarker ==
  ASSUME NEW text \in Seq(Letter)
  PROVE  \E p \in Seq(Token) : /\ Extends(Lex(text), p) /\ \A k \in 1 .. Len(p) : p[k] # "O"
                               /\ Extends(text, Spell(p)) /\ ToolCallStart(text) <= Len(Spell(p))
<1> DEFINE toks == Lex(text)
<1>1. toks \in Seq(Token) /\ Spell(toks) = text
  BY LexSpells
<1> HIDE DEF toks
<1>2. PICK n \in 0 .. Len(toks) : /\ \A k \in 1 .. n : toks[k] # "O"
                                  /\ n < Len(toks) => toks[n + 1] = "O"
  BY <1>1, UpToFirst
<1> DEFINE p == SubSeq(toks, 1, n)
           q == SubSeq(toks, n + 1, Len(toks))
<1>3. /\ p \in Seq(Token) /\ Len(p) = n /\ \A k \in 1 .. n : p[k] = toks[k]
      /\ q \in Seq(Token) /\ Len(q) = Len(toks) - n
      /\ \A k \in 1 .. Len(toks) - n : q[k] = toks[n + k]
      /\ toks = p \o q
  BY <1>1, SplitAt
<1>4. Len(toks) \in Nat /\ n \in Nat
  BY <1>1
<1> HIDE DEF p, q
<1>5. ASSUME n < Len(toks) PROVE Len(q) >= 1 /\ q[1] = "O"
  <2>1. 1 \in 1 .. Len(toks) - n /\ Len(q) >= 1
    BY <1>3, <1>4, <1>5
  <2>2. q[1] = toks[n + 1]
    BY <1>3, <2>1
  <2>3. QED
    BY <1>2, <1>5, <2>1, <2>2
<1>6. n = Len(toks) => p = toks
  BY <1>1, SubSeqFull DEF p
<1> DEFINE u == Spell(p)
           v == Spell(q)
<1>7. u \in Seq(Token) /\ v \in Seq(Token) /\ text = u \o v
  <2>1. Spell(p \o q) = Spell(p) \o Spell(q)
    BY <1>3, SpellConcat
  <2>2. QED
    BY <1>1, <1>3, <2>1, SpellIs
<1>8. Extends(toks, p) /\ \A k \in 1 .. Len(p) : p[k] # "O"
  BY <1>2, <1>3, <1>4 DEF Extends
<1>9. Extends(text, u)
  <2> HIDE DEF u, v
  <2>1. Extends(u, u)
    BY <1>7 DEF Extends
  <2>2. QED
    BY <1>7, <2>1, ExtendsMore
<1>10. ToolCallStart(text) <= Len(u)
  <2>1. ToolCallStart(text) \in 0 .. Len(text) /\ Len(text) \in Nat
        /\ \A k \in 1 .. Len(text) - 1 : MarkAt(text, k) => ToolCallStart(text) < k
    BY StartIs
  <2>2. CASE n = Len(toks)
    <3>1. u = text
      BY <1>1, <1>6, <2>2
    <3> HIDE DEF u
    <3> DEFINE st == ToolCallStart(text)
    <3> HIDE DEF st
    <3>2. st <= Len(u)
      BY <2>1, <3>1 DEF st
    <3>3. QED
      BY <3>2 DEF st
  <2>3. CASE n # Len(toks)
    <3>0. n < Len(toks) /\ Len(q) \in Nat
      BY <1>3, <1>4, <2>3
    <3>1. Len(q) >= 1 /\ q[1] = "O" /\ Len(q) \in Nat
      BY <1>5, <3>0
    <3> DEFINE o == SubSeq(q, 1, 1)
               r == SubSeq(q, 2, Len(q))
               z == Spell(r)
               mark == <<"o1", "o2">>
    <3>2. o \in Seq(Token) /\ Len(o) = 1 /\ o[1] = "O" /\ r \in Seq(Token) /\ q = o \o r
      <4>1. 1 \in 0 .. Len(q) /\ 1 + 1 = 2
        BY <3>1
      <4>2. QED
        BY <1>3, <3>1, <4>1, SplitAt
    <3> DEFINE none == <<>>
               t == "O"
    <3>3. o = Append(none, t) /\ none \in Seq(Token) /\ t \in Token
      <4>1. o = <<o[1]>>
        <5> HIDE DEF o
        <5>1. QED
          BY <3>2
      <4>2. t \in Token
        BY DEF Token
      <4>3. QED
        BY <3>2, <4>1, <4>2
    <3> HIDE DEF o, r
    <3>4. Spell(o) = mark
      <4> HIDE DEF none, t
      <4>1. Spell(Append(none, t)) = Spell(none) \o Spelled(t)
        BY <3>3, SpellIs
      <4>2. Spelled(t) = mark
        BY SpelledIs DEF t
      <4>3. <<>> \o mark = mark
        OBVIOUS
      <4>4. Spell(none) = <<>>
        BY SpellNothing DEF none
      <4>5. QED
        BY <3>3, <4>1, <4>2, <4>3, <4>4
    <3>5. v = mark \o z /\ z \in Seq(Token)
      <4>1. Spell(o \o r) = Spell(o) \o Spell(r)
        BY <3>2, SpellConcat
      <4>2. QED
        BY <3>2, <3>4, <4>1, SpellIs
    <3> HIDE DEF z
    <3>6. v[1] = "o1" /\ v[2] = "o2" /\ Len(v) >= 2
      BY <3>5
    <3> HIDE DEF u, v
    <3>7. /\ Len(text) = Len(u) + Len(v) /\ Len(u) \in Nat /\ Len(v) \in Nat
          /\ \A k \in 1 .. Len(u) + Len(v) : text[k] = IF k <= Len(u) THEN u[k] ELSE v[k - Len(u)]
      BY <1>7, ConcatProperties
    <3> DEFINE k == Len(u) + 1
    <3>8. k \in 1 .. Len(text) - 1 /\ text[k] = v[1] /\ text[k + 1] = v[2]
      <4>1. k \in 1 .. Len(u) + Len(v) /\ k + 1 \in 1 .. Len(u) + Len(v) /\ ~ (k <= Len(u)) /\ ~ (k + 1 <= Len(u))
            /\ k - Len(u) = 1 /\ (k + 1) - Len(u) = 2
        BY <3>6, <3>7
      <4>2. QED
        BY <3>6, <3>7, <4>1
    <3>9. ToolCallStart(text) < k
      BY <2>1, <3>6, <3>8 DEF MarkAt
    <3> DEFINE st == ToolCallStart(text)
    <3>10. st \in Nat /\ st < Len(u) + 1
      BY <2>1, <3>9
    <3> HIDE DEF st
    <3>11. st <= Len(u)
      BY <3>7, <3>10
    <3>12. QED
      BY <3>11 DEF st
  <2>4. QED
    BY <2>2, <2>3
<1>11. QED
  BY <1>3, <1>8, <1>9, <1>10 DEF toks

\* The text sent before the first marker stays at the front of the cleaned one.
LEMMA FrontStays ==
  ASSUME NEW text \in Seq(Letter), NEW multi, Prompted(text, multi),
         NEW e \in 0 .. Len(text), e <= ToolCallStart(text)
  PROVE  /\ e <= Len(Cleaning(text, multi))
         /\ \A k \in 1 .. e : Cleaning(text, multi)[k] = text[k]
<1> DEFINE toks == Lex(text)
           tagged == parseToolCallBlocks(toks)
           y == Cleaning(text, multi)
<1>1. PICK p \in Seq(Token) : /\ Extends(toks, p) /\ \A k \in 1 .. Len(p) : p[k] # "O"
                              /\ Extends(text, Spell(p)) /\ ToolCallStart(text) <= Len(Spell(p))
  BY BeforeMarker
<1>2. /\ ~ Has(toks, {"F", "i", "x", "h", "fn", "fc", "g"})
      /\ multi => ~ Has(tagged.text, {"J", "n"})
  BY DEF Prompted
<1>3. toks \in Seq(Token) /\ text \in Seq(Token)
  BY LexSpells, LettersAreTokens
<1> HIDE DEF toks
<1>4. tagged \in Finds /\ Extends(tagged.text, p)
  BY <1>1, <1>3, BlocksAre DEF parseToolCallBlocks
<1> HIDE DEF tagged
<1>5. tagged.text \in Seq(Token)
  BY <1>4 DEF Finds
<1>6. \A k \in 1 .. Len(p) : p[k] # "F"
  <2> TAKE k \in 1 .. Len(p)
  <2>1. k \in 1 .. Len(toks) /\ toks[k] = p[k]
    BY <1>1, <1>3 DEF Extends
  <2>2. \A j \in 1 .. Len(toks) : toks[j] \notin {"F", "i", "x", "h", "fn", "fc", "g"}
    BY <1>2, <1>3, HasIs
  <2>3. QED
    BY <2>1, <2>2
<1>7. ASSUME multi PROVE \A k \in 1 .. Len(p) : p[k] # "J" /\ p[k] # "n"
  <2> TAKE k \in 1 .. Len(p)
  <2>1. k \in 1 .. Len(tagged.text) /\ tagged.text[k] = p[k]
    BY <1>4, <1>5 DEF Extends
  <2>2. \A j \in 1 .. Len(tagged.text) : tagged.text[j] \notin {"J", "n"}
    BY <1>2, <1>5, <1>7, HasIs
  <2>3. QED
    BY <2>1, <2>2
<1>8. Plain(p, multi)
  BY <1>1, <1>6, <1>7 DEF Plain
<1>9. y \in Seq(Token) /\ Extends(y, Spell(p))
  BY <1>1, <1>8, ParsedIs DEF toks
<1> HIDE DEF y
<1> DEFINE u == Spell(p)
<1>10. u \in Seq(Token) /\ Extends(y, u) /\ Extends(text, u)
  BY <1>1, <1>9, SpellIs
<1> DEFINE st == ToolCallStart(text)
<1>11. st \in Nat /\ e <= st /\ st <= Len(u)
  <2>1. ToolCallStart(text) \in 0 .. Len(text) /\ Len(text) \in Nat
    BY StartIs
  <2>2. QED
    BY <1>1, <2>1
<1> HIDE DEF st, u
<1>12. e \in Nat /\ Len(text) \in Nat /\ Len(u) \in Nat /\ Len(y) \in Nat
  BY <1>3, <1>9, <1>10
<1>13. e <= Len(u)
  BY <1>11, <1>12
<1>14. \A k \in 1 .. e : k \in 1 .. Len(u)
  BY <1>12, <1>13
<1>15. /\ Len(u) <= Len(y) /\ \A k \in 1 .. Len(u) : y[k] = u[k] /\ text[k] = u[k]
  BY <1>10 DEF Extends
<1>16. QED
  BY <1>12, <1>13, <1>14, <1>15 DEF y

\* White space off both ends of a text that begins with none is off its end.
LEMMA TrimFront ==
  ASSUME NEW T, NEW y \in Seq(T), Len(y) >= 1, y[1] # "w", NEW m, Ends(y, m)
  PROVE  1 <= m /\ TrimSpace(y) = SubSeq(y, 1, m)
<1>0. Len(y) \in Nat /\ m \in 0 .. Len(y) /\ (m = 0 \/ y[m] # "w") /\ \A k \in m + 1 .. Len(y) : y[k] = "w"
  BY DEF Ends
<1>1. m # 0
  <2>1. SUFFICES ASSUME m = 0 PROVE FALSE
    OBVIOUS
  <2>2. 1 \in m + 1 .. Len(y)
    BY <1>0, <2>1
  <2>3. QED
    BY <1>0, <2>2
<1> DEFINE a == SubSeq(y, 1, m)
           b == Reverse(a)
<1>2. TrimRight(y) = a
  BY TrimIs
<1>3. a \in Seq(T) /\ Len(a) = m /\ \A k \in 1 .. m : a[k] = y[k]
  BY <1>0, SplitAt
<1> HIDE DEF a
<1>4. m \in Nat /\ 1 <= m /\ a[1] # "w"
  BY <1>0, <1>1, <1>3
<1>5. b \in Seq(T) /\ Len(b) = m /\ \A k \in 1 .. m : b[k] = a[(m - k) + 1]
  <2>1. \A k \in 1 .. m : a[(m - k) + 1] \in T
    BY <1>3, <1>4
  <2>2. b = [k \in 1 .. m |-> a[(m - k) + 1]]
    BY <1>3 DEF Reverse
  <2> HIDE DEF b
  <2>3. QED
    BY <1>4, <2>1, <2>2
<1> HIDE DEF b
<1>6. Ends(b, m)
  <2>1. b[m] = a[1]
    <3>1. m \in 1 .. m /\ (m - m) + 1 = 1
      BY <1>4
    <3>2. QED
      BY <1>5, <3>1
  <2>2. \A k \in m + 1 .. Len(b) : b[k] = "w"
    BY <1>4, <1>5
  <2>3. QED
    BY <1>4, <1>5, <2>1, <2>2 DEF Ends
<1>7. TrimRight(b) = b
  <2>1. TrimRight(b) = SubSeq(b, 1, m)
    BY <1>5, <1>6, TrimIs
  <2>2. SubSeq(b, 1, Len(b)) = b
    BY <1>5, SubSeqFull
  <2>3. QED
    BY <1>5, <2>1, <2>2
<1>8. Reverse(b) = a
  <2> DEFINE c == Reverse(b)
  <2>1. c = [k \in 1 .. m |-> b[(m - k) + 1]]
    BY <1>5 DEF Reverse
  <2> HIDE DEF c
  <2>2. \A k \in 1 .. m : (m - k) + 1 \in 1 .. m /\ (m - ((m - k) + 1)) + 1 = k
    BY <1>4
  <2>3. \A k \in 1 .. m : b[(m - k) + 1] = a[k]
    BY <1>5, <2>2
  <2>4. c \in Seq(T) /\ Len(c) = m /\ \A k \in 1 .. m : c[k] = a[k]
    BY <1>3, <1>4, <2>1, <2>3
  <2>5. c = a
    BY <1>3, <2>4, SeqEqual
  <2>6. QED
    BY <2>5 DEF c
<1>9. QED
  BY <1>2, <1>4, <1>7, <1>8 DEF TrimSpace, a, b

-----------------------------------------------------------------------------
\* What a client makes of its events, event by event.
Kinds == {"thinking", "text", "tool_use", "reasoning", "message", "function_call"}
Event == [type : {"start", "delta", "stop"}, idx : Nat, kind : Kinds, data : Seq(Token)]

LEMMA EventIs ==
  ASSUME NEW type \in {"start", "delta", "stop"}, NEW idx \in Nat, NEW kind \in Kinds,
         NEW data \in Seq(Token)
  PROVE  /\ ItemEvent(type, idx, kind, data) \in Event
         /\ BlockEvent(type, idx, kind, data) = ItemEvent(type, idx, kind, data)
         /\ ItemEvent(type, idx, kind, data).type = type /\ ItemEvent(type, idx, kind, data).idx = idx
         /\ ItemEvent(type, idx, kind, data).kind = kind /\ ItemEvent(type, idx, kind, data).data = data
BY DEF ItemEvent, BlockEvent, Event

Views == [open : Int, next : Nat, bad : BOOLEAN]
View(open, next) == [open |-> open, next |-> next, bad |-> FALSE]
ViewRound == [e \in Event |-> [v \in Views |-> See(v, e)]]

LEMMA SeeIs ==
  ASSUME NEW v \in Views, NEW e \in Event
  PROVE  See(v, e) \in Views
<1> DEFINE a == v.bad \/ v.open # -1 \/ e.idx # v.next
           b == v.bad \/ v.open # e.idx
<1>1. v.open \in Int /\ v.next \in Nat /\ v.bad \in BOOLEAN /\ e.idx \in Int
  BY DEF Views, Event
<1>2. a \in BOOLEAN /\ b \in BOOLEAN
  BY <1>1
<1>3. See(v, e) = CASE e.type = "start" -> [v EXCEPT !.open = e.idx, !.next = @ + 1, !.bad = a]
                    [] e.type = "delta" -> [v EXCEPT !.bad = b]
                    [] OTHER -> [v EXCEPT !.open = -1, !.bad = b]
  BY DEF See
<1> HIDE DEF a, b
<1>4. v.next + 1 \in Nat /\ -1 \in Int
  BY <1>1
<1>5. [v EXCEPT !.open = e.idx, !.next = v.next + 1, !.bad = a] \in Views
  BY <1>1, <1>2, <1>4 DEF Views
<1>6. [v EXCEPT !.bad = b] \in Views
  BY <1>2 DEF Views
<1>7. [v EXCEPT !.open = -1, !.bad = b] \in Views
  BY <1>2, <1>4 DEF Views
<1>8. QED
  BY <1>3, <1>5, <1>6, <1>7

LEMMA ViewIs ==
  ASSUME NEW n \in Nat, NEW k \in Nat
  PROVE  /\ View(-1, n) \in Views /\ View(k, n) \in Views
         /\ View(k, n).open = k /\ View(-1, n).open = -1 /\ View(-1, n).bad = FALSE /\ View(k, n).bad = FALSE
BY DEF View, Views

LEMMA SeeEvents ==
  ASSUME NEW n \in Nat, NEW k \in Nat, NEW e, e.idx = n
  PROVE  /\ e.type = "start" => See(View(-1, n), e) = View(n, n + 1)
         /\ e.type = "delta" => See(View(n, k), e) = View(n, k)
         /\ e.type = "stop" => See(View(n, k), e) = View(-1, k)
BY DEF See, View

LEMMA ViewRoundIs ==
  /\ View(-1, 0) \in Views /\ ViewRound \in [Event -> [Views -> Views]]
  /\ \A e \in Event : \A v \in Views : ViewRound[e][v] = See(v, e)
<1>1. \A e \in Event : \A v \in Views : See(v, e) \in Views
  BY SeeIs
<1>2. View(-1, 0) \in Views
  BY DEF View, Views
<1>3. QED
  BY <1>1, <1>2 DEF ViewRound

LEMMA ViewedRolls ==
  ASSUME NEW s \in Seq(Event)
  PROVE  \E f : Rolls(f, s, ViewRound, View(-1, 0), Views) /\ Viewed(s) = f[Len(s)]
<1> DEFINE n == Len(s)
           b == View(-1, 0)
           Loop(f) == [i \in 0 .. n |-> IF i = 0 THEN [open |-> -1, next |-> 0, bad |-> FALSE]
                                        ELSE See(f[i - 1], s[i])]
           seen == CHOOSE f : f = Loop(f)
<1>1. Viewed(s) = seen[n]
  BY DEF Viewed
<1>2. n \in Nat /\ \A i \in 1 .. n : s[i] \in Event
  OBVIOUS
<1>3. b \in Views /\ ViewRound \in [Event -> [Views -> Views]]
  BY ViewRoundIs
<1>b. b = [open |-> -1, next |-> 0, bad |-> FALSE]
  BY DEF View
<1> HIDE DEF b
<1>4. PICK f : Rolls(f, s, ViewRound, b, Views)
  BY <1>3, RollRuns
<1>5. \A i \in 1 .. n : f[i] = See(f[i - 1], s[i])
  <2> TAKE i \in 1 .. n
  <2>1. i - 1 \in 0 .. n
    BY <1>2
  <2>2. f[i - 1] \in Views /\ f[i] = ViewRound[s[i]][f[i - 1]]
    BY <1>4, <2>1 DEF Rolls
  <2>3. QED
    BY <1>2, <2>2, ViewRoundIs
<1>6. \A i \in 0 .. n : i # 0 => i \in 1 .. n
  BY <1>2
<1>7. f = Loop(f)
  BY <1>4, <1>5, <1>6, <1>b DEF Rolls
<1>8. seen = Loop(seen)
  BY <1>7
<1> HIDE DEF seen
<1>9. seen = [i \in 0 .. n |-> seen[i]] /\ seen[0] = b
  BY <1>2, <1>8, <1>b
<1>10. ASSUME NEW i \in 1 .. n, seen[i - 1] \in Views
       PROVE seen[i] = ViewRound[s[i]][seen[i - 1]]
  <2>1. i \in 0 .. n /\ i # 0
    BY <1>2
  <2>2. seen[i] = See(seen[i - 1], s[i])
    BY <1>8, <2>1
  <2>3. QED
    BY <1>2, <1>10, <2>2, ViewRoundIs
<1>11. Rolls(seen, s, ViewRound, b, Views)
  BY <1>3, <1>9, <1>10, RollTyped
<1>12. QED
  BY <1>1, <1>11 DEF b

LEMMA ViewedIs ==
  ASSUME NEW s \in Seq(Event)
  PROVE  \A e \in Event : Viewed(Append(s, e)) = See(Viewed(s), e)
<1> DEFINE b == View(-1, 0)
<1>1. b \in Views /\ ViewRound \in [Event -> [Views -> Views]]
  BY ViewRoundIs
<1>2. \A r \in Seq(Event) : \E f : Rolls(f, r, ViewRound, b, Views) /\ Viewed(r) = f[Len(r)]
  BY ViewedRolls
<1>3. PICK f : Rolls(f, s, ViewRound, b, Views) /\ Viewed(s) = f[Len(s)]
  BY <1>2
<1>4. Viewed(s) \in Views
  <2>1. Len(s) \in 0 .. Len(s)
    OBVIOUS
  <2>2. QED
    BY <1>3, <2>1 DEF Rolls
<1>5. ASSUME NEW e \in Event PROVE Viewed(Append(s, e)) = See(Viewed(s), e)
  <2>1. Append(s, e) \in Seq(Event) /\ Len(Append(s, e)) = Len(s) + 1
    OBVIOUS
  <2>2. PICK g : Rolls(g, Append(s, e), ViewRound, b, Views) /\ Viewed(Append(s, e)) = g[Len(Append(s, e))]
    BY <1>2, <2>1
  <2>3. g[Len(s) + 1] = ViewRound[e][f[Len(s)]]
    <3> HIDE DEF b
    <3>1. QED
      BY <1>1, <1>3, <2>2, RollMore, SMTT(30)
  <2>4. QED
    BY <1>3, <1>4, <2>1, <2>2, <2>3, ViewRoundIs
<1>6. QED
  BY <1>5

LEMMA ViewedNothing == Viewed(<<>>) = View(-1, 0)
<1> DEFINE s == <<>>
<1>1. s \in Seq(Event) /\ Len(s) = 0
  OBVIOUS
<1> HIDE DEF s
<1>2. PICK f : Rolls(f, s, ViewRound, View(-1, 0), Views) /\ Viewed(s) = f[Len(s)]
  BY <1>1, ViewedRolls
<1>3. QED
  BY <1>1, <1>2 DEF Rolls, s

\* The data of the deltas of one kind.
DataOf(e, kind) == IF e.type = "delta" /\ e.kind = kind THEN e.data ELSE <<>>

LEMMA DataIs ==
  ASSUME NEW out \in Seq(Event), NEW kind
  PROVE  /\ Data(out, kind) \in Seq(Token)
         /\ \A e \in Event : Data(Append(out, e), kind) = Data(out, kind) \o DataOf(e, kind)
<1> DEFINE All(s) == [k \in DOMAIN s |-> DataOf(s[k], kind)]
<1>1. \A s \in Seq(Event) : Data(s, kind) = FlattenSeq(All(s))
  BY DEF Data, DataOf
<1>2. \A e \in Event : DataOf(e, kind) \in Seq(Token)
  BY DEF DataOf, Event
<1>3. ASSUME NEW s \in Seq(Event)
      PROVE  /\ All(s) \in Seq(Seq(Token)) /\ Len(All(s)) = Len(s)
             /\ \A k \in 1 .. Len(s) : All(s)[k] = DataOf(s[k], kind)
  <2>1. Len(s) \in Nat /\ DOMAIN s = 1 .. Len(s) /\ \A k \in 1 .. Len(s) : s[k] \in Event
    OBVIOUS
  <2>2. \A k \in 1 .. Len(s) : DataOf(s[k], kind) \in Seq(Token)
    BY <1>2, <2>1
  <2>3. All(s) = [k \in 1 .. Len(s) |-> DataOf(s[k], kind)]
    BY <2>1
  <2>4. QED
    BY <2>1, <2>2, <2>3
<1> HIDE DEF All
<1>4. Data(out, kind) \in Seq(Token)
  BY <1>1, <1>3, FlattenIs
<1>5. ASSUME NEW e \in Event PROVE Data(Append(out, e), kind) = Data(out, kind) \o DataOf(e, kind)
  <2> DEFINE s == Append(out, e)
             d == DataOf(e, kind)
             v == All(out)
             u == Append(v, d)
  <2>1. s \in Seq(Event) /\ Len(s) = Len(out) + 1 /\ s[Len(out) + 1] = e /\ \A k \in 1 .. Len(out) : s[k] = out[k]
    OBVIOUS
  <2>2. d \in Seq(Token) /\ v \in Seq(Seq(Token)) /\ Len(v) = Len(out)
        /\ \A k \in 1 .. Len(out) : v[k] = DataOf(out[k], kind)
    BY <1>2, <1>3
  <2> HIDE DEF v, s
  <2>3. /\ All(s) \in Seq(Seq(Token)) /\ Len(All(s)) = Len(out) + 1
        /\ \A k \in 1 .. Len(out) + 1 : All(s)[k] = DataOf(s[k], kind)
    BY <1>3, <2>1
  <2>d. DataOf(s[Len(out) + 1], kind) = d
    BY <2>1
  <2> HIDE DEF d
  <2>4. u \in Seq(Seq(Token)) /\ Len(u) = Len(out) + 1 /\ u[Len(out) + 1] = d
        /\ \A k \in 1 .. Len(out) : u[k] = v[k]
    BY <2>2
  <2> HIDE DEF u
  <2>5. ASSUME NEW k \in 1 .. Len(out) + 1 PROVE All(s)[k] = u[k]
    <3>1. k \in 1 .. Len(out) \/ k = Len(out) + 1
      OBVIOUS
    <3>2. CASE k \in 1 .. Len(out)
      BY <2>1, <2>2, <2>3, <2>4, <3>2
    <3>3. CASE k = Len(out) + 1
      BY <2>3, <2>4, <2>d, <3>3
    <3>4. QED
      BY <3>1, <3>2, <3>3
  <2>6. All(s) = u
    BY <2>3, <2>4, <2>5, SeqEqual
  <2>7. FlattenSeq(u) = FlattenSeq(v) \o d
    BY <2>2, FlattenIs DEF u
  <2>8. QED
    BY <1>1, <2>1, <2>6, <2>7 DEF s, v, d
<1>6. QED
  BY <1>4, <1>5

LEMMA DataNothing ==
  ASSUME NEW kind
  PROVE  Data(<<>>, kind) = <<>>
<1>1. DOMAIN <<>> = {}
  OBVIOUS
<1>2. [k \in DOMAIN <<>> |-> IF <<>>[k].type = "delta" /\ <<>>[k].kind = kind THEN <<>>[k].data ELSE <<>>] = <<>>
  BY <1>1
<1>3. QED
  BY <1>2, FlattenNothing DEF Data

-----------------------------------------------------------------------------
\* What a client was sent so far, and the view of it once more was sent.
Turns(out, v, more, w) == more \in Seq(Event) /\ (Viewed(out) = v => Viewed(more) = w)

Quiet(out, more) == \A k : Data(more, k) = Data(out, k)

Gains(out, more, kind, data) ==
  \A k : Data(more, k) = IF k = kind THEN Data(out, k) \o data ELSE Data(out, k)

LEMMA ToldMore ==
  ASSUME NEW out \in Seq(Event), NEW e \in Event
  PROVE  /\ out \o <<e>> \in Seq(Event) /\ Viewed(out \o <<e>>) = See(Viewed(out), e)
         /\ \A kind : Data(out \o <<e>>, kind) = Data(out, kind) \o DataOf(e, kind)
         /\ \A kind : Data(out, kind) \in Seq(Token)
<1>1. out \o <<e>> = Append(out, e) /\ Append(out, e) \in Seq(Event)
  BY AppendIsConcat
<1>2. QED
  BY <1>1, ViewedIs, DataIs

LEMMA Opens ==
  ASSUME NEW n \in Nat, NEW out \in Seq(Event), NEW kind \in Kinds,
         NEW more, more = out \o <<ItemEvent("start", n, kind, <<>>)>>
  PROVE  Turns(out, View(-1, n), more, View(n, n + 1)) /\ Quiet(out, more)
<1> DEFINE e == ItemEvent("start", n, kind, <<>>)
<1>1. e \in Event /\ e.type = "start" /\ e.idx = n
  <2> DEFINE d == <<>>
  <2>1. d \in Seq(Token)
    OBVIOUS
  <2> HIDE DEF d
  <2>2. /\ ItemEvent("start", n, kind, d) \in Event /\ ItemEvent("start", n, kind, d).type = "start"
        /\ ItemEvent("start", n, kind, d).idx = n
    BY <2>1, EventIs
  <2>3. QED
    BY <2>2 DEF d
<1>m. more = out \o <<e>>
  OBVIOUS
<1> HIDE DEF e
<1>2. /\ more \in Seq(Event) /\ Viewed(more) = See(Viewed(out), e)
      /\ \A k : Data(more, k) = Data(out, k) \o DataOf(e, k)
      /\ \A k : Data(out, k) \in Seq(Token)
  BY <1>1, <1>m, ToldMore
<1>3. See(View(-1, n), e) = View(n, n + 1)
  BY <1>1, SeeEvents
<1>4. \A k : DataOf(e, k) = <<>>
  BY <1>1 DEF DataOf
<1>5. \A s \in Seq(Token) : s \o <<>> = s
  BY ConcatEmptySeq
<1>6. Quiet(out, more)
  <2>1. ASSUME NEW k PROVE Data(more, k) = Data(out, k)
    <3>1. Data(more, k) = Data(out, k) \o DataOf(e, k) /\ Data(out, k) \in Seq(Token)
      BY <1>2
    <3>2. DataOf(e, k) = <<>>
      BY <1>4
    <3>3. Data(out, k) \o <<>> = Data(out, k)
      BY <1>5, <3>1
    <3>4. QED
      BY <3>1, <3>2, <3>3
  <2>2. QED
    BY <2>1 DEF Quiet
<1>7. QED
  BY <1>2, <1>3, <1>6 DEF Turns

LEMMA Closes ==
  ASSUME NEW n \in Nat, NEW next \in Nat, NEW out \in Seq(Event), NEW kind \in Kinds,
         NEW more, more = out \o <<ItemEvent("stop", n, kind, <<>>)>>
  PROVE  Turns(out, View(n, next), more, View(-1, next)) /\ Quiet(out, more)
<1> DEFINE e == ItemEvent("stop", n, kind, <<>>)
<1>1. e \in Event /\ e.type = "stop" /\ e.idx = n
  <2> DEFINE d == <<>>
  <2>1. d \in Seq(Token)
    OBVIOUS
  <2> HIDE DEF d
  <2>2. /\ ItemEvent("stop", n, kind, d) \in Event /\ ItemEvent("stop", n, kind, d).type = "stop"
        /\ ItemEvent("stop", n, kind, d).idx = n
    BY <2>1, EventIs
  <2>3. QED
    BY <2>2 DEF d
<1>m. more = out \o <<e>>
  OBVIOUS
<1> HIDE DEF e
<1>2. /\ more \in Seq(Event) /\ Viewed(more) = See(Viewed(out), e)
      /\ \A k : Data(more, k) = Data(out, k) \o DataOf(e, k)
      /\ \A k : Data(out, k) \in Seq(Token)
  BY <1>1, <1>m, ToldMore
<1>3. See(View(n, next), e) = View(-1, next)
  BY <1>1, SeeEvents
<1>4. \A k : DataOf(e, k) = <<>>
  BY <1>1 DEF DataOf
<1>5. \A s \in Seq(Token) : s \o <<>> = s
  BY ConcatEmptySeq
<1>6. Quiet(out, more)
  <2>1. ASSUME NEW k PROVE Data(more, k) = Data(out, k)
    <3>1. Data(more, k) = Data(out, k) \o DataOf(e, k) /\ Data(out, k) \in Seq(Token)
      BY <1>2
    <3>2. DataOf(e, k) = <<>>
      BY <1>4
    <3>3. Data(out, k) \o <<>> = Data(out, k)
      BY <1>5, <3>1
    <3>4. QED
      BY <3>1, <3>2, <3>3
  <2>2. QED
    BY <2>1 DEF Quiet
<1>7. QED
  BY <1>2, <1>3, <1>6 DEF Turns

LEMMA Fills ==
  ASSUME NEW n \in Nat, NEW next \in Nat, NEW out \in Seq(Event), NEW kind \in Kinds,
         NEW data \in Seq(Token), NEW more, more = out \o <<ItemEvent("delta", n, kind, data)>>
  PROVE  Turns(out, View(n, next), more, View(n, next)) /\ Gains(out, more, kind, data)
<1> DEFINE e == ItemEvent("delta", n, kind, data)
<1>1. e \in Event /\ e.type = "delta" /\ e.idx = n /\ e.kind = kind /\ e.data = data
  BY EventIs
<1>m. more = out \o <<e>>
  OBVIOUS
<1> HIDE DEF e
<1>2. /\ more \in Seq(Event) /\ Viewed(more) = See(Viewed(out), e)
      /\ \A k : Data(more, k) = Data(out, k) \o DataOf(e, k)
      /\ \A k : Data(out, k) \in Seq(Token)
  BY <1>1, <1>m, ToldMore
<1>3. See(View(n, next), e) = View(n, next)
  BY <1>1, SeeEvents
<1>4. DataOf(e, kind) = data /\ \A k : k # kind => DataOf(e, k) = <<>>
  BY <1>1 DEF DataOf
<1>5. ASSUME NEW k, k # kind PROVE Data(more, k) = Data(out, k)
  <2>1. Data(more, k) = Data(out, k) \o DataOf(e, k) /\ Data(out, k) \in Seq(Token)
    BY <1>2
  <2>2. DataOf(e, k) = <<>>
    BY <1>4, <1>5
  <2>3. Data(out, k) \o <<>> = Data(out, k)
    BY <2>1, ConcatEmptySeq
  <2>4. QED
    BY <2>1, <2>2, <2>3
<1>6. QED
  BY <1>2, <1>3, <1>4, <1>5 DEF Turns, Gains

\* A block of its own for one piece of data.
LEMMA OneBlock ==
  ASSUME NEW n \in Nat, NEW out \in Seq(Event), NEW kind \in Kinds, NEW data \in Seq(Token),
         NEW more, more = out \o <<ItemEvent("start", n, kind, <<>>), ItemEvent("delta", n, kind, data),
                                   ItemEvent("stop", n, kind, <<>>)>>
  PROVE  Turns(out, View(-1, n), more, View(-1, n + 1)) /\ Gains(out, more, kind, data)
<1> DEFINE e1 == ItemEvent("start", n, kind, <<>>)
           e2 == ItemEvent("delta", n, kind, data)
           e3 == ItemEvent("stop", n, kind, <<>>)
           a == out \o <<e1>>
           b == a \o <<e2>>
           c == b \o <<e3>>
<1>0. <<>> \in Seq(Token)
  OBVIOUS
<1>1. e1 \in Event /\ e2 \in Event /\ e3 \in Event
  BY <1>0, EventIs
<1>2. more = out \o <<e1, e2, e3>>
  OBVIOUS
<1>3. Turns(out, View(-1, n), a, View(n, n + 1)) /\ Quiet(out, a)
  BY Opens
<1>4. n + 1 \in Nat
  OBVIOUS
<1>b. b = a \o <<ItemEvent("delta", n, kind, data)>>
  OBVIOUS
<1> DEFINE next == n + 1
<1> HIDE DEF a, b, e1, e2, e3, next
<1>a. a \in Seq(Event) /\ next \in Nat
  BY <1>3, <1>4 DEF next, Turns
<1>5. Turns(a, View(n, next), b, View(n, next)) /\ Gains(a, b, kind, data)
  BY <1>a, <1>b, Fills
<1>c. c = b \o <<ItemEvent("stop", n, kind, <<>>)>>
  BY DEF e3
<1> HIDE DEF c
<1>6. Turns(b, View(n, next), c, View(-1, next)) /\ Quiet(b, c)
  <2>1. b \in Seq(Event)
    BY <1>5 DEF Turns
  <2>2. QED
    BY <1>a, <1>c, <2>1, Closes
<1>7. more = c
  <2>1. /\ a = Append(out, e1) /\ a \in Seq(Event)
    BY <1>0, <1>1, AppendIsConcat DEF a
  <2>2. /\ b = Append(a, e2) /\ b \in Seq(Event)
    BY <1>1, <2>1, AppendIsConcat DEF b
  <2>3. /\ c = Append(b, e3) /\ c \in Seq(Event)
    BY <1>1, <2>2, AppendIsConcat DEF c
  <2>4. out \o <<e1, e2, e3>> = Append(Append(Append(out, e1), e2), e3)
    BY <1>0, <1>1
  <2>5. QED
    BY <1>2, <2>1, <2>2, <2>3, <2>4
<1>8. QED
  BY <1>3, <1>5, <1>6, <1>7 DEF Quiet, Gains, Turns, next

LEMMA FlattenMore ==
  ASSUME NEW T, NEW a \in Seq(T), NEW ss \in Seq(Seq(T)), NEW s \in Seq(T)
  PROVE  a \o FlattenSeq(Append(ss, s)) = (a \o FlattenSeq(ss)) \o s
<1> DEFINE g == FlattenSeq(ss)
<1>1. g \in Seq(T) /\ FlattenSeq(Append(ss, s)) = g \o s
  BY FlattenIs
<1> HIDE DEF g
<1>2. g \in Seq(T)
  BY <1>1
<1>3. (a \o g) \o s = a \o (g \o s)
  BY <1>2, Associates, SMTT(60)
<1>4. QED
  BY <1>1, <1>3, Zenon DEF g

\* The calls of a reply, a block each.
CallBlock(call, n, kind) ==
  <<ItemEvent("start", n, kind, <<>>), ItemEvent("delta", n, kind, <<call>>), ItemEvent("stop", n, kind, <<>>)>>

CallBlocks(calls, from, kind) ==
  FlattenSeq([k \in DOMAIN calls |-> CallBlock(calls[k], from + k - 1, kind)])

LEMMA CallsFollow ==
  ASSUME NEW from \in Nat, NEW out \in Seq(Event), NEW kind \in Kinds, NEW calls \in Seq(Token),
         NEW more, more = out \o CallBlocks(calls, from, kind)
  PROVE  Turns(out, View(-1, from), more, View(-1, from + Len(calls))) /\ Gains(out, more, kind, calls)
<1> DEFINE n == Len(calls)
           items == [k \in DOMAIN calls |-> CallBlock(calls[k], from + k - 1, kind)]
           first(j) == SubSeq(items, 1, j)
           sent(j) == out \o FlattenSeq(first(j))
           told(j) == SubSeq(calls, 1, j)
           Good(j) == /\ Turns(out, View(-1, from), sent(j), View(-1, from + j))
                      /\ Data(sent(j), kind) = Data(out, kind) \o told(j)
                      /\ \A other : other # kind => Data(sent(j), other) = Data(out, other)
           P == {j \in 0 .. n : Good(j)}
<1>0. n \in Nat /\ DOMAIN calls = 1 .. n /\ (\A k \in 1 .. n : calls[k] \in Token) /\ n \in 0 .. n
  OBVIOUS
<1>1. \A k \in 1 .. n : CallBlock(calls[k], from + k - 1, kind) \in Seq(Event)
  <2> TAKE k \in 1 .. n
  <2>1. from + k - 1 \in Nat /\ <<>> \in Seq(Token) /\ <<calls[k]>> \in Seq(Token)
    BY <1>0
  <2> DEFINE i == from + k - 1
             d == <<calls[k]>>
  <2> HIDE DEF i, d
  <2>2. ItemEvent("start", i, kind, <<>>) \in Event /\ ItemEvent("delta", i, kind, d) \in Event
        /\ ItemEvent("stop", i, kind, <<>>) \in Event
    BY <2>1, EventIs DEF i, d
  <2>3. CallBlock(calls[k], i, kind) \in Seq(Event)
    BY <2>2 DEF CallBlock, d
  <2>4. QED
    BY <2>3 DEF i
<1>2. /\ items \in Seq(Seq(Event)) /\ Len(items) = n
      /\ \A k \in 1 .. n : items[k] = CallBlock(calls[k], from + k - 1, kind)
  <2>1. items = [k \in 1 .. n |-> CallBlock(calls[k], from + k - 1, kind)]
    BY <1>0
  <2>2. QED
    BY <1>0, <1>1, <2>1
<1>m. more = out \o FlattenSeq(items)
  BY DEF CallBlocks
<1> HIDE DEF items
<1>o. out \in Seq(Event) /\ \A k : Data(out, k) \in Seq(Token)
  BY DataIs
<1>3. 0 \in P
  <2>1. first(0) = <<>> /\ told(0) = <<>>
    BY <1>0, <1>2
  <2>2. sent(0) = out
    BY <1>o, <2>1, FlattenNothing, ConcatEmptySeq
  <2>3. Data(out, kind) \o told(0) = Data(out, kind)
    BY <1>o, <2>1, ConcatEmptySeq
  <2>4. from + 0 = from
    OBVIOUS
  <2> HIDE DEF sent, told
  <2>5. Good(0)
    BY <2>2, <2>3, <2>4 DEF Turns
  <2>6. QED
    BY <1>0, <2>5
<1>4. ASSUME NEW j \in 1 .. n, j - 1 \in P PROVE j \in P
  <2>1. j \in Nat /\ j - 1 \in 0 .. n /\ j \in 0 .. n /\ calls[j] \in Token /\ from + (j - 1) \in Nat
        /\ from + j - 1 = from + (j - 1) /\ from + (j - 1) + 1 = from + j
    BY <1>0
  <2> DEFINE f == first(j - 1)
             block == CallBlock(calls[j], from + j - 1, kind)
             a == sent(j - 1)
             b == sent(j)
  <2>2. f \in Seq(Seq(Event)) /\ first(j) = Append(f, block) /\ block \in Seq(Event)
    <3>1. 1 \in 1 .. j /\ j \in 1 .. Len(items) /\ items[j] = block
      BY <1>2, <2>1
    <3>2. first(j) = first(j - 1) \o <<items[j]>>
      BY <1>2, <2>1, <3>1, SubSeqRecursiveSecond
    <3>3. \A i \in 1 .. j - 1 : items[i] \in Seq(Event)
      BY <1>0, <1>1, <1>2, <2>1
    <3>4. 1 \in Int /\ j - 1 \in Int
      BY <2>1
    <3>5. f \in Seq(Seq(Event))
      BY <3>3, <3>4, SubSeqProperties
    <3>6. block \in Seq(Event)
      BY <1>1
    <3> HIDE DEF f, block, first
    <3>7. f \o <<block>> = Append(f, block)
      BY <3>5, <3>6, AppendIsConcat
    <3>8. QED
      BY <3>1, <3>2, <3>5, <3>6, <3>7 DEF f
  <2>3. told(j) = told(j - 1) \o <<calls[j]>> /\ told(j - 1) \in Seq(Token)
    <3>1. 1 \in 1 .. Len(calls) /\ j \in 1 .. Len(calls)
      BY <2>1
    <3>2. told(j) = told(j - 1) \o <<calls[j]>>
      BY <3>1, SubSeqRecursiveSecond
    <3>3. \A i \in 1 .. j - 1 : calls[i] \in Token
      BY <1>0, <2>1
    <3>4. 1 \in Int /\ j - 1 \in Int
      BY <2>1
    <3>5. QED
      BY <3>2, <3>3, <3>4, SubSeqProperties
  <2>4. Good(j - 1)
    BY <1>4
  <2> HIDE DEF f, block
  <2>5. b = a \o block
    <3>1. out \o FlattenSeq(Append(f, block)) = (out \o FlattenSeq(f)) \o block
      BY <2>2, FlattenMore
    <3>2. QED
      BY <2>2, <3>1 DEF f
  <2> HIDE DEF a, b, told, sent
  <2>6. /\ Turns(out, View(-1, from), a, View(-1, from + (j - 1))) /\ Data(a, kind) = Data(out, kind) \o told(j - 1)
        /\ \A other : other # kind => Data(a, other) = Data(out, other)
    BY <2>4 DEF a
  <2>7. b = a \o CallBlock(calls[j], from + (j - 1), kind)
    BY <2>1, <2>5 DEF block
  <2> DEFINE i == from + (j - 1)
             d == <<calls[j]>>
  <2>8. d \in Seq(Token) /\ i \in Nat
    BY <2>1
  <2>9. /\ Turns(a, View(-1, i), b, View(-1, i + 1)) /\ Data(b, kind) = Data(a, kind) \o d
        /\ \A other : other # kind => Data(b, other) = Data(a, other)
    <3>1. b = a \o <<ItemEvent("start", i, kind, <<>>), ItemEvent("delta", i, kind, d), ItemEvent("stop", i, kind, <<>>)>>
      BY <2>7 DEF CallBlock
    <3> DEFINE m == <<ItemEvent("start", i, kind, <<>>), ItemEvent("delta", i, kind, d), ItemEvent("stop", i, kind, <<>>)>>
    <3> HIDE DEF i, d
    <3>2. a \in Seq(Event) /\ i \in Nat /\ d \in Seq(Token)
      BY <2>6, <2>8 DEF Turns
    <3>3. b = a \o m
      BY <3>1
    <3>4. Turns(a, View(-1, i), b, View(-1, i + 1)) /\ Gains(a, b, kind, d)
      BY <3>1, <3>2, OneBlock
    <3>5. QED
      BY <3>2, <3>4 DEF Gains
  <2> HIDE DEF d
  <2>10. Data(out, kind) \o told(j) = (Data(out, kind) \o told(j - 1)) \o d
    <3> DEFINE x == Data(out, kind)
               y == told(j - 1)
    <3> HIDE DEF x, y
    <3>1. x \in Seq(Token) /\ y \in Seq(Token)
      BY <1>o, <2>3 DEF x, y
    <3>2. (x \o y) \o d = x \o (y \o d)
      BY <2>8, <3>1, Associates, SMTT(30)
    <3>3. QED
      BY <2>3, <3>2 DEF x, y, d
  <2>11. Good(j)
    BY <2>1, <2>6, <2>9, <2>10 DEF b, Turns
  <2>12. QED
    BY <2>1, <2>11
<1>5. n \in P
  <2> HIDE DEF P
  <2>1. QED
    BY <1>0, <1>3, <1>4, Climb
<1>6. first(n) = items /\ told(n) = calls
  BY <1>2, SubSeqFull
<1>7. sent(n) = more
  BY <1>m, <1>6
<1>8. Good(n)
  BY <1>5
<1> HIDE DEF sent, told
<1>9. QED
  BY <1>6, <1>7, <1>8 DEF Gains

-----------------------------------------------------------------------------
\* The items of the Responses stream.
ItemsTyped(r) ==
  /\ IsResponses(r) /\ r.out \in Seq(Event) /\ r.thinking \in Seq(Token) /\ r.outputIdx \in Nat
  /\ r.thinkingStarted \in BOOLEAN /\ r.thinkingDone \in BOOLEAN /\ r.messageStarted \in BOOLEAN
  /\ r.thinkingDone => r.thinkingStarted

\* An item is open: the message's, or before it the reasoning's.
Reasons(r) == r.thinkingStarted /\ ~ r.thinkingDone
ItemsInOrder(r) ==
  /\ ~ (r.messageStarted /\ Reasons(r))
  /\ Viewed(r.out) = IF r.messageStarted \/ Reasons(r) THEN View(r.outputIdx, r.outputIdx + 1)
                     ELSE View(-1, r.outputIdx)

\* Text was sent, and no call.
Says(r, s, cells) ==
  /\ ItemsTyped(s) /\ OnlyItems(r, s)
  /\ Data(s.out, "message") = Data(r.out, "message") \o cells
  /\ Data(s.out, "function_call") = Data(r.out, "function_call")
  /\ ItemsInOrder(r) => ItemsInOrder(s)

LEMMA SaysNothing ==
  ASSUME NEW r, ItemsTyped(r)
  PROVE  Says(r, r, <<>>)
<1>1. Data(r.out, "message") \in Seq(Token)
  BY DataIs DEF ItemsTyped
<1>2. Data(r.out, "message") \o <<>> = Data(r.out, "message")
  BY <1>1, ConcatEmptySeq
<1>3. OnlyItems(r, r)
  BY DEF OnlyItems, ItemsTyped
<1>4. QED
  BY <1>2, <1>3 DEF Says

LEMMA SaysTwice ==
  ASSUME NEW r, ItemsTyped(r), NEW s, NEW t, NEW a \in Seq(Token), NEW b \in Seq(Token),
         Says(r, s, a), Says(s, t, b)
  PROVE  Says(r, t, a \o b)
<1> DEFINE x == Data(r.out, "message")
<1>1. x \in Seq(Token)
  BY DataIs DEF ItemsTyped
<1>2. Data(s.out, "message") = x \o a /\ Data(t.out, "message") = Data(s.out, "message") \o b
  BY DEF Says
<1> HIDE DEF x
<1>3. (x \o a) \o b = x \o (a \o b)
  BY <1>1, Associates
<1>4. Data(t.out, "message") = x \o (a \o b)
  BY <1>2, <1>3
<1>5. QED
  BY <1>4, OnlyItemsTwice DEF Says, x

LEMMA ReasoningOpens ==
  ASSUME NEW r, ItemsTyped(r), NEW s, s = startReasoningItem(r)
  PROVE  /\ ItemsTyped(s) /\ OnlyItems(r, s) /\ s.messageStarted = r.messageStarted
         /\ s.thinking = r.thinking /\ Quiet(r.out, s.out)
         /\ ItemsInOrder(r) /\ ~ r.messageStarted => ItemsInOrder(s)
<1>1. CASE r.thinkingStarted
  <2>1. s = r
    BY <1>1 DEF startReasoningItem
  <2>2. OnlyItems(r, r)
    BY DEF OnlyItems, ItemsTyped
  <2>3. QED
    BY <2>1, <2>2 DEF Quiet
<1>2. CASE ~ r.thinkingStarted
  <2> DEFINE n == r.outputIdx
             more == r.out \o <<ItemEvent("start", n, "reasoning", <<>>)>>
  <2>1. s = [r EXCEPT !.out = more, !.thinkingStarted = TRUE]
    BY <1>2 DEF startReasoningItem, Send, ItemsTyped, IsResponses, ResponsesFields
  <2>2. n \in Nat /\ r.out \in Seq(Event) /\ "reasoning" \in Kinds
    BY DEF ItemsTyped, Kinds
  <2>m. more = r.out \o <<ItemEvent("start", n, "reasoning", <<>>)>>
    OBVIOUS
  <2> HIDE DEF more, n
  <2>3. Turns(r.out, View(-1, n), more, View(n, n + 1)) /\ Quiet(r.out, more)
    BY <2>2, <2>m, Opens
  <2>4. /\ IsResponses(s) /\ s.out = more /\ s.thinkingStarted = TRUE /\ s.thinkingDone = r.thinkingDone
        /\ s.messageStarted = r.messageStarted /\ s.thinking = r.thinking /\ s.outputIdx = n
        /\ OnlyItems(r, s)
    BY <2>1 DEF OnlyItems, ItemsTyped, IsResponses, ResponsesFields, n
  <2>5. ItemsTyped(s)
    BY <2>2, <2>3, <2>4 DEF ItemsTyped, Turns
  <2>6. ASSUME ItemsInOrder(r), ~ r.messageStarted PROVE ItemsInOrder(s)
    <3>1. r.thinkingDone = FALSE
      BY <1>2 DEF ItemsTyped
    <3>2. Viewed(r.out) = View(-1, n)
      BY <1>2, <2>6 DEF ItemsInOrder, Reasons, n
    <3>3. Viewed(s.out) = View(n, n + 1)
      BY <2>3, <2>4, <3>2 DEF Turns
    <3>4. Reasons(s) /\ ~ s.messageStarted
      BY <2>4, <2>6, <3>1 DEF Reasons
    <3>5. QED
      BY <2>4, <3>3, <3>4 DEF ItemsInOrder
  <2>7. QED
    BY <2>3, <2>4, <2>5, <2>6
<1>3. QED
  BY <1>1, <1>2

LEMMA ReasoningCloses ==
  ASSUME NEW r, ItemsTyped(r), NEW s, s = closeReasoningItem(r)
  PROVE  Says(r, s, <<>>) /\ s.messageStarted = r.messageStarted /\ ~ Reasons(s)
<1>1. CASE ~ Reasons(r)
  <2>1. s = r
    BY <1>1 DEF closeReasoningItem, Reasons
  <2>2. QED
    BY <1>1, <2>1, SaysNothing
<1>2. CASE Reasons(r)
  <2> DEFINE n == r.outputIdx
             next == n + 1
             e == ItemEvent("delta", n, "reasoning", r.thinking)
             f == ItemEvent("stop", n, "reasoning", <<>>)
             a == r.out \o <<e>>
             b == a \o <<f>>
  <2>1. s = [r EXCEPT !.out = r.out \o <<e, f>>, !.thinkingDone = TRUE, !.outputIdx = next]
    BY <1>2 DEF closeReasoningItem, Reasons, Send, ItemsTyped, IsResponses, ResponsesFields
  <2>2. /\ n \in Nat /\ next \in Nat /\ r.out \in Seq(Event) /\ r.thinking \in Seq(Token)
        /\ "reasoning" \in Kinds
    BY DEF ItemsTyped, Kinds
  <2>3. e \in Event
    BY <2>2, EventIs
  <2>a. a = r.out \o <<ItemEvent("delta", n, "reasoning", r.thinking)>>
    OBVIOUS
  <2>b. b = a \o <<ItemEvent("stop", n, "reasoning", <<>>)>>
    OBVIOUS
  <2> HIDE DEF a, b, next
  <2>4. Turns(r.out, View(n, next), a, View(n, next)) /\ Gains(r.out, a, "reasoning", r.thinking)
    BY <2>2, <2>a, Fills
  <2>5. a \in Seq(Event)
    BY <2>4 DEF Turns
  <2>6. Turns(a, View(n, next), b, View(-1, next)) /\ Quiet(a, b)
    BY <2>2, <2>5, <2>b, Closes
  <2>7. f \in Event
    <3> DEFINE d == <<>>
    <3>1. d \in Seq(Token)
      OBVIOUS
    <3> HIDE DEF d
    <3>2. ItemEvent("stop", n, "reasoning", d) \in Event
      BY <2>2, <3>1, EventIs
    <3>3. QED
      BY <3>2 DEF d
  <2> HIDE DEF e, f
  <2>8. b = r.out \o <<e, f>>
    <3>1. a = Append(r.out, e)
      BY <2>2, <2>3, AppendIsConcat DEF a
    <3>2. b = Append(a, f)
      BY <2>5, <2>7, AppendIsConcat DEF b
    <3>3. r.out \o <<e, f>> = Append(Append(r.out, e), f)
      BY <2>2, <2>3, <2>7
    <3>4. QED
      BY <3>1, <3>2, <3>3
  <2>9. s = [r EXCEPT !.out = b, !.thinkingDone = TRUE, !.outputIdx = next]
    BY <2>1, <2>8
  <2>10. /\ IsResponses(s) /\ s.out = b /\ s.thinkingDone = TRUE /\ s.thinkingStarted = r.thinkingStarted
         /\ s.messageStarted = r.messageStarted /\ s.thinking = r.thinking /\ s.outputIdx = next
         /\ OnlyItems(r, s)
    BY <2>9 DEF OnlyItems, ItemsTyped, IsResponses, ResponsesFields
  <2>11. ItemsTyped(s)
    BY <1>2, <2>2, <2>6, <2>10 DEF ItemsTyped, Turns, Reasons
  <2>12. /\ Data(b, "message") = Data(r.out, "message")
         /\ Data(b, "function_call") = Data(r.out, "function_call")
    <3>1. \A k : Data(b, k) = Data(a, k)
      BY <2>6 DEF Quiet
    <3>2. Data(a, "message") = Data(r.out, "message") /\ Data(a, "function_call") = Data(r.out, "function_call")
      BY <2>4 DEF Gains
    <3>3. QED
      BY <3>1, <3>2
  <2>13. Data(r.out, "message") \o <<>> = Data(r.out, "message")
    BY <2>2, DataIs, ConcatEmptySeq
  <2>14. ASSUME ItemsInOrder(r) PROVE ItemsInOrder(s)
    <3>1. Viewed(r.out) = View(n, next) /\ ~ r.messageStarted
      BY <1>2, <2>14 DEF ItemsInOrder, next
    <3>2. Viewed(b) = View(-1, next)
      BY <2>4, <2>6, <3>1 DEF Turns
    <3>3. QED
      BY <2>10, <3>1, <3>2 DEF ItemsInOrder, Reasons
  <2>15. QED
    BY <2>10, <2>11, <2>12, <2>13, <2>14 DEF Says, Reasons
<1>3. QED
  BY <1>1, <1>2

LEMMA MessageOpens ==
  ASSUME NEW r, ItemsTyped(r), NEW s, s = startMessageItem(r)
  PROVE  Says(r, s, <<>>) /\ s.messageStarted /\ (ItemsInOrder(r) => ~ Reasons(s))
<1>1. CASE r.messageStarted
  <2>1. s = r
    BY <1>1 DEF startMessageItem
  <2>2. QED
    BY <1>1, <2>1, SaysNothing DEF ItemsInOrder
<1>2. CASE ~ r.messageStarted
  <2> DEFINE c == closeReasoningItem(r)
             n == c.outputIdx
             more == c.out \o <<ItemEvent("start", n, "message", <<>>)>>
  <2>1. Says(r, c, <<>>) /\ c.messageStarted = r.messageStarted /\ ~ Reasons(c)
    BY ReasoningCloses
  <2>2. s = [Send(c, <<ItemEvent("start", c.outputIdx, "message", <<>>)>>) EXCEPT !.messageStarted = TRUE]
    BY <1>2 DEF startMessageItem
  <2> HIDE DEF c
  <2>3. ItemsTyped(c)
    BY <2>1 DEF Says
  <2>4. s = [c EXCEPT !.out = more, !.messageStarted = TRUE]
    BY <2>2, <2>3 DEF Send, ItemsTyped, IsResponses, ResponsesFields
  <2>5. n \in Nat /\ c.out \in Seq(Event) /\ "message" \in Kinds
    BY <2>3 DEF ItemsTyped, Kinds
  <2>m. more = c.out \o <<ItemEvent("start", n, "message", <<>>)>>
    OBVIOUS
  <2> HIDE DEF more, n
  <2>6. Turns(c.out, View(-1, n), more, View(n, n + 1)) /\ Quiet(c.out, more)
    BY <2>5, <2>m, Opens
  <2>7. /\ IsResponses(s) /\ s.out = more /\ s.thinkingStarted = c.thinkingStarted
        /\ s.thinkingDone = c.thinkingDone /\ s.messageStarted = TRUE /\ s.thinking = c.thinking
        /\ s.outputIdx = n /\ OnlyItems(c, s)
    BY <2>3, <2>4 DEF OnlyItems, ItemsTyped, IsResponses, ResponsesFields, n
  <2>8. ItemsTyped(s)
    BY <2>3, <2>5, <2>6, <2>7 DEF ItemsTyped, Turns
  <2>9. OnlyItems(r, s)
    BY <2>1, <2>7, OnlyItemsTwice DEF Says
  <2>10. /\ Data(s.out, "message") = Data(r.out, "message") \o <<>>
         /\ Data(s.out, "function_call") = Data(r.out, "function_call")
    BY <2>1, <2>6, <2>7 DEF Says, Quiet
  <2>11. ~ Reasons(s)
    BY <2>1, <2>7 DEF Reasons
  <2>12. ASSUME ItemsInOrder(r) PROVE ItemsInOrder(s)
    <3>1. ItemsInOrder(c)
      BY <2>1, <2>12 DEF Says
    <3>2. Viewed(c.out) = View(-1, n)
      BY <1>2, <2>1, <3>1 DEF ItemsInOrder, n
    <3>3. Viewed(more) = View(n, n + 1)
      BY <2>6, <3>2 DEF Turns
    <3>4. QED
      BY <2>7, <2>11, <3>3 DEF ItemsInOrder
  <2>13. QED
    BY <2>7, <2>8, <2>9, <2>10, <2>11, <2>12 DEF Says
<1>3. QED
  BY <1>1, <1>2

LEMMA TextIsSaid ==
  ASSUME NEW r, ItemsTyped(r), NEW cells \in Seq(Token), NEW s, s = sendTextDelta(r, cells)
  PROVE  Says(r, s, cells) /\ (s.messageStarted => r.messageStarted \/ cells # <<>>)
<1>1. CASE cells = <<>>
  <2>1. s = r
    BY <1>1 DEF sendTextDelta
  <2>2. QED
    BY <1>1, <2>1, SaysNothing
<1>2. CASE cells # <<>>
  <2> DEFINE c == startMessageItem(r)
             n == c.outputIdx
             next == n + 1
             more == c.out \o <<ItemEvent("delta", n, "message", cells)>>
  <2>1. Says(r, c, <<>>) /\ c.messageStarted /\ (ItemsInOrder(r) => ~ Reasons(c))
    BY MessageOpens
  <2>2. s = Send(c, <<ItemEvent("delta", c.outputIdx, "message", cells)>>)
    BY <1>2 DEF sendTextDelta
  <2> HIDE DEF c
  <2>3. ItemsTyped(c)
    BY <2>1 DEF Says
  <2>4. s = [c EXCEPT !.out = more]
    BY <2>2, <2>3 DEF Send, ItemsTyped, IsResponses, ResponsesFields
  <2>5. n \in Nat /\ next \in Nat /\ c.out \in Seq(Event) /\ "message" \in Kinds
    BY <2>3 DEF ItemsTyped, Kinds
  <2>m. more = c.out \o <<ItemEvent("delta", n, "message", cells)>>
    OBVIOUS
  <2> HIDE DEF more, n, next
  <2>6. Turns(c.out, View(n, next), more, View(n, next)) /\ Gains(c.out, more, "message", cells)
    BY <2>5, <2>m, Fills
  <2>7. /\ IsResponses(s) /\ s.out = more /\ s.thinkingStarted = c.thinkingStarted
        /\ s.thinkingDone = c.thinkingDone /\ s.messageStarted = c.messageStarted /\ s.thinking = c.thinking
        /\ s.outputIdx = n /\ OnlyItems(c, s)
    BY <2>3, <2>4 DEF OnlyItems, ItemsTyped, IsResponses, ResponsesFields, n
  <2>8. ItemsTyped(s)
    BY <2>3, <2>5, <2>6, <2>7 DEF ItemsTyped, Turns
  <2>9. OnlyItems(r, s)
    BY <2>1, <2>7, OnlyItemsTwice DEF Says
  <2>10. /\ Data(s.out, "message") = Data(r.out, "message") \o cells
         /\ Data(s.out, "function_call") = Data(r.out, "function_call")
    <3>1. Data(c.out, "message") = Data(r.out, "message")
      <4>1. Data(r.out, "message") \in Seq(Token)
        BY DataIs DEF ItemsTyped
      <4>2. Data(r.out, "message") \o <<>> = Data(r.out, "message")
        BY <4>1, ConcatEmptySeq
      <4>3. QED
        BY <2>1, <4>2 DEF Says
    <3>2. Data(c.out, "function_call") = Data(r.out, "function_call")
      BY <2>1 DEF Says
    <3>3. QED
      BY <2>6, <2>7, <3>1, <3>2 DEF Gains
  <2>11. ASSUME ItemsInOrder(r) PROVE ItemsInOrder(s)
    <3>1. ItemsInOrder(c) /\ ~ Reasons(c)
      BY <2>1, <2>11 DEF Says
    <3>2. Viewed(c.out) = View(n, next)
      BY <2>1, <3>1 DEF ItemsInOrder, n, next
    <3>3. Viewed(more) = View(n, next)
      BY <2>6, <3>2 DEF Turns
    <3>4. QED
      BY <2>1, <2>7, <3>1, <3>3 DEF ItemsInOrder, Reasons, next
  <2>12. QED
    BY <1>2, <2>7, <2>8, <2>9, <2>10, <2>11 DEF Says
<1>3. QED
  BY <1>1, <1>2

-----------------------------------------------------------------------------
\* While the reply is read the message is the text sent of it.
ItemsRead(r) ==
  /\ Data(r.out, "message") = SubSeq(r.full, 1, r.emittedLen)
  /\ Data(r.out, "function_call") = <<>>
  /\ r.messageStarted => r.full # <<>>
  /\ ~ r.hasTools => r.emittedLen = Len(r.full)

LEMMA GrowsBy ==
  ASSUME NEW old \in Seq(Letter), NEW cells \in Seq(Letter), NEW new, new = old \o cells
  PROVE  /\ new \in Seq(Letter) /\ Extends(new, old) /\ Len(new) = Len(old) + Len(cells)
         /\ cells # <<>> => new # <<>>
<1>1. /\ new \in Seq(Letter) /\ Len(new) = Len(old) + Len(cells)
      /\ \A k \in 1 .. Len(old) + Len(cells) : new[k] = IF k <= Len(old) THEN old[k] ELSE cells[k - Len(old)]
  BY ConcatProperties
<1>2. Len(old) \in Nat /\ Len(cells) \in Nat
  OBVIOUS
<1>3. Extends(new, old)
  BY <1>1, <1>2 DEF Extends
<1>4. cells # <<>> => Len(cells) # 0
  BY EmptySeq
<1>5. new = <<>> => Len(new) = 0
  BY EmptySeq
<1>6. QED
  BY <1>1, <1>2, <1>3, <1>4, <1>5

LEMMA TextHeard ==
  ASSUME NEW c, ItemsTyped(c), ItemsRead(c), c.hasTools \in BOOLEAN, c.full \in Seq(Letter),
         c.emittedLen \in 0 .. Len(c.full), NEW cells \in Seq(Letter), cells # <<>>,
         NEW a, a = MessageText(c, cells)
  PROVE  /\ ItemsTyped(a) /\ ItemsRead(a) /\ (ItemsInOrder(c) => ItemsInOrder(a))
         /\ a.multiFormat = c.multiFormat
<1> DEFINE old == c.full
           e == c.emittedLen
           new == old \o cells
           d == [c EXCEPT !.full = new]
           h == Holdback(c.multiFormat)
           safe == Len(new) - h
           rest == SubSeq(new, e + 1, safe)
           all == sendTextDelta(d, cells)
           most == sendTextDelta(d, rest)
<1>0. old \in Seq(Letter) /\ e \in 0 .. Len(old) /\ Len(old) \in Nat
  OBVIOUS
<1>1. new \in Seq(Letter) /\ Extends(new, old) /\ Len(new) = Len(old) + Len(cells) /\ new # <<>>
  BY <1>0, GrowsBy
<1>2. Len(new) \in Nat /\ Len(cells) \in Nat /\ h \in Nat
  BY <1>1, HoldbackIs
<1>3. /\ IsResponses(d) /\ d.full = new /\ d.hasTools = c.hasTools /\ d.emittedLen = c.emittedLen
      /\ d.out = c.out /\ d.thinking = c.thinking /\ d.outputIdx = c.outputIdx
      /\ d.thinkingStarted = c.thinkingStarted /\ d.thinkingDone = c.thinkingDone
      /\ d.messageStarted = c.messageStarted /\ d.multiFormat = c.multiFormat
  BY DEF IsResponses, ResponsesFields, ItemsTyped
<1>4. a = CASE ~ c.hasTools -> [all EXCEPT !.emittedLen = Len(new)]
            [] c.hasTools /\ ~ c.triggered /\ ShowsTag(new, c.multiFormat) -> [d EXCEPT !.triggered = TRUE]
            [] c.hasTools /\ ~ c.triggered /\ ~ ShowsTag(new, c.multiFormat) /\ safe > c.emittedLen ->
                 [most EXCEPT !.emittedLen = safe]
            [] OTHER -> d
  <2>1. [c EXCEPT !.full = @ \o cells] = d
    OBVIOUS
  <2> HIDE DEF d, new
  <2>2. QED
    BY <1>3, <2>1 DEF MessageText
<1>5. ItemsTyped(d) /\ (ItemsInOrder(c) => ItemsInOrder(d))
  <2> HIDE DEF d
  <2>1. QED
    BY <1>3 DEF ItemsTyped, ItemsInOrder, Reasons
<1>6. cells \in Seq(Token)
  BY LettersAreTokens
<1>7. rest \in Seq(Token)
  <2>1. e + 1 \in Int /\ safe \in Int /\ \A k \in e + 1 .. safe : new[k] \in Letter
    BY <1>0, <1>1, <1>2
  <2>2. rest \in Seq(Letter)
    BY <2>1, SubSeqProperties
  <2>3. QED
    BY <2>2, LettersAreTokens
<1>8. Says(d, all, cells)
  <2> HIDE DEF d
  <2>1. QED
    BY <1>5, <1>6, TextIsSaid
<1>9. Says(d, most, rest)
  <2> HIDE DEF d, rest
  <2>1. QED
    BY <1>5, <1>7, TextIsSaid
<1>10. Data(c.out, "message") = SubSeq(old, 1, e) /\ Data(c.out, "function_call") = <<>>
       /\ (~ c.hasTools => e = Len(old))
  BY DEF ItemsRead
<1>11. SubSeq(new, 1, e) = SubSeq(old, 1, e)
  BY <1>0, <1>1, FirstCells
<1> HIDE DEF old, e, new, d, all, most, rest, h
<1>12. CASE ~ c.hasTools /\ a = [all EXCEPT !.emittedLen = Len(new)]
  <2>1. /\ ItemsTyped(a) /\ a.out = all.out /\ a.full = all.full /\ a.emittedLen = Len(new)
        /\ a.hasTools = all.hasTools /\ a.outputIdx = all.outputIdx
        /\ a.thinkingStarted = all.thinkingStarted /\ a.thinkingDone = all.thinkingDone
        /\ a.messageStarted = all.messageStarted /\ a.multiFormat = all.multiFormat
    BY <1>8, <1>12 DEF Says, ItemsTyped, IsResponses, ResponsesFields
  <2>2. all.full = new /\ all.hasTools = c.hasTools /\ a.multiFormat = c.multiFormat
    BY <1>3, <1>8, <2>1 DEF Says, OnlyItems
  <2>3. SubSeq(old, 1, e) \o cells = SubSeq(new, 1, Len(new))
    <3>1. SubSeq(old, 1, e) = old
      BY <1>0, <1>10, <1>12, SubSeqFull
    <3>2. SubSeq(new, 1, Len(new)) = new
      BY <1>1, SubSeqFull
    <3>3. QED
      BY <3>1, <3>2 DEF new
  <2>4. Data(a.out, "message") = SubSeq(new, 1, Len(new)) /\ Data(a.out, "function_call") = <<>>
    BY <1>3, <1>8, <1>10, <2>1, <2>3 DEF Says
  <2>5. ItemsRead(a)
    BY <1>1, <1>12, <2>1, <2>2, <2>4 DEF ItemsRead
  <2>6. ItemsInOrder(c) => ItemsInOrder(a)
    BY <1>5, <1>8, <2>1 DEF ItemsInOrder, Reasons, Says
  <2>7. QED
    BY <2>1, <2>2, <2>5, <2>6
<1>13. ASSUME ItemsTyped(a), a.out = d.out, a.full = d.full, a.emittedLen = d.emittedLen,
              a.hasTools = d.hasTools, a.outputIdx = d.outputIdx, a.thinkingStarted = d.thinkingStarted,
              a.thinkingDone = d.thinkingDone, a.messageStarted = d.messageStarted,
              a.multiFormat = d.multiFormat, c.hasTools
       PROVE  ItemsRead(a) /\ (ItemsInOrder(c) => ItemsInOrder(a)) /\ a.multiFormat = c.multiFormat
  <2>1. ItemsRead(a)
    BY <1>1, <1>3, <1>10, <1>11, <1>13 DEF ItemsRead, e
  <2>2. ItemsInOrder(c) => ItemsInOrder(a)
    BY <1>5, <1>13 DEF ItemsInOrder, Reasons
  <2>3. QED
    BY <1>3, <1>13, <2>1, <2>2
<1>14. CASE c.hasTools /\ a = [d EXCEPT !.triggered = TRUE]
  <2>1. /\ ItemsTyped(a) /\ a.out = d.out /\ a.full = d.full /\ a.emittedLen = d.emittedLen
        /\ a.hasTools = d.hasTools /\ a.outputIdx = d.outputIdx
        /\ a.thinkingStarted = d.thinkingStarted /\ a.thinkingDone = d.thinkingDone
        /\ a.messageStarted = d.messageStarted /\ a.multiFormat = d.multiFormat
    BY <1>5, <1>14 DEF ItemsTyped, IsResponses, ResponsesFields
  <2>2. QED
    BY <1>13, <1>14, <2>1
<1>15. CASE c.hasTools /\ safe > c.emittedLen /\ a = [most EXCEPT !.emittedLen = safe]
  <2>1. /\ ItemsTyped(a) /\ a.out = most.out /\ a.full = most.full /\ a.emittedLen = safe
        /\ a.hasTools = most.hasTools /\ a.outputIdx = most.outputIdx
        /\ a.thinkingStarted = most.thinkingStarted /\ a.thinkingDone = most.thinkingDone
        /\ a.messageStarted = most.messageStarted /\ a.multiFormat = most.multiFormat
    BY <1>9, <1>15 DEF Says, ItemsTyped, IsResponses, ResponsesFields
  <2>2. most.full = new /\ most.hasTools = c.hasTools /\ a.multiFormat = c.multiFormat
    BY <1>3, <1>9, <2>1 DEF Says, OnlyItems
  <2>3. SubSeq(old, 1, e) \o rest = SubSeq(new, 1, safe)
    <3>1. safe \in e .. Len(new)
      BY <1>0, <1>2, <1>15 DEF e
    <3> HIDE DEF safe
    <3>2. QED
      BY <1>0, <1>1, <3>1, SentMore DEF rest
  <2>4. Data(a.out, "message") = SubSeq(new, 1, safe) /\ Data(a.out, "function_call") = <<>>
    BY <1>3, <1>9, <1>10, <2>1, <2>3 DEF Says
  <2>5. ItemsRead(a)
    BY <1>1, <1>15, <2>1, <2>2, <2>4 DEF ItemsRead
  <2>6. ItemsInOrder(c) => ItemsInOrder(a)
    BY <1>5, <1>9, <2>1 DEF ItemsInOrder, Reasons, Says
  <2>7. QED
    BY <2>1, <2>2, <2>5, <2>6
<1>16. CASE c.hasTools /\ a = d
  BY <1>5, <1>13, <1>16
<1>17. QED
  BY <1>4, <1>12, <1>14, <1>15, <1>16

LEMMA ReplyIs ==
  ASSUME NEW full \in Seq(Letter), NEW hasTools, NEW multi, NEW answer, answer = Reply(full, hasTools, multi)
  PROVE  answer.text \in Seq(Token) /\ answer.calls \in Seq(Token) /\ answer = Found(answer.calls, answer.text)
<1> DEFINE p == ParseWithFormats(full, multi)
<1>1. p.calls \in Seq(Token) /\ p.text \in Seq(Token) /\ full \in Seq(Token)
  BY ParsedIs, LettersAreTokens
<1>2. p = Found(p.calls, p.text)
  BY DEF ParseWithFormats, Cleaned, Found
<1> HIDE DEF p
<1>3. answer = p \/ answer = Found(<<>>, full)
  BY DEF Reply, AllTextUnless, p
<1>4. CASE answer = p
  BY <1>1, <1>2, <1>4
<1>5. CASE answer = Found(<<>>, full)
  <2> DEFINE none == <<>>
  <2>1. none \in Seq(Token) /\ answer = Found(none, full)
    BY <1>5
  <2> HIDE DEF none
  <2>2. QED
    BY <1>1, <2>1 DEF Found
<1>6. QED
  BY <1>3, <1>4, <1>5

\* The reply is answered: the rest of its text, then its calls.
LEMMA AllIsSaid ==
  ASSUME NEW r, ItemsTyped(r), r.emittedLen \in Nat, NEW answer, answer.text \in Seq(Token),
         answer.calls \in Seq(Token), NEW o, o = ItemsDone(r, answer)
  PROVE  /\ ItemsTyped(o) /\ o.doneText = answer.text /\ o.multiFormat = r.multiFormat
         /\ Data(o.out, "message") =
              Data(r.out, "message") \o SubSeq(answer.text, r.emittedLen + 1, Len(answer.text))
         /\ Data(o.out, "function_call") = Data(r.out, "function_call") \o answer.calls
         /\ ItemsInOrder(r) => ~ Viewed(o.out).bad /\ Viewed(o.out).open = -1
<1> DEFINE text == answer.text
           calls == answer.calls
           rest == SubSeq(text, r.emittedLen + 1, Len(text))
           a == sendTextDelta(r, rest)
           b == startMessageItem(a)
           n == b.outputIdx
           next == n + 1
           mo == b.out \o <<ItemEvent("stop", n, "message", <<>>)>>
           m == [b EXCEPT !.out = mo, !.outputIdx = next, !.doneText = text]
           more == mo \o CallBlocks(calls, next, "function_call")
<1>0. rest \in Seq(Token)
  <2>1. Len(text) \in Int /\ r.emittedLen + 1 \in Int /\ \A k \in r.emittedLen + 1 .. Len(text) : text[k] \in Token
    OBVIOUS
  <2>2. QED
    BY <2>1, SubSeqProperties
<1>r. RestOfText(r, text) = b
  BY DEF RestOfText
<1> HIDE DEF rest
<1>1. Says(r, a, rest)
  BY <1>0, TextIsSaid
<1> HIDE DEF a
<1>2. Says(a, b, <<>>) /\ b.messageStarted /\ (ItemsInOrder(a) => ~ Reasons(b))
  BY <1>1, MessageOpens DEF Says
<1> HIDE DEF b
<1>3. ItemsTyped(b) /\ ItemsTyped(a)
  BY <1>1, <1>2 DEF Says
<1>4. n \in Nat /\ next \in Nat /\ b.out \in Seq(Event) /\ "message" \in Kinds /\ "function_call" \in Kinds
  BY <1>3 DEF ItemsTyped, Kinds
<1>5. MessageDone(b, text) = m
  BY <1>3 DEF MessageDone, Send, ItemsTyped, IsResponses, ResponsesFields
<1>o. mo = b.out \o <<ItemEvent("stop", n, "message", <<>>)>>
  OBVIOUS
<1> HIDE DEF mo, n, next
<1>6. Turns(b.out, View(n, next), mo, View(-1, next)) /\ Quiet(b.out, mo)
  BY <1>4, <1>o, Closes
<1>7. IsResponses(m) /\ m.out = mo /\ m.outputIdx = next /\ m.doneText = text
      /\ m.thinking = b.thinking /\ m.thinkingStarted = b.thinkingStarted /\ m.thinkingDone = b.thinkingDone
      /\ m.messageStarted = b.messageStarted /\ m.multiFormat = b.multiFormat
  BY <1>3 DEF ItemsTyped, IsResponses, ResponsesFields
<1> HIDE DEF m
<1>8. mo \in Seq(Event)
  BY <1>6 DEF Turns
<1>m. more = mo \o CallBlocks(calls, next, "function_call")
  OBVIOUS
<1> HIDE DEF more, calls
<1>c. calls \in Seq(Token) /\ Len(calls) \in Nat
  BY DEF calls
<1>9. Turns(mo, View(-1, next), more, View(-1, next + Len(calls))) /\ Gains(mo, more, "function_call", calls)
  BY <1>4, <1>8, <1>c, <1>m, CallsFollow
<1>10. o = [m EXCEPT !.out = more, !.outputIdx = next + Len(calls), !.at = "done"]
  <2>1. CallBlocks(calls, next, "function_call")
          = FlattenSeq([k \in DOMAIN calls |-> <<ItemEvent("start", next + k - 1, "function_call", <<>>),
                   ItemEvent("delta", next + k - 1, "function_call", <<calls[k]>>),
                   ItemEvent("stop", next + k - 1, "function_call", <<>>)>>])
    BY DEF CallBlocks, CallBlock
  <2>2. CallItems(m, calls) = [Send(m, CallBlocks(calls, next, "function_call")) EXCEPT !.outputIdx = @ + Len(calls)]
    BY <1>7, <2>1 DEF CallItems
  <2> DEFINE new == CallBlocks(calls, next, "function_call")
  <2> HIDE DEF new
  <2>3. Send(m, new) = [m EXCEPT !.out = more]
    BY <1>7, <1>m DEF Send, new
  <2> DEFINE s == [m EXCEPT !.out = more]
  <2>4. IsResponses(s) /\ s.outputIdx = next
    BY <1>7 DEF IsResponses, ResponsesFields
  <2>5. CallItems(m, calls) = [s EXCEPT !.outputIdx = next + Len(calls)]
    BY <2>2, <2>3, <2>4 DEF new
  <2>6. o = [CallItems(m, calls) EXCEPT !.at = "done"]
    BY <1>5, <1>r DEF ItemsDone, calls
  <2>7. QED
    BY <1>7, <2>5, <2>6 DEF IsResponses, ResponsesFields
<1>11. /\ IsResponses(o) /\ o.out = more /\ o.outputIdx = next + Len(calls) /\ o.doneText = text
       /\ o.thinking = b.thinking /\ o.thinkingStarted = b.thinkingStarted /\ o.thinkingDone = b.thinkingDone
       /\ o.messageStarted = b.messageStarted /\ o.multiFormat = b.multiFormat
  BY <1>7, <1>10 DEF IsResponses, ResponsesFields
<1>12. more \in Seq(Event) /\ next + Len(calls) \in Nat
  BY <1>4, <1>9, <1>c DEF Turns
<1>13. ItemsTyped(o)
  BY <1>3, <1>11, <1>12 DEF ItemsTyped
<1>14. Says(r, b, rest \o <<>>)
  <2> DEFINE none == <<>>
  <2>1. none \in Seq(Token)
    OBVIOUS
  <2>2. Says(a, b, none)
    BY <1>2
  <2> HIDE DEF none
  <2>3. Says(r, b, rest \o none)
    BY <1>0, <1>1, <2>1, <2>2, SaysTwice
  <2>4. QED
    BY <2>3 DEF none
<1>15. rest \o <<>> = rest
  BY <1>0, ConcatEmptySeq
<1>16. /\ Data(b.out, "message") = Data(r.out, "message") \o rest
       /\ Data(b.out, "function_call") = Data(r.out, "function_call")
  BY <1>14, <1>15 DEF Says
<1>f. b.multiFormat = r.multiFormat
  BY <1>14 DEF Says, OnlyItems
<1>17. /\ Data(more, "message") = Data(b.out, "message")
       /\ Data(more, "function_call") = Data(b.out, "function_call") \o calls
  BY <1>6, <1>9 DEF Quiet, Gains
<1>18. ASSUME ItemsInOrder(r) PROVE ~ Viewed(more).bad /\ Viewed(more).open = -1
  <2>1. ItemsInOrder(b)
    BY <1>14, <1>18 DEF Says
  <2>2. Viewed(b.out) = View(n, next)
    BY <1>2, <2>1 DEF ItemsInOrder, n, next
  <2>3. Viewed(more) = View(-1, next + Len(calls))
    BY <1>6, <1>9, <2>2 DEF Turns
  <2>4. QED
    BY <2>3 DEF View
<1>19. QED
  BY <1>f, <1>11, <1>13, <1>16, <1>17, <1>18 DEF calls, text, rest

-----------------------------------------------------------------------------
\* The upstream thinks before it answers.
ThoughtsFirst == \A b \in Bodies : \A i, j \in DOMAIN b : i < j /\ b[j] = "t" => b[i] = "t"

\* A thought comes before any text.
Early(evt) == evt.phase = "think" /\ ThoughtsFirst => TextRead = <<>>

LEMMA ThoughtsAreEarly ==
  ASSUME Base, ThoughtsFirst, NEW n \in Nat \ {0}, read + n <= Len(body),
         Thought(SubSeq(body, read + 1, read + n))
  PROVE  TextRead = <<>>
<1>1. body \in Seq(Letter) /\ Len(body) \in Nat /\ read \in 0 .. Len(body) /\ body \in Bodies
  BY TextFacts DEF Base
<1> DEFINE cells == SubSeq(body, read + 1, read + n)
<1>2. read + 1 \in Int /\ read + n \in Int /\ \A i \in read + 1 .. read + n : body[i] \in Letter
  BY <1>1
<1>3. /\ cells \in Seq(Letter) /\ Len(cells) = n /\ 1 \in 1 .. n /\ cells[1] = body[read + 1]
  <2>1. /\ cells \in Seq(Letter)
        /\ Len(cells) = IF read + 1 <= read + n THEN (read + n) - (read + 1) + 1 ELSE 0
        /\ \A i \in 1 .. (read + n) - (read + 1) + 1 : cells[i] = body[read + 1 + i - 1]
    BY <1>2, SubSeqProperties
  <2>2. read \in Nat /\ (read + n) - (read + 1) + 1 = n /\ read + 1 <= read + n /\ 1 \in 1 .. n
        /\ read + 1 + 1 - 1 = read + 1
    BY <1>1
  <2>3. QED
    BY <2>1, <2>2
<1> HIDE DEF cells
<1>4. body[read + 1] = "t"
  <2>1. DOMAIN cells = 1 .. n
    BY <1>3
  <2>2. cells[1] \in ToSet(cells)
    BY <1>3, <2>1 DEF ToSet
  <2>3. QED
    BY <1>3, <2>2 DEF Thought, cells
<1>5. \A i \in 1 .. read : body[i] = "t"
  <2> TAKE i \in 1 .. read
  <2>1. i \in DOMAIN body /\ read + 1 \in DOMAIN body /\ i < read + 1
    BY <1>1
  <2>2. QED
    BY <1>1, <1>4, <2>1 DEF ThoughtsFirst
<1>6. Texts[0 + read] = Texts[0]
  <2>1. 0 \in Nat /\ read \in Nat /\ 0 + read <= Len(body) /\ \A i \in (0 + 1) .. (0 + read) : body[i] = "t"
    BY <1>1, <1>5
  <2>2. QED
    BY <1>1, <2>1, ThoughtsAddNothing
<1>7. Texts[0] = <<>> /\ 0 + read = read
  BY <1>1, TextsAre
<1>8. QED
  BY <1>6, <1>7 DEF TextRead

\* A reply that was answered: what was sent of its text and the rest of the answer's,
\* the answer's text and its calls.
ItemsAnswered(r) ==
  LET answer == Reply(r.full, r.hasTools, r.multiFormat)
  IN /\ r.doneText = answer.text
     /\ Data(r.out, "function_call") = answer.calls
     /\ Data(r.out, "message") =
          SubSeq(r.full, 1, r.emittedLen) \o SubSeq(answer.text, r.emittedLen + 1, Len(answer.text))

ItemsInv ==
  /\ ItemsTyped(responses)
  /\ responses.at = "reading" => ItemsRead(responses) /\ (ThoughtsFirst => ItemsInOrder(responses))
  /\ responses.at = "done" => ItemsAnswered(responses)
  /\ ThoughtsFirst => ResponsesItemsInOrder

LEMMA NoneIsBad ==
  ASSUME NEW r, ItemsTyped(r), ItemsInOrder(r)
  PROVE  ~ Viewed(r.out).bad
<1> DEFINE n == r.outputIdx
<1>1. Viewed(r.out) = View(n, n + 1) \/ Viewed(r.out) = View(-1, n)
  BY DEF ItemsInOrder
<1>2. QED
  BY <1>1 DEF View

LEMMA ItemsHear ==
  ASSUME NEW evt, Heard(evt), Early(evt), ItemsInv, ResponsesInv, ResponsesEvent(evt)
  PROVE  ItemsInv' /\ responses'.multiFormat = responses.multiFormat
<1>0. /\ responses.at = "reading" /\ ItemsTyped(responses) /\ ItemsRead(responses)
      /\ (ThoughtsFirst => ItemsInOrder(responses))
      /\ responses.full = TextRead /\ TextRead \in Seq(Letter)
      /\ responses.emittedLen \in 0 .. Len(responses.full) /\ responses.hasTools \in BOOLEAN
  BY DEF ItemsInv, ResponsesEvent, ResponsesInv, Follows, Heard
<1> DEFINE r == responses
           s == responses'
<1>1. ASSUME ItemsTyped(s), s.at = "reading", ItemsRead(s), ThoughtsFirst => ItemsInOrder(s)
      PROVE  ItemsInv'
  <2>1. ThoughtsFirst => ~ Viewed(s.out).bad
    BY <1>1, NoneIsBad
  <2>2. QED
    BY <1>1, <2>1 DEF ItemsInv, ResponsesItemsInOrder
<1> DEFINE quiet == [responses EXCEPT !.inThinking = @ /\ evt.phase # "answer"]
<1>2. CASE evt.phase = "think"
  <2> DEFINE b == IF r.inThinking THEN r ELSE startReasoningItem(r)
  <2>1. s = [b EXCEPT !.inThinking = TRUE, !.thinking = b.thinking \o evt.cells]
    BY <1>2 DEF ResponsesEvent
  <2>2. /\ ItemsTyped(b) /\ OnlyItems(r, b) /\ b.messageStarted = r.messageStarted
        /\ b.thinking = r.thinking /\ Quiet(r.out, b.out)
        /\ ItemsInOrder(r) /\ ~ r.messageStarted => ItemsInOrder(b)
    <3>1. OnlyItems(r, r) /\ Quiet(r.out, r.out)
      BY <1>0 DEF OnlyItems, ItemsTyped, Quiet
    <3>2. CASE r.inThinking
      BY <1>0, <3>1, <3>2
    <3>3. CASE ~ r.inThinking
      BY <1>0, <3>3, ReasoningOpens
    <3>4. QED
      BY <3>2, <3>3
  <2> DEFINE th == b.thinking \o evt.cells
  <2>3. th \in Seq(Token)
    <3>1. evt.cells \in Seq(Token)
      BY LettersAreTokens DEF Heard
    <3>2. b.thinking \in Seq(Token)
      BY <2>2 DEF ItemsTyped
    <3>3. QED
      BY <3>1, <3>2, ConcatProperties
  <2> HIDE DEF b, th
  <2>4. s = [b EXCEPT !.inThinking = TRUE, !.thinking = th]
    BY <2>1 DEF th
  <2>5. /\ ItemsTyped(s) /\ s.at = b.at /\ s.out = b.out /\ s.full = b.full /\ s.emittedLen = b.emittedLen
        /\ s.hasTools = b.hasTools /\ s.outputIdx = b.outputIdx /\ s.messageStarted = b.messageStarted
        /\ s.thinkingStarted = b.thinkingStarted /\ s.thinkingDone = b.thinkingDone
        /\ s.multiFormat = b.multiFormat
    BY <2>2, <2>3, <2>4 DEF ItemsTyped, IsResponses, ResponsesFields
  <2>6. s.at = "reading" /\ ItemsRead(s)
    BY <1>0, <2>2, <2>5 DEF OnlyItems, ItemsRead, Quiet
  <2>7. ThoughtsFirst => ItemsInOrder(s)
    <3>1. ThoughtsFirst => ~ r.messageStarted
      BY <1>0, <1>2 DEF ItemsRead, Early
    <3>2. ThoughtsFirst => ItemsInOrder(b)
      BY <1>0, <2>2, <3>1
    <3>3. QED
      BY <2>5, <3>2 DEF ItemsInOrder, Reasons
  <2>8. QED
    BY <1>1, <2>2, <2>5, <2>6, <2>7 DEF OnlyItems
<1>q. /\ ItemsTyped(quiet) /\ ItemsRead(quiet) /\ (ThoughtsFirst => ItemsInOrder(quiet))
      /\ quiet.at = "reading" /\ quiet.full = r.full /\ quiet.emittedLen = r.emittedLen
      /\ quiet.hasTools = r.hasTools /\ quiet.multiFormat = r.multiFormat
  <2> DEFINE inThinking == r.inThinking /\ evt.phase # "answer"
  <2>1. quiet = [r EXCEPT !.inThinking = inThinking]
    OBVIOUS
  <2> HIDE DEF inThinking, quiet
  <2>2. /\ IsResponses(quiet) /\ quiet.at = r.at /\ quiet.out = r.out /\ quiet.full = r.full
        /\ quiet.emittedLen = r.emittedLen
        /\ quiet.hasTools = r.hasTools /\ quiet.outputIdx = r.outputIdx /\ quiet.messageStarted = r.messageStarted
        /\ quiet.thinkingStarted = r.thinkingStarted /\ quiet.thinkingDone = r.thinkingDone
        /\ quiet.thinking = r.thinking /\ quiet.multiFormat = r.multiFormat
    BY <1>0, <2>1 DEF ItemsTyped, IsResponses, ResponsesFields
  <2>3. QED
    BY <1>0, <2>2 DEF ItemsTyped, ItemsRead, ItemsInOrder, Reasons
<1>3. CASE evt.phase # "think" /\ evt.cells = <<>>
  <2>1. s = quiet
    BY <1>3 DEF ResponsesEvent
  <2>2. QED
    BY <1>1, <1>q, <2>1
<1>4. CASE evt.phase # "think" /\ evt.cells # <<>>
  <2>1. s = MessageText(quiet, evt.cells)
    BY <1>4 DEF ResponsesEvent
  <2> HIDE DEF quiet
  <2>2. quiet.hasTools \in BOOLEAN /\ quiet.full \in Seq(Letter) /\ quiet.emittedLen \in 0 .. Len(quiet.full)
        /\ evt.cells \in Seq(Letter) /\ evt.cells # <<>>
    BY <1>0, <1>4, <1>q DEF Heard
  <2>3. /\ ItemsTyped(s) /\ ItemsRead(s) /\ (ItemsInOrder(quiet) => ItemsInOrder(s))
        /\ s.multiFormat = quiet.multiFormat
    BY <1>q, <2>1, <2>2, TextHeard
  <2>4. s.at = "reading"
    <3>1. ResponsesInv'
      BY ResponsesHears
    <3>2. ending' = "none"
      BY DEF Heard
    <3>3. QED
      BY <3>1, <3>2 DEF ResponsesInv
  <2>5. QED
    BY <1>1, <1>q, <2>3, <2>4
<1>5. QED
  BY <1>2, <1>3, <1>4

LEMMA ItemsEnd ==
  ASSUME Base, ItemsInv, ResponsesInv, NEW how, ResponsesEnd(how)
  PROVE  ItemsInv' /\ responses'.multiFormat = responses.multiFormat /\ responses'.at = "done"
<1>0. /\ responses.at = "reading" /\ ItemsTyped(responses) /\ ItemsRead(responses)
      /\ (ThoughtsFirst => ItemsInOrder(responses))
      /\ responses.full \in Seq(Letter)
      /\ responses.emittedLen \in 0 .. Len(responses.full)
  BY TextFacts DEF ItemsInv, ResponsesEnd, ResponsesInv, Follows
<1> DEFINE p == responses
           k == closeReasoningItem(p)
           r == IF p.inThinking \/ p.thinkingStarted THEN [k EXCEPT !.inThinking = FALSE] ELSE p
           answer == Reply(p.full, p.hasTools, p.multiFormat)
           d == ItemsDone(r, answer)
           status == IF how = "error" THEN "incomplete" ELSE "completed"
           s == responses'
<1>1. s = [d EXCEPT !.status = status]
  BY DEF ResponsesEnd
<1>2. answer.text \in Seq(Token) /\ answer.calls \in Seq(Token)
  BY <1>0, ReplyIs
<1> HIDE DEF answer, status
<1>3. Says(p, k, <<>>) /\ Says(p, p, <<>>)
  BY <1>0, ReasoningCloses, SaysNothing
<1> HIDE DEF k
<1>4. Says(p, r, <<>>)
  <2>1. Says(p, [k EXCEPT !.inThinking = FALSE], <<>>)
    <3> DEFINE i == [k EXCEPT !.inThinking = FALSE]
    <3>1. /\ IsResponses(i) /\ i.out = k.out /\ i.thinking = k.thinking /\ i.outputIdx = k.outputIdx
          /\ i.thinkingStarted = k.thinkingStarted /\ i.thinkingDone = k.thinkingDone
          /\ i.messageStarted = k.messageStarted /\ OnlyItems(k, i)
      BY <1>3 DEF Says, ItemsTyped, OnlyItems, IsResponses, ResponsesFields
    <3> HIDE DEF i
    <3>2. ItemsTyped(i) /\ OnlyItems(p, i) /\ (ItemsInOrder(k) => ItemsInOrder(i))
      BY <1>3, <3>1, OnlyItemsTwice DEF Says, ItemsTyped, ItemsInOrder, Reasons
    <3>3. QED
      BY <1>3, <3>1, <3>2 DEF Says, i
  <2>2. QED
    BY <1>3, <2>1
<1> HIDE DEF r
<1>5. /\ ItemsTyped(r) /\ r.full = p.full /\ r.emittedLen = p.emittedLen /\ r.hasTools = p.hasTools
      /\ r.multiFormat = p.multiFormat /\ r.emittedLen \in Nat
  BY <1>0, <1>4 DEF Says, OnlyItems
<1>6. /\ Data(r.out, "message") = SubSeq(p.full, 1, p.emittedLen) /\ Data(r.out, "function_call") = <<>>
  <2>1. Data(p.out, "message") \in Seq(Token) /\ Data(p.out, "message") \o <<>> = Data(p.out, "message")
    BY <1>0, DataIs, ConcatEmptySeq DEF ItemsTyped
  <2>2. QED
    BY <1>0, <1>4, <2>1 DEF Says, ItemsRead
<1>7. /\ ItemsTyped(d) /\ d.doneText = answer.text /\ d.multiFormat = r.multiFormat
      /\ Data(d.out, "message") =
           Data(r.out, "message") \o SubSeq(answer.text, r.emittedLen + 1, Len(answer.text))
      /\ Data(d.out, "function_call") = Data(r.out, "function_call") \o answer.calls
      /\ ItemsInOrder(r) => ~ Viewed(d.out).bad /\ Viewed(d.out).open = -1
  BY <1>2, <1>5, AllIsSaid
<1>8. d.at = "done" /\ d.full = r.full /\ d.emittedLen = r.emittedLen /\ d.hasTools = r.hasTools
  <2>1. IsResponses(r)
    BY <1>5 DEF ItemsTyped
  <2>2. QED
    BY <2>1, LastItems
<1> HIDE DEF d
<1>10. /\ ItemsTyped(s) /\ s.at = "done" /\ s.doneText = d.doneText /\ s.out = d.out /\ s.full = d.full
       /\ s.emittedLen = d.emittedLen /\ s.hasTools = d.hasTools /\ s.multiFormat = d.multiFormat
  BY <1>1, <1>7, <1>8 DEF ItemsTyped, IsResponses, ResponsesFields
<1>11. <<>> \o answer.calls = answer.calls
  BY <1>2, ConcatEmptySeq
<1>12. ItemsAnswered(s)
  <2>1. Reply(s.full, s.hasTools, s.multiFormat) = answer
    BY <1>5, <1>7, <1>8, <1>10 DEF answer
  <2>2. QED
    BY <1>5, <1>6, <1>7, <1>8, <1>10, <1>11, <2>1 DEF ItemsAnswered
<1>13. ThoughtsFirst => ~ Viewed(s.out).bad /\ Viewed(s.out).open = -1
  BY <1>0, <1>4, <1>7, <1>10 DEF Says
<1>14. QED
  BY <1>5, <1>7, <1>10, <1>12, <1>13 DEF ItemsInv, ResponsesItemsInOrder

LEMMA ItemsLeft ==
  ASSUME ItemsInv, ResponsesGone
  PROVE  ItemsInv' /\ responses'.multiFormat = responses.multiFormat /\ responses'.at = "gone"
<1> DEFINE s == responses'
<1>1. s = [responses EXCEPT !.at = "gone"] /\ ItemsTyped(responses) /\ responses.at = "reading"
  BY DEF ResponsesGone, ItemsInv
<1>2. ItemsTyped(s) /\ s.at = "gone" /\ s.out = responses.out /\ s.multiFormat = responses.multiFormat
  BY <1>1 DEF ItemsTyped, IsResponses, ResponsesFields
<1>3. ThoughtsFirst => ~ Viewed(s.out).bad
  BY <1>1, <1>2, NoneIsBad DEF ItemsInv
<1>4. QED
  BY <1>2, <1>3 DEF ItemsInv, ResponsesItemsInOrder

LEMMA ItemsWait ==
  ASSUME ItemsInv, UNCHANGED responses
  PROVE  ItemsInv'
BY DEF ItemsInv, ResponsesItemsInOrder

-----------------------------------------------------------------------------
\* The blocks of the Claude stream.
BlocksTyped(c) ==
  /\ IsClaude(c) /\ c.out \in Seq(Event) /\ c.textBlockIdx \in Nat
  /\ c.thinkingStarted \in BOOLEAN /\ c.textStarted \in BOOLEAN

\* The thinking block is the first, the text block the next.
BlocksInOrder(c) ==
  /\ ~ (c.textStarted /\ c.thinkingStarted)
  /\ c.thinkingStarted => c.textBlockIdx = 0
  /\ Viewed(c.out) = IF c.textStarted \/ c.thinkingStarted THEN View(c.textBlockIdx, c.textBlockIdx + 1)
                     ELSE View(-1, c.textBlockIdx)

\* Text was sent, and no call.
Writes(c, d, cells) ==
  /\ BlocksTyped(d) /\ OnlyBlocks(c, d) /\ d.multiFormat = c.multiFormat
  /\ Data(d.out, "text") = Data(c.out, "text") \o cells
  /\ Data(d.out, "tool_use") = Data(c.out, "tool_use")
  /\ BlocksInOrder(c) => BlocksInOrder(d)

LEMMA SameEvents ==
  ASSUME NEW type, NEW idx, NEW kind, NEW data
  PROVE  BlockEvent(type, idx, kind, data) = ItemEvent(type, idx, kind, data)
BY DEF BlockEvent, ItemEvent

LEMMA WritesNothing ==
  ASSUME NEW c, BlocksTyped(c)
  PROVE  Writes(c, c, <<>>)
<1>1. Data(c.out, "text") \in Seq(Token)
  BY DataIs DEF BlocksTyped
<1>2. Data(c.out, "text") \o <<>> = Data(c.out, "text")
  BY <1>1, ConcatEmptySeq
<1>3. OnlyBlocks(c, c)
  BY DEF OnlyBlocks, BlocksTyped
<1>4. QED
  BY <1>2, <1>3 DEF Writes

LEMMA WritesTwice ==
  ASSUME NEW c, BlocksTyped(c), NEW d, NEW e, NEW a \in Seq(Token), NEW b \in Seq(Token),
         Writes(c, d, a), Writes(d, e, b)
  PROVE  Writes(c, e, a \o b)
<1> DEFINE x == Data(c.out, "text")
<1>1. x \in Seq(Token)
  BY DataIs DEF BlocksTyped
<1>2. Data(d.out, "text") = x \o a /\ Data(e.out, "text") = Data(d.out, "text") \o b
  BY DEF Writes
<1> HIDE DEF x
<1>3. (x \o a) \o b = x \o (a \o b)
  BY <1>1, Associates
<1>4. Data(e.out, "text") = x \o (a \o b)
  BY <1>2, <1>3
<1>5. QED
  BY <1>4, OnlyBlocksTwice DEF Writes, x

LEMMA WritesThen ==
  ASSUME NEW c, BlocksTyped(c), NEW d, NEW e, NEW b \in Seq(Token), Writes(c, d, <<>>), Writes(d, e, b)
  PROVE  Writes(c, e, b)
<1> DEFINE none == <<>>
<1>1. none \in Seq(Token) /\ none \o b = b
  BY ConcatEmptySeq
<1>2. Writes(c, d, none)
  OBVIOUS
<1> HIDE DEF none
<1>3. Writes(c, e, none \o b)
  BY <1>1, <1>2, WritesTwice
<1>4. QED
  BY <1>1, <1>3

LEMMA ThinkingGoesOn ==
  ASSUME NEW c, BlocksTyped(c), NEW cells \in Seq(Token), NEW d, d = emitThinkingDelta(c, cells)
  PROVE  /\ BlocksTyped(d) /\ OnlyBlocks(c, d) /\ d.multiFormat = c.multiFormat
         /\ d.textStarted = c.textStarted /\ d.textBlockIdx = c.textBlockIdx
         /\ Data(d.out, "text") = Data(c.out, "text") /\ Data(d.out, "tool_use") = Data(c.out, "tool_use")
         /\ BlocksInOrder(c) /\ ~ c.textStarted /\ c.textBlockIdx = 0 => BlocksInOrder(d)
<1>1. CASE cells = <<>>
  <2>1. d = c
    BY <1>1 DEF emitThinkingDelta
  <2>2. QED
    BY <2>1 DEF OnlyBlocks, BlocksTyped
<1>2. CASE cells # <<>>
  <2> DEFINE s == startThinkingBlock(c)
             so == c.out \o <<ItemEvent("start", 0, "thinking", <<>>)>>
             more == s.out \o <<ItemEvent("delta", 0, "thinking", cells)>>
  <2>0. "thinking" \in Kinds /\ 0 \in Nat /\ c.out \in Seq(Event) /\ 0 + 1 = 1 /\ 1 \in Nat
    BY DEF Kinds, BlocksTyped
  <2>1. /\ BlocksTyped(s) /\ OnlyBlocks(c, s) /\ s.multiFormat = c.multiFormat /\ s.thinkingStarted = TRUE
        /\ s.textStarted = c.textStarted /\ s.textBlockIdx = c.textBlockIdx
        /\ Quiet(c.out, s.out)
        /\ BlocksInOrder(c) /\ ~ c.textStarted /\ c.textBlockIdx = 0 => Viewed(s.out) = View(0, 1)
    <3>1. CASE c.thinkingStarted
      <4>1. s = c
        BY <3>1 DEF startThinkingBlock
      <4>2. BlocksInOrder(c) /\ c.textBlockIdx = 0 => Viewed(c.out) = View(0, 0 + 1)
        BY <3>1 DEF BlocksInOrder
      <4>3. QED
        BY <2>0, <3>1, <4>1, <4>2 DEF Quiet, OnlyBlocks, BlocksTyped
    <3>2. CASE ~ c.thinkingStarted
      <4>1. s = [Emit(c, <<BlockEvent("start", 0, "thinking", <<>>)>>) EXCEPT !.thinkingStarted = TRUE]
        BY <3>2 DEF startThinkingBlock
      <4>2. s = [c EXCEPT !.out = so, !.thinkingStarted = TRUE]
        BY <4>1, SameEvents DEF Emit, BlocksTyped, IsClaude, ClaudeFields
      <4>m. so = c.out \o <<ItemEvent("start", 0, "thinking", <<>>)>>
        OBVIOUS
      <4> HIDE DEF so, s
      <4>3. Turns(c.out, View(-1, 0), so, View(0, 0 + 1)) /\ Quiet(c.out, so)
        BY <2>0, <4>m, Opens
      <4>4. /\ IsClaude(s) /\ OnlyBlocks(c, s) /\ s.multiFormat = c.multiFormat /\ s.thinkingStarted = TRUE
            /\ s.textStarted = c.textStarted /\ s.textBlockIdx = c.textBlockIdx /\ s.out = so
        BY <4>2 DEF OnlyBlocks, BlocksTyped, IsClaude, ClaudeFields
      <4>5. BlocksTyped(s)
        BY <4>3, <4>4 DEF BlocksTyped, Turns
      <4>6. BlocksInOrder(c) /\ ~ c.textStarted /\ c.textBlockIdx = 0 => Viewed(s.out) = View(0, 1)
        BY <2>0, <3>2, <4>3, <4>4 DEF BlocksInOrder, Turns
      <4>7. QED
        BY <4>3, <4>4, <4>5, <4>6
    <3>3. QED
      BY <3>1, <3>2
  <2>2. d = Emit(s, <<BlockEvent("delta", 0, "thinking", cells)>>)
    BY <1>2 DEF emitThinkingDelta
  <2> HIDE DEF s
  <2>3. d = [s EXCEPT !.out = more]
    BY <2>1, <2>2, SameEvents DEF Emit, BlocksTyped, IsClaude, ClaudeFields
  <2>m. more = s.out \o <<ItemEvent("delta", 0, "thinking", cells)>> /\ s.out \in Seq(Event)
    BY <2>1 DEF BlocksTyped
  <2> HIDE DEF more
  <2>4. Turns(s.out, View(0, 1), more, View(0, 1)) /\ Gains(s.out, more, "thinking", cells)
    BY <2>0, <2>m, Fills
  <2>5. /\ IsClaude(d) /\ OnlyBlocks(s, d) /\ d.multiFormat = s.multiFormat /\ d.thinkingStarted = TRUE
        /\ d.textStarted = s.textStarted /\ d.textBlockIdx = s.textBlockIdx /\ d.out = more
    BY <2>1, <2>3 DEF OnlyBlocks, BlocksTyped, IsClaude, ClaudeFields
  <2>6. BlocksTyped(d)
    BY <2>1, <2>4, <2>5 DEF BlocksTyped, Turns
  <2>7. Data(d.out, "text") = Data(c.out, "text") /\ Data(d.out, "tool_use") = Data(c.out, "tool_use")
    <3>1. Data(more, "text") = Data(s.out, "text") /\ Data(more, "tool_use") = Data(s.out, "tool_use")
      BY <2>4 DEF Gains
    <3>2. Data(s.out, "text") = Data(c.out, "text") /\ Data(s.out, "tool_use") = Data(c.out, "tool_use")
      BY <2>1 DEF Quiet
    <3>3. QED
      BY <2>5, <3>1, <3>2
  <2>8. ASSUME BlocksInOrder(c), ~ c.textStarted, c.textBlockIdx = 0 PROVE BlocksInOrder(d)
    <3>1. Viewed(s.out) = View(0, 1)
      BY <2>1, <2>8
    <3>2. Viewed(more) = View(0, 1)
      BY <2>4, <3>1 DEF Turns
    <3>3. QED
      BY <2>0, <2>1, <2>5, <2>8, <3>2 DEF BlocksInOrder
  <2>9. OnlyBlocks(c, d)
    BY <2>1, <2>5, OnlyBlocksTwice
  <2>10. QED
    BY <2>1, <2>5, <2>6, <2>7, <2>8, <2>9
<1>3. QED
  BY <1>1, <1>2

LEMMA ThinkingStops ==
  ASSUME NEW c, BlocksTyped(c), NEW d, d = stopThinkingBlock(c)
  PROVE  /\ Writes(c, d, <<>>) /\ d.thinkingStarted = FALSE /\ d.textStarted = c.textStarted
         /\ ~ c.thinkingStarted => d = c
<1>1. CASE ~ c.thinkingStarted
  <2>1. d = c
    BY <1>1 DEF stopThinkingBlock
  <2>2. QED
    BY <1>1, <2>1, WritesNothing DEF BlocksTyped
<1>2. CASE c.thinkingStarted
  <2> DEFINE more == c.out \o <<ItemEvent("stop", 0, "thinking", <<>>)>>
  <2>0. "thinking" \in Kinds /\ 0 \in Nat /\ c.out \in Seq(Event) /\ 0 + 1 = 1 /\ 1 \in Nat
    BY DEF Kinds, BlocksTyped
  <2>1. d = [Emit(c, <<BlockEvent("stop", 0, "thinking", <<>>)>>) EXCEPT !.thinkingStarted = FALSE, !.textBlockIdx = 1]
    BY <1>2 DEF stopThinkingBlock
  <2>2. d = [c EXCEPT !.out = more, !.thinkingStarted = FALSE, !.textBlockIdx = 1]
    BY <2>1, SameEvents DEF Emit, BlocksTyped, IsClaude, ClaudeFields
  <2>m. more = c.out \o <<ItemEvent("stop", 0, "thinking", <<>>)>>
    OBVIOUS
  <2> HIDE DEF more
  <2>3. Turns(c.out, View(0, 1), more, View(-1, 1)) /\ Quiet(c.out, more)
    BY <2>0, <2>m, Closes
  <2>4. /\ IsClaude(d) /\ OnlyBlocks(c, d) /\ d.multiFormat = c.multiFormat /\ d.thinkingStarted = FALSE
        /\ d.textStarted = c.textStarted /\ d.textBlockIdx = 1 /\ d.out = more
    BY <2>2 DEF OnlyBlocks, BlocksTyped, IsClaude, ClaudeFields
  <2>5. BlocksTyped(d)
    BY <2>0, <2>3, <2>4 DEF BlocksTyped, Turns
  <2>6. /\ Data(d.out, "text") = Data(c.out, "text") \o <<>>
        /\ Data(d.out, "tool_use") = Data(c.out, "tool_use")
    <3>1. Data(c.out, "text") \in Seq(Token)
      BY <2>0, DataIs
    <3>2. Data(c.out, "text") \o <<>> = Data(c.out, "text")
      BY <3>1, ConcatEmptySeq
    <3>3. QED
      BY <2>3, <2>4, <3>2 DEF Quiet
  <2>7. ASSUME BlocksInOrder(c) PROVE BlocksInOrder(d)
    <3>1. Viewed(c.out) = View(0, 0 + 1) /\ ~ c.textStarted
      BY <1>2, <2>7 DEF BlocksInOrder
    <3>2. Viewed(more) = View(-1, 1)
      BY <2>0, <2>3, <3>1 DEF Turns
    <3>3. QED
      BY <2>4, <3>1, <3>2 DEF BlocksInOrder
  <2>8. QED
    BY <1>2, <2>4, <2>5, <2>6, <2>7 DEF Writes
<1>3. QED
  BY <1>1, <1>2

LEMMA TextStarts ==
  ASSUME NEW c, BlocksTyped(c), NEW d, d = startTextBlock(c)
  PROVE  /\ Writes(c, d, <<>>) /\ d.textStarted
         /\ BlocksInOrder(c) => ~ d.thinkingStarted
         /\ ~ c.thinkingStarted => ~ d.thinkingStarted /\ d.textBlockIdx = c.textBlockIdx
<1>1. CASE c.textStarted
  <2>1. d = c
    BY <1>1 DEF startTextBlock
  <2>2. QED
    BY <1>1, <2>1, WritesNothing DEF BlocksInOrder
<1>2. CASE ~ c.textStarted
  <2> DEFINE s == stopThinkingBlock(c)
             n == s.textBlockIdx
             more == s.out \o <<ItemEvent("start", n, "text", <<>>)>>
  <2>1. /\ Writes(c, s, <<>>) /\ s.thinkingStarted = FALSE /\ s.textStarted = c.textStarted
        /\ ~ c.thinkingStarted => s = c
    BY ThinkingStops
  <2>2. d = [Emit(s, <<BlockEvent("start", s.textBlockIdx, "text", <<>>)>>) EXCEPT !.textStarted = TRUE]
    BY <1>2 DEF startTextBlock
  <2> HIDE DEF s
  <2>3. BlocksTyped(s)
    BY <2>1 DEF Writes
  <2>4. d = [s EXCEPT !.out = more, !.textStarted = TRUE]
    BY <2>2, <2>3, SameEvents DEF Emit, BlocksTyped, IsClaude, ClaudeFields
  <2>5. n \in Nat /\ s.out \in Seq(Event) /\ "text" \in Kinds
    BY <2>3 DEF BlocksTyped, Kinds
  <2>m. more = s.out \o <<ItemEvent("start", n, "text", <<>>)>>
    OBVIOUS
  <2> HIDE DEF more, n
  <2>6. Turns(s.out, View(-1, n), more, View(n, n + 1)) /\ Quiet(s.out, more)
    BY <2>5, <2>m, Opens
  <2>7. /\ IsClaude(d) /\ OnlyBlocks(s, d) /\ d.multiFormat = s.multiFormat
        /\ d.thinkingStarted = FALSE /\ d.textStarted = TRUE /\ d.textBlockIdx = n /\ d.out = more
    BY <2>1, <2>3, <2>4 DEF OnlyBlocks, BlocksTyped, IsClaude, ClaudeFields, n
  <2>8. BlocksTyped(d)
    BY <2>5, <2>6, <2>7 DEF BlocksTyped, Turns
  <2>9. OnlyBlocks(c, d) /\ d.multiFormat = c.multiFormat
    BY <2>1, <2>7, OnlyBlocksTwice DEF Writes
  <2>10. /\ Data(d.out, "text") = Data(c.out, "text") \o <<>>
         /\ Data(d.out, "tool_use") = Data(c.out, "tool_use")
    BY <2>1, <2>6, <2>7 DEF Writes, Quiet
  <2>11. ASSUME BlocksInOrder(c) PROVE BlocksInOrder(d)
    <3>1. BlocksInOrder(s)
      BY <2>1, <2>11 DEF Writes
    <3>2. Viewed(s.out) = View(-1, n)
      BY <1>2, <2>1, <3>1 DEF BlocksInOrder, n
    <3>3. Viewed(more) = View(n, n + 1)
      BY <2>6, <3>2 DEF Turns
    <3>4. QED
      BY <2>7, <3>3 DEF BlocksInOrder
  <2>12. QED
    BY <2>1, <2>7, <2>8, <2>9, <2>10, <2>11 DEF Writes, n
<1>3. QED
  BY <1>1, <1>2

LEMMA TextIsWritten ==
  ASSUME NEW c, BlocksTyped(c), NEW cells \in Seq(Token), NEW d, d = emitTextDelta(c, cells)
  PROVE  /\ Writes(c, d, cells) /\ (d.textStarted => c.textStarted \/ cells # <<>>)
         /\ ~ c.thinkingStarted => ~ d.thinkingStarted
<1>1. CASE cells = <<>>
  <2>1. d = c
    BY <1>1 DEF emitTextDelta
  <2>2. QED
    BY <1>1, <2>1, WritesNothing
<1>2. CASE cells # <<>>
  <2> DEFINE s == startTextBlock(c)
             n == s.textBlockIdx
             next == n + 1
             more == s.out \o <<ItemEvent("delta", n, "text", cells)>>
  <2>1. /\ Writes(c, s, <<>>) /\ s.textStarted
        /\ BlocksInOrder(c) => ~ s.thinkingStarted
        /\ ~ c.thinkingStarted => ~ s.thinkingStarted
    BY TextStarts
  <2>2. d = Emit(s, <<BlockEvent("delta", s.textBlockIdx, "text", cells)>>)
    BY <1>2 DEF emitTextDelta
  <2> HIDE DEF s
  <2>3. BlocksTyped(s)
    BY <2>1 DEF Writes
  <2>4. d = [s EXCEPT !.out = more]
    BY <2>2, <2>3, SameEvents DEF Emit, BlocksTyped, IsClaude, ClaudeFields
  <2>5. n \in Nat /\ next \in Nat /\ s.out \in Seq(Event) /\ "text" \in Kinds
    BY <2>3 DEF BlocksTyped, Kinds
  <2>m. more = s.out \o <<ItemEvent("delta", n, "text", cells)>>
    OBVIOUS
  <2> HIDE DEF more, n, next
  <2>6. Turns(s.out, View(n, next), more, View(n, next)) /\ Gains(s.out, more, "text", cells)
    BY <2>5, <2>m, Fills
  <2>7. /\ IsClaude(d) /\ OnlyBlocks(s, d) /\ d.multiFormat = s.multiFormat
        /\ d.thinkingStarted = s.thinkingStarted /\ d.textStarted = s.textStarted
        /\ d.textBlockIdx = n /\ d.out = more
    BY <2>3, <2>4 DEF OnlyBlocks, BlocksTyped, IsClaude, ClaudeFields, n
  <2>8. BlocksTyped(d)
    BY <2>3, <2>5, <2>6, <2>7 DEF BlocksTyped, Turns
  <2>9. Writes(s, d, cells)
    <3>1. /\ Data(d.out, "text") = Data(s.out, "text") \o cells
          /\ Data(d.out, "tool_use") = Data(s.out, "tool_use")
      BY <2>6, <2>7 DEF Gains
    <3>2. ASSUME BlocksInOrder(s) PROVE BlocksInOrder(d)
      <4>1. Viewed(s.out) = View(n, next)
        BY <2>1, <3>2 DEF BlocksInOrder, n, next
      <4>2. Viewed(more) = View(n, next)
        BY <2>6, <4>1 DEF Turns
      <4>3. QED
        BY <2>1, <2>7, <3>2, <4>2 DEF BlocksInOrder, next, n
    <3>3. QED
      BY <2>7, <2>8, <3>1, <3>2 DEF Writes
  <2>10. Writes(c, d, cells)
    BY <2>1, <2>9, WritesThen
  <2>11. QED
    BY <1>2, <2>1, <2>7, <2>10
<1>3. QED
  BY <1>1, <1>2

\* The text block is closed, at the end.
LEMMA TextStops ==
  ASSUME NEW c, BlocksTyped(c), NEW d, d = stopTextBlock(c)
  PROVE  /\ BlocksTyped(d) /\ OnlyBlocks(c, d) /\ d.multiFormat = c.multiFormat
         /\ d.textBlockIdx = c.textBlockIdx
         /\ Data(d.out, "text") = Data(c.out, "text") /\ Data(d.out, "tool_use") = Data(c.out, "tool_use")
         /\ BlocksInOrder(c) /\ ~ c.thinkingStarted =>
              Viewed(d.out) = View(-1, IF c.textStarted THEN c.textBlockIdx + 1 ELSE c.textBlockIdx)
<1>1. CASE ~ c.textStarted
  <2>1. d = c
    BY <1>1 DEF stopTextBlock
  <2>2. QED
    BY <1>1, <2>1 DEF BlocksInOrder, OnlyBlocks, BlocksTyped
<1>2. CASE c.textStarted
  <2> DEFINE n == c.textBlockIdx
             next == n + 1
             more == c.out \o <<ItemEvent("stop", n, "text", <<>>)>>
  <2>1. d = [Emit(c, <<BlockEvent("stop", n, "text", <<>>)>>) EXCEPT !.textStarted = FALSE]
    BY <1>2 DEF stopTextBlock
  <2>2. d = [c EXCEPT !.out = more, !.textStarted = FALSE]
    BY <2>1, SameEvents DEF Emit, BlocksTyped, IsClaude, ClaudeFields
  <2>3. n \in Nat /\ next \in Nat /\ c.out \in Seq(Event) /\ "text" \in Kinds
    BY DEF BlocksTyped, Kinds
  <2>m. more = c.out \o <<ItemEvent("stop", n, "text", <<>>)>>
    OBVIOUS
  <2> HIDE DEF more, n, next
  <2>4. Turns(c.out, View(n, next), more, View(-1, next)) /\ Quiet(c.out, more)
    BY <2>3, <2>m, Closes
  <2>5. /\ IsClaude(d) /\ OnlyBlocks(c, d) /\ d.multiFormat = c.multiFormat
        /\ d.thinkingStarted = c.thinkingStarted /\ d.textStarted = FALSE
        /\ d.textBlockIdx = n /\ d.out = more
    BY <2>2 DEF OnlyBlocks, BlocksTyped, IsClaude, ClaudeFields, n
  <2>6. BlocksTyped(d)
    BY <2>3, <2>4, <2>5 DEF BlocksTyped, Turns
  <2>7. ASSUME BlocksInOrder(c) PROVE Viewed(d.out) = View(-1, next)
    <3>1. Viewed(c.out) = View(n, next)
      BY <1>2, <2>7 DEF BlocksInOrder, n, next
    <3>2. QED
      BY <2>4, <2>5, <3>1 DEF Turns
  <2>8. QED
    BY <1>2, <2>4, <2>5, <2>6, <2>7 DEF Quiet, n, next
<1>3. QED
  BY <1>1, <1>2

-----------------------------------------------------------------------------
\* While the reply is read the text block is the text sent of it.
BlocksRead(c) ==
  /\ Data(c.out, "text") = SubSeq(c.full, 1, c.emittedLen)
  /\ Data(c.out, "tool_use") = <<>>
  /\ c.textStarted => c.emittedLen > 0
  /\ ~ c.hasTools => c.emittedLen = Len(c.full)

LEMMA TextWritten ==
  ASSUME NEW c, BlocksTyped(c), BlocksRead(c), c.hasTools \in BOOLEAN, c.full \in Seq(Letter),
         c.emittedLen \in 0 .. Len(c.full), NEW cells \in Seq(Letter),
         NEW a, a = AnswerText(c, cells)
  PROVE  /\ BlocksTyped(a) /\ BlocksRead(a) /\ (BlocksInOrder(c) => BlocksInOrder(a))
         /\ a.stopReason = c.stopReason /\ a.multiFormat = c.multiFormat
<1> DEFINE old == c.full
           e == c.emittedLen
           new == old \o cells
           d == [c EXCEPT !.full = new]
           safe == Len(new) - Marker
           rest == SubSeq(new, e + 1, safe)
           all == emitTextDelta(d, cells)
           most == emitTextDelta(d, rest)
<1>0. old \in Seq(Letter) /\ e \in 0 .. Len(old) /\ Len(old) \in Nat
  OBVIOUS
<1>1. /\ new \in Seq(Letter) /\ Extends(new, old) /\ Len(new) = Len(old) + Len(cells)
  BY <1>0, GrowsBy
<1>2. Len(new) \in Nat /\ Len(cells) \in Nat /\ Marker = 2 /\ (cells # <<>> => Len(cells) > 0)
  BY <1>1, EmptySeq, SpellingIs
<1>3. /\ IsClaude(d) /\ d.full = new /\ d.hasTools = c.hasTools /\ d.emittedLen = c.emittedLen
      /\ d.out = c.out /\ d.textBlockIdx = c.textBlockIdx /\ d.stopReason = c.stopReason
      /\ d.thinkingStarted = c.thinkingStarted /\ d.textStarted = c.textStarted
      /\ d.multiFormat = c.multiFormat
  BY DEF IsClaude, ClaudeFields, BlocksTyped
<1>4. a = CASE ~ c.hasTools -> [all EXCEPT !.emittedLen = Len(new)]
            [] c.hasTools /\ ~ c.triggered /\ ToolCallStart(new) < Len(new) -> [d EXCEPT !.triggered = TRUE]
            [] c.hasTools /\ ~ c.triggered /\ ToolCallStart(new) = Len(new) /\ safe > c.emittedLen ->
                 [most EXCEPT !.emittedLen = safe]
            [] OTHER -> d
  <2>1. [c EXCEPT !.full = @ \o cells] = d
    OBVIOUS
  <2> HIDE DEF d, new
  <2>2. QED
    BY <1>3, <2>1 DEF AnswerText
<1>5. BlocksTyped(d) /\ (BlocksInOrder(c) => BlocksInOrder(d))
  <2> HIDE DEF d
  <2>1. QED
    BY <1>3 DEF BlocksTyped, BlocksInOrder
<1>6. cells \in Seq(Token)
  BY LettersAreTokens
<1>7. rest \in Seq(Token)
  <2>1. e + 1 \in Int /\ safe \in Int /\ \A k \in e + 1 .. safe : new[k] \in Letter
    BY <1>0, <1>1, <1>2
  <2>2. rest \in Seq(Letter)
    BY <2>1, SubSeqProperties
  <2>3. QED
    BY <2>2, LettersAreTokens
<1>8. Writes(d, all, cells) /\ (all.textStarted => d.textStarted \/ cells # <<>>)
  <2> HIDE DEF d
  <2>1. QED
    BY <1>5, <1>6, TextIsWritten
<1>9. Writes(d, most, rest)
  <2> HIDE DEF d, rest
  <2>1. QED
    BY <1>5, <1>7, TextIsWritten
<1>10. Data(c.out, "text") = SubSeq(old, 1, e) /\ Data(c.out, "tool_use") = <<>>
       /\ (~ c.hasTools => e = Len(old)) /\ (c.textStarted => e > 0)
  BY DEF BlocksRead
<1>11. SubSeq(new, 1, e) = SubSeq(old, 1, e)
  BY <1>0, <1>1, FirstCells
<1> HIDE DEF old, e, new, d, all, most, rest
<1>12. CASE ~ c.hasTools /\ a = [all EXCEPT !.emittedLen = Len(new)]
  <2>1. /\ BlocksTyped(a) /\ a.out = all.out /\ a.full = all.full /\ a.emittedLen = Len(new)
        /\ a.hasTools = all.hasTools /\ a.textBlockIdx = all.textBlockIdx
        /\ a.thinkingStarted = all.thinkingStarted /\ a.textStarted = all.textStarted
        /\ a.stopReason = all.stopReason /\ a.multiFormat = all.multiFormat
    BY <1>8, <1>12 DEF Writes, BlocksTyped, IsClaude, ClaudeFields
  <2>2. all.full = new /\ all.hasTools = c.hasTools /\ a.stopReason = c.stopReason /\ a.multiFormat = c.multiFormat
    BY <1>3, <1>8, <2>1 DEF Writes, OnlyBlocks
  <2>3. SubSeq(old, 1, e) \o cells = SubSeq(new, 1, Len(new))
    <3>1. SubSeq(old, 1, e) = old
      BY <1>0, <1>10, <1>12, SubSeqFull
    <3>2. SubSeq(new, 1, Len(new)) = new
      BY <1>1, SubSeqFull
    <3>3. QED
      BY <3>1, <3>2 DEF new
  <2>4. Data(a.out, "text") = SubSeq(new, 1, Len(new)) /\ Data(a.out, "tool_use") = <<>>
    BY <1>3, <1>8, <1>10, <2>1, <2>3 DEF Writes
  <2>5. a.textStarted => Len(new) > 0
    BY <1>0, <1>1, <1>2, <1>3, <1>8, <1>10, <2>1
  <2>6. BlocksRead(a)
    BY <1>12, <2>1, <2>2, <2>4, <2>5 DEF BlocksRead
  <2>7. BlocksInOrder(c) => BlocksInOrder(a)
    BY <1>5, <1>8, <2>1 DEF BlocksInOrder, Writes
  <2>8. QED
    BY <2>1, <2>2, <2>6, <2>7
<1>13. ASSUME BlocksTyped(a), a.out = d.out, a.full = d.full, a.emittedLen = d.emittedLen,
              a.hasTools = d.hasTools, a.textBlockIdx = d.textBlockIdx, a.stopReason = d.stopReason,
              a.thinkingStarted = d.thinkingStarted, a.textStarted = d.textStarted,
              a.multiFormat = d.multiFormat, c.hasTools
       PROVE  /\ BlocksRead(a) /\ (BlocksInOrder(c) => BlocksInOrder(a))
              /\ a.stopReason = c.stopReason /\ a.multiFormat = c.multiFormat
  <2>1. BlocksRead(a)
    BY <1>3, <1>10, <1>11, <1>13 DEF BlocksRead, e
  <2>2. BlocksInOrder(c) => BlocksInOrder(a)
    BY <1>5, <1>13 DEF BlocksInOrder
  <2>3. QED
    BY <1>3, <1>13, <2>1, <2>2
<1>14. CASE c.hasTools /\ a = [d EXCEPT !.triggered = TRUE]
  <2>1. /\ BlocksTyped(a) /\ a.out = d.out /\ a.full = d.full /\ a.emittedLen = d.emittedLen
        /\ a.hasTools = d.hasTools /\ a.textBlockIdx = d.textBlockIdx /\ a.stopReason = d.stopReason
        /\ a.thinkingStarted = d.thinkingStarted /\ a.textStarted = d.textStarted
        /\ a.multiFormat = d.multiFormat
    BY <1>5, <1>14 DEF BlocksTyped, IsClaude, ClaudeFields
  <2>2. QED
    BY <1>13, <1>14, <2>1
<1>15. CASE c.hasTools /\ safe > c.emittedLen /\ a = [most EXCEPT !.emittedLen = safe]
  <2>1. /\ BlocksTyped(a) /\ a.out = most.out /\ a.full = most.full /\ a.emittedLen = safe
        /\ a.hasTools = most.hasTools /\ a.textBlockIdx = most.textBlockIdx
        /\ a.thinkingStarted = most.thinkingStarted /\ a.textStarted = most.textStarted
        /\ a.stopReason = most.stopReason /\ a.multiFormat = most.multiFormat
    BY <1>9, <1>15 DEF Writes, BlocksTyped, IsClaude, ClaudeFields
  <2>2. most.full = new /\ most.hasTools = c.hasTools /\ a.stopReason = c.stopReason /\ a.multiFormat = c.multiFormat
    BY <1>3, <1>9, <2>1 DEF Writes, OnlyBlocks
  <2>3. safe \in e .. Len(new) /\ safe > 0
    BY <1>0, <1>2, <1>15 DEF e
  <2>4. SubSeq(old, 1, e) \o rest = SubSeq(new, 1, safe)
    <3> HIDE DEF safe
    <3>2. QED
      BY <1>0, <1>1, <2>3, SentMore DEF rest
  <2>5. Data(a.out, "text") = SubSeq(new, 1, safe) /\ Data(a.out, "tool_use") = <<>>
    BY <1>3, <1>9, <1>10, <2>1, <2>4 DEF Writes
  <2>6. BlocksRead(a)
    BY <1>15, <2>1, <2>2, <2>3, <2>5 DEF BlocksRead
  <2>7. BlocksInOrder(c) => BlocksInOrder(a)
    BY <1>5, <1>9, <2>1 DEF BlocksInOrder, Writes
  <2>8. QED
    BY <2>1, <2>2, <2>6, <2>7
<1>16. CASE c.hasTools /\ a = d
  BY <1>5, <1>13, <1>16
<1>17. QED
  BY <1>4, <1>12, <1>14, <1>15, <1>16

-----------------------------------------------------------------------------
\* A reply as prompted for of which some text went out has text left when it is
\* cleaned of its calls.
LEMMA SomeIsLeft ==
  ASSUME NEW text \in Seq(Letter), NEW multi, Prompted(text, multi),
         NEW e \in 1 .. Len(text), e <= ToolCallStart(text)
  PROVE  TrimSpace(Cleaning(text, multi)) # <<>>
<1> DEFINE y == Cleaning(text, multi)
<1>1. y \in Seq(Token)
  BY ParsedIs
<1>2. e \in 0 .. Len(text) /\ 1 \in 1 .. e /\ e \in Nat /\ Len(y) \in Nat
  BY <1>1
<1>3. e <= Len(y) /\ \A k \in 1 .. e : y[k] = text[k]
  BY <1>2, FrontStays
<1>4. y[1] # "w"
  <2>1. text # <<>> /\ Head(text) = text[1]
    OBVIOUS
  <2>2. QED
    BY <1>2, <1>3, <2>1 DEF Prompted
<1> HIDE DEF y
<1>5. PICK m \in 0 .. Len(y) : Ends(y, m)
  BY <1>1, TextEnds
<1>6. Len(y) >= 1
  BY <1>2, <1>3
<1>7. 1 <= m /\ TrimSpace(y) = SubSeq(y, 1, m)
  BY <1>1, <1>4, <1>5, <1>6, TrimFront
<1>8. Len(SubSeq(y, 1, m)) = m
  BY <1>1, <1>5, SplitAt
<1>9. QED
  BY <1>7, <1>8 DEF y

LEMMA CleanWritten ==
  ASSUME NEW c, BlocksTyped(c), ~ c.thinkingStarted, NEW text \in Seq(Token), c.emittedLen \in Nat,
         NEW m, m = CleanText(c, text)
  PROVE  /\ BlocksTyped(m) /\ OnlyBlocks(c, m) /\ m.multiFormat = c.multiFormat
         /\ m.textBlockIdx = c.textBlockIdx
         /\ Data(m.out, "tool_use") = Data(c.out, "tool_use")
         /\ BlocksInOrder(c) /\ (text = <<>> => ~ c.textStarted) =>
              Viewed(m.out) = View(-1, IF text = <<>> THEN c.textBlockIdx ELSE c.textBlockIdx + 1)
<1> DEFINE begun == startTextBlock(c)
           unsent == IF c.emittedLen > 0 /\ c.emittedLen < Len(text)
                     THEN SubSeq(text, c.emittedLen + 1, Len(text)) ELSE text
           n == begun.textBlockIdx
           next == n + 1
           more == begun.out \o <<ItemEvent("delta", n, "text", unsent)>>
           full == Emit(begun, <<BlockEvent("delta", n, "text", unsent)>>)
<1>1. \/ text = <<>> /\ m = stopTextBlock(c)
      \/ text # <<>> /\ m = stopTextBlock(begun)
      \/ text # <<>> /\ m = stopTextBlock(full)
  BY DEF CleanText
<1>2. unsent \in Seq(Token)
  <2>1. c.emittedLen < Len(text) => SubSeq(text, c.emittedLen + 1, Len(text)) \in Seq(Token)
    <3>1. c.emittedLen + 1 \in Nat /\ Len(text) \in Int /\ 1 <= c.emittedLen + 1 /\ Len(text) <= Len(text)
      OBVIOUS
    <3>2. QED
      BY <3>1, PartIs
  <2>2. QED
    BY <2>1
<1> HIDE DEF unsent
<1>3. /\ Writes(c, begun, <<>>) /\ begun.textStarted
      /\ ~ begun.thinkingStarted /\ begun.textBlockIdx = c.textBlockIdx
  BY TextStarts
<1>f. full = [begun EXCEPT !.out = more]
  <2> HIDE DEF begun
  <2>1. IsClaude(begun)
    BY <1>3 DEF Writes, BlocksTyped
  <2>2. QED
    BY <2>1, SameEvents DEF Emit, IsClaude, ClaudeFields
<1> HIDE DEF begun, full
<1>4. BlocksTyped(begun) /\ OnlyBlocks(c, begun) /\ begun.multiFormat = c.multiFormat
      /\ (BlocksInOrder(c) => BlocksInOrder(begun))
      /\ Data(begun.out, "tool_use") = Data(c.out, "tool_use")
  BY <1>3 DEF Writes
<1>5. n \in Nat /\ next \in Nat /\ begun.out \in Seq(Event) /\ "text" \in Kinds
  BY <1>4 DEF BlocksTyped, Kinds
<1>m. more = begun.out \o <<ItemEvent("delta", n, "text", unsent)>>
  OBVIOUS
<1> HIDE DEF more, n, next
<1>6. Turns(begun.out, View(n, next), more, View(n, next)) /\ Gains(begun.out, more, "text", unsent)
  BY <1>2, <1>5, <1>m, Fills
<1>7. /\ IsClaude(full) /\ OnlyBlocks(begun, full) /\ full.multiFormat = begun.multiFormat
      /\ full.thinkingStarted = begun.thinkingStarted /\ full.textStarted = begun.textStarted
      /\ full.textBlockIdx = n /\ full.out = more
  BY <1>4, <1>f DEF OnlyBlocks, BlocksTyped, IsClaude, ClaudeFields, n
<1>8. BlocksTyped(full)
  BY <1>4, <1>5, <1>6, <1>7 DEF BlocksTyped, Turns
<1>9. OnlyBlocks(c, full) /\ full.multiFormat = c.multiFormat
  BY <1>4, <1>7, OnlyBlocksTwice
<1>10. Data(full.out, "tool_use") = Data(c.out, "tool_use")
  BY <1>4, <1>6, <1>7 DEF Gains
<1>11. BlocksInOrder(c) => BlocksInOrder(full)
  <2> SUFFICES ASSUME BlocksInOrder(c) PROVE BlocksInOrder(full)
    OBVIOUS
  <2>1. Viewed(begun.out) = View(n, next)
    BY <1>3, <1>4 DEF BlocksInOrder, n, next
  <2>2. Viewed(more) = View(n, next)
    BY <1>6, <2>1 DEF Turns
  <2>3. QED
    BY <1>3, <1>4, <1>7, <2>2 DEF BlocksInOrder, next, n
<1>12. CASE text = <<>> /\ m = stopTextBlock(c)
  <2>1. /\ BlocksTyped(m) /\ OnlyBlocks(c, m) /\ m.multiFormat = c.multiFormat
        /\ m.textBlockIdx = c.textBlockIdx
        /\ Data(m.out, "tool_use") = Data(c.out, "tool_use")
        /\ BlocksInOrder(c) /\ ~ c.thinkingStarted =>
             Viewed(m.out) = View(-1, IF c.textStarted THEN c.textBlockIdx + 1 ELSE c.textBlockIdx)
    BY <1>12, TextStops
  <2>2. QED
    BY <1>12, <2>1
<1>13. ASSUME NEW s, BlocksTyped(s), OnlyBlocks(c, s), s.multiFormat = c.multiFormat,
              s.textBlockIdx = c.textBlockIdx, s.textStarted, ~ s.thinkingStarted,
              Data(s.out, "tool_use") = Data(c.out, "tool_use"),
              BlocksInOrder(c) => BlocksInOrder(s), text # <<>>, m = stopTextBlock(s)
       PROVE  /\ BlocksTyped(m) /\ OnlyBlocks(c, m) /\ m.multiFormat = c.multiFormat
              /\ m.textBlockIdx = c.textBlockIdx
              /\ Data(m.out, "tool_use") = Data(c.out, "tool_use")
              /\ BlocksInOrder(c) => Viewed(m.out) = View(-1, c.textBlockIdx + 1)
  <2>1. /\ BlocksTyped(m) /\ OnlyBlocks(s, m) /\ m.multiFormat = s.multiFormat
        /\ m.textBlockIdx = s.textBlockIdx
        /\ Data(m.out, "tool_use") = Data(s.out, "tool_use")
        /\ BlocksInOrder(s) /\ ~ s.thinkingStarted =>
             Viewed(m.out) = View(-1, IF s.textStarted THEN s.textBlockIdx + 1 ELSE s.textBlockIdx)
    BY <1>13, TextStops
  <2>2. OnlyBlocks(c, m)
    BY <1>13, <2>1, OnlyBlocksTwice
  <2>3. QED
    BY <1>13, <2>1, <2>2
<1>14. CASE text # <<>> /\ m = stopTextBlock(begun)
  BY <1>3, <1>4, <1>13, <1>14
<1>15. CASE text # <<>> /\ m = stopTextBlock(full)
  BY <1>3, <1>7, <1>8, <1>9, <1>10, <1>11, <1>13, <1>15 DEF n
<1>16. QED
  BY <1>1, <1>12, <1>14, <1>15

LEMMA CallsWritten ==
  ASSUME NEW m, BlocksTyped(m), NEW text, NEW calls \in Seq(Token), NEW k, k = ToolBlocks(m, text, calls)
  PROVE  /\ BlocksTyped(k) /\ OnlyBlocks(m, k) /\ k.multiFormat = m.multiFormat
         /\ Data(k.out, "tool_use") = Data(m.out, "tool_use") \o calls
         /\ Viewed(m.out) = View(-1, IF text = <<>> THEN m.textBlockIdx ELSE m.textBlockIdx + 1) =>
              ~ Viewed(k.out).bad /\ Viewed(k.out).open = -1
<1> DEFINE from == IF text = <<>> THEN m.textBlockIdx ELSE m.textBlockIdx + 1
           new == CallBlocks(calls, from, "tool_use")
           more == m.out \o new
           n == Len(calls)
<1>1. from \in Nat /\ m.out \in Seq(Event) /\ "tool_use" \in Kinds /\ n \in Nat
  BY DEF BlocksTyped, Kinds
<1>m. from = IF text = <<>> THEN m.textBlockIdx ELSE m.textBlockIdx + 1
  OBVIOUS
<1> HIDE DEF from
<1>2. new = FlattenSeq([j \in DOMAIN calls |->
              <<BlockEvent("start", from + j - 1, "tool_use", <<>>),
                BlockEvent("delta", from + j - 1, "tool_use", <<calls[j]>>),
                BlockEvent("stop", from + j - 1, "tool_use", <<>>)>>])
  <2> DEFINE Block(j) == <<BlockEvent("start", from + j - 1, "tool_use", <<>>),
                           BlockEvent("delta", from + j - 1, "tool_use", <<calls[j]>>),
                           BlockEvent("stop", from + j - 1, "tool_use", <<>>)>>
  <2>1. \A j \in DOMAIN calls : CallBlock(calls[j], from + j - 1, "tool_use") = Block(j)
    BY SameEvents DEF CallBlock
  <2>2. [j \in DOMAIN calls |-> CallBlock(calls[j], from + j - 1, "tool_use")] = [j \in DOMAIN calls |-> Block(j)]
    BY <2>1
  <2>3. new = FlattenSeq([j \in DOMAIN calls |-> CallBlock(calls[j], from + j - 1, "tool_use")])
    BY DEF CallBlocks
  <2>4. QED
    BY <2>2, <2>3
<1>3. k = Emit(m, new)
  BY <1>2, <1>m DEF ToolBlocks
<1> HIDE DEF new
<1>4. k = [m EXCEPT !.out = more]
  BY <1>3 DEF Emit
<1>5. more = m.out \o CallBlocks(calls, from, "tool_use")
  BY DEF new
<1> HIDE DEF more, n
<1>6. Turns(m.out, View(-1, from), more, View(-1, from + Len(calls))) /\ Gains(m.out, more, "tool_use", calls)
  BY <1>1, <1>5, CallsFollow
<1>7. /\ IsClaude(k) /\ OnlyBlocks(m, k) /\ k.multiFormat = m.multiFormat
      /\ k.thinkingStarted = m.thinkingStarted /\ k.textStarted = m.textStarted
      /\ k.textBlockIdx = m.textBlockIdx /\ k.out = more
  BY <1>4 DEF OnlyBlocks, BlocksTyped, IsClaude, ClaudeFields
<1>8. BlocksTyped(k)
  BY <1>1, <1>6, <1>7 DEF BlocksTyped, Turns
<1>9. Viewed(m.out) = View(-1, from) => ~ Viewed(more).bad /\ Viewed(more).open = -1
  <2>1. Viewed(m.out) = View(-1, from) => Viewed(more) = View(-1, from + Len(calls))
    BY <1>6 DEF Turns
  <2>2. QED
    BY <2>1 DEF View
<1>10. QED
  BY <1>6, <1>7, <1>8, <1>9, <1>m DEF Gains

-----------------------------------------------------------------------------
\* The reply is answered: what is left of its text, and its calls.
LEMMA AllIsWritten ==
  ASSUME NEW c, BlocksTyped(c), BlocksRead(c), ~ c.thinkingStarted, c.full \in Seq(Letter),
         c.emittedLen \in 0 .. Len(c.full), NEW answer, answer.text \in Seq(Token),
         answer.calls \in Seq(Token), NEW d, d = BlocksDone(c, answer)
  PROVE  /\ BlocksTyped(d) /\ d.multiFormat = c.multiFormat /\ d.hasTools = c.hasTools /\ d.full = c.full
         /\ d.stopReason = IF answer.calls # <<>> THEN "tool_use" ELSE c.stopReason
         /\ Data(d.out, "tool_use") = answer.calls
         /\ BlocksInOrder(c) /\ (answer.calls # <<>> /\ answer.text = <<>> => ~ c.textStarted) =>
              ~ Viewed(d.out).bad /\ Viewed(d.out).open = -1
<1> DEFINE text == answer.text
           calls == answer.calls
           m == CleanText(c, text)
           k == ToolBlocks(m, text, calls)
           rest == SubSeq(c.full, c.emittedLen + 1, Len(c.full))
           g == emitTextDelta(c, rest)
<1>0. c.emittedLen \in Nat /\ Data(c.out, "tool_use") = <<>>
  BY DEF BlocksRead
<1>1. \/ calls # <<>> /\ d = [k EXCEPT !.stopReason = "tool_use"]
      \/ calls = <<>> /\ d = stopTextBlock(g)
      \/ calls = <<>> /\ d = stopTextBlock(c)
  <2>1. CASE calls # <<>>
    BY <2>1 DEF BlocksDone
  <2>2. CASE calls = <<>> /\ c.hasTools
    BY <2>2 DEF BlocksDone
  <2>3. CASE calls = <<>> /\ ~ c.hasTools
    BY <2>3 DEF BlocksDone
  <2>4. QED
    BY <2>1, <2>2, <2>3
<1>2. CASE calls # <<>> /\ d = [k EXCEPT !.stopReason = "tool_use"]
  <2>1. /\ BlocksTyped(m) /\ OnlyBlocks(c, m) /\ m.multiFormat = c.multiFormat
        /\ m.textBlockIdx = c.textBlockIdx
        /\ Data(m.out, "tool_use") = Data(c.out, "tool_use")
        /\ BlocksInOrder(c) /\ (text = <<>> => ~ c.textStarted) =>
             Viewed(m.out) = View(-1, IF text = <<>> THEN c.textBlockIdx ELSE c.textBlockIdx + 1)
    BY <1>0, CleanWritten
  <2> HIDE DEF m
  <2>2. /\ BlocksTyped(k) /\ OnlyBlocks(m, k) /\ k.multiFormat = m.multiFormat
        /\ Data(k.out, "tool_use") = Data(m.out, "tool_use") \o calls
        /\ Viewed(m.out) = View(-1, IF text = <<>> THEN m.textBlockIdx ELSE m.textBlockIdx + 1) =>
             ~ Viewed(k.out).bad /\ Viewed(k.out).open = -1
    <3>1. calls \in Seq(Token) /\ k = ToolBlocks(m, text, calls)
      OBVIOUS
    <3> HIDE DEF calls, text, k
    <3>2. BlocksTyped(m)
      BY <2>1
    <3>3. QED
      BY <3>1, <3>2, CallsWritten, SMTT(60)
  <2> HIDE DEF k
  <2>3. /\ BlocksTyped(d) /\ d.stopReason = "tool_use" /\ d.out = k.out /\ d.multiFormat = k.multiFormat
        /\ d.hasTools = k.hasTools /\ d.full = k.full
    BY <1>2, <2>2 DEF BlocksTyped, IsClaude, ClaudeFields
  <2>4. Data(m.out, "tool_use") \o calls = calls
    <3>1. <<>> \o calls = calls
      BY ConcatEmptySeq
    <3>2. QED
      BY <1>0, <2>1, <3>1
  <2>5. BlocksInOrder(c) /\ (calls # <<>> /\ text = <<>> => ~ c.textStarted) =>
          ~ Viewed(d.out).bad /\ Viewed(d.out).open = -1
    BY <1>2, <2>1, <2>2, <2>3
  <2>6. QED
    BY <1>2, <2>1, <2>2, <2>3, <2>4, <2>5 DEF OnlyBlocks
<1>3. ASSUME NEW s, BlocksTyped(s), OnlyBlocks(c, s), s.multiFormat = c.multiFormat, ~ s.thinkingStarted,
             Data(s.out, "tool_use") = <<>>, BlocksInOrder(c) => BlocksInOrder(s),
             calls = <<>>, d = stopTextBlock(s)
      PROVE  /\ BlocksTyped(d) /\ d.multiFormat = c.multiFormat /\ d.hasTools = c.hasTools /\ d.full = c.full
             /\ d.stopReason = c.stopReason /\ Data(d.out, "tool_use") = calls
             /\ BlocksInOrder(c) => ~ Viewed(d.out).bad /\ Viewed(d.out).open = -1
  <2> DEFINE next == IF s.textStarted THEN s.textBlockIdx + 1 ELSE s.textBlockIdx
  <2>1. /\ BlocksTyped(d) /\ OnlyBlocks(s, d) /\ d.multiFormat = s.multiFormat
        /\ Data(d.out, "tool_use") = Data(s.out, "tool_use")
        /\ BlocksInOrder(s) /\ ~ s.thinkingStarted => Viewed(d.out) = View(-1, next)
    BY <1>3, TextStops
  <2> HIDE DEF next
  <2>2. BlocksInOrder(c) => ~ Viewed(d.out).bad /\ Viewed(d.out).open = -1
    BY <1>3, <2>1 DEF View
  <2>3. QED
    BY <1>3, <2>1, <2>2 DEF OnlyBlocks
<1>4. CASE calls = <<>> /\ d = stopTextBlock(g)
  <2>1. rest \in Seq(Token)
    <3>1. c.emittedLen + 1 \in Nat /\ Len(c.full) \in Int /\ 1 <= c.emittedLen + 1 /\ Len(c.full) <= Len(c.full)
          /\ c.full \in Seq(Token)
      BY <1>0, LettersAreTokens
    <3>2. QED
      BY <3>1, PartIs
  <2> HIDE DEF rest
  <2>2. Writes(c, g, rest) /\ ~ g.thinkingStarted
    BY <2>1, TextIsWritten
  <2> HIDE DEF g
  <2>3. QED
    BY <1>0, <1>3, <1>4, <2>2 DEF Writes
<1>5. CASE calls = <<>> /\ d = stopTextBlock(c)
  <2>1. OnlyBlocks(c, c)
    BY DEF OnlyBlocks, BlocksTyped
  <2>2. QED
    BY <1>0, <1>3, <1>5, <2>1
<1>6. QED
  BY <1>1, <1>2, <1>4, <1>5

\* What a reply that was answered left: its calls and, of one the upstream ended,
\* the stop reason.
BlocksAnswered(c, reason) ==
  LET answer == Reply(c.full, c.hasTools, c.multiFormat)
  IN /\ Data(c.out, "tool_use") = answer.calls
     /\ c.stopReason = IF answer.calls # <<>> THEN "tool_use"
                       ELSE IF reason = "error" THEN "max_tokens" ELSE StopReason(reason)

BlocksGood(c) ==
  /\ c.at # "done" => ~ Viewed(c.out).bad
  /\ Prompted(c.full, c.multiFormat) => ~ Viewed(c.out).bad /\ (c.at = "done" => Viewed(c.out).open = -1)

BlocksInv ==
  /\ BlocksTyped(claude)
  /\ claude.at = "reading" =>
       /\ BlocksRead(claude)
       /\ claude.stopReason = StopReason(Reason)
       /\ finish = "none" /\ claude.full = <<>> => claude.textBlockIdx = 0
       /\ ThoughtsFirst => BlocksInOrder(claude)
  /\ claude.at = "done" => BlocksAnswered(claude, IF ending = "error" THEN "error" ELSE Reason)
  /\ ThoughtsFirst => BlocksGood(claude)

\* A reason to finish comes once and last, and with no more text.
Timely(evt) ==
  /\ finish = "none" /\ finish' = evt.finish
  /\ evt.phase = "think" => evt.finish = "none"
  /\ evt.phase # "think" /\ evt.finish = "none" => evt.cells # <<>>

LEMMA NoBlockIsBad ==
  ASSUME NEW c, BlocksInOrder(c), c.at # "done"
  PROVE  BlocksGood(c)
<1> DEFINE n == c.textBlockIdx
<1>1. Viewed(c.out) = View(n, n + 1) \/ Viewed(c.out) = View(-1, n)
  BY DEF BlocksInOrder
<1>2. QED
  BY <1>1 DEF View, BlocksGood

LEMMA BlocksHear ==
  ASSUME NEW evt, Heard(evt), Early(evt), Timely(evt), BlocksInv, ClaudeInv, ClaudeEvent(evt)
  PROVE  BlocksInv' /\ claude'.multiFormat = claude.multiFormat
<1>0. /\ claude.at = "reading" /\ BlocksTyped(claude) /\ BlocksRead(claude)
      /\ (ThoughtsFirst => BlocksInOrder(claude))
      /\ claude.full = TextRead /\ TextRead \in Seq(Letter)
      /\ claude.emittedLen \in 0 .. Len(claude.full) /\ claude.hasTools \in BOOLEAN
      /\ claude.stopReason = "end_turn" /\ (claude.full = <<>> => claude.textBlockIdx = 0)
  BY DEF BlocksInv, ClaudeEvent, ClaudeInv, Follows, Heard, Timely, StopReason, Reason
<1> DEFINE c == claude
           d == claude'
<1>n. ClaudeInv' /\ d.at = "reading" /\ d.full = TextRead'
  <2>1. ClaudeInv'
    BY ClaudeHears
  <2>2. ending' = "none"
    BY DEF Heard
  <2>3. QED
    BY <2>1, <2>2 DEF ClaudeInv, Follows
<1>f. StopReason(Reason') = IF evt.finish = "none" THEN "end_turn" ELSE StopReason(evt.finish)
  BY DEF Timely, Reason, StopReason
<1>1. ASSUME BlocksTyped(d), BlocksRead(d), ThoughtsFirst => BlocksInOrder(d),
             d.stopReason = StopReason(Reason'), finish' = "none" /\ d.full = <<>> => d.textBlockIdx = 0
      PROVE  BlocksInv'
  <2>1. ThoughtsFirst => BlocksGood(d)
    BY <1>1, <1>n, NoBlockIsBad
  <2>2. QED
    BY <1>1, <1>n, <2>1 DEF BlocksInv
<1>2. CASE evt.phase = "think"
  <2> DEFINE b == emitThinkingDelta(c, evt.cells)
  <2>1. d = [b EXCEPT !.inThinking = TRUE]
    BY <1>2 DEF ClaudeEvent
  <2>2. /\ BlocksTyped(b) /\ OnlyBlocks(c, b) /\ b.multiFormat = c.multiFormat
        /\ b.textStarted = c.textStarted /\ b.textBlockIdx = c.textBlockIdx
        /\ Data(b.out, "text") = Data(c.out, "text") /\ Data(b.out, "tool_use") = Data(c.out, "tool_use")
        /\ BlocksInOrder(c) /\ ~ c.textStarted /\ c.textBlockIdx = 0 => BlocksInOrder(b)
    <3>1. evt.cells \in Seq(Token)
      BY LettersAreTokens DEF Heard
    <3>2. QED
      BY <1>0, <3>1, ThinkingGoesOn
  <2> HIDE DEF b
  <2>3. /\ BlocksTyped(d) /\ d.out = b.out /\ d.full = b.full /\ d.emittedLen = b.emittedLen
        /\ d.hasTools = b.hasTools /\ d.textBlockIdx = b.textBlockIdx /\ d.stopReason = b.stopReason
        /\ d.thinkingStarted = b.thinkingStarted /\ d.textStarted = b.textStarted
        /\ d.multiFormat = b.multiFormat
    BY <2>1, <2>2 DEF BlocksTyped, IsClaude, ClaudeFields
  <2>4. BlocksRead(d)
    BY <1>0, <2>2, <2>3 DEF OnlyBlocks, BlocksRead
  <2>5. ThoughtsFirst => BlocksInOrder(d)
    <3>1. ThoughtsFirst => c.full = <<>>
      BY <1>0, <1>2 DEF Early
    <3>2. c.full = <<>> => ~ c.textStarted /\ c.textBlockIdx = 0
      BY <1>0 DEF BlocksRead
    <3>3. ThoughtsFirst => BlocksInOrder(b)
      BY <1>0, <2>2, <3>1, <3>2
    <3>4. QED
      BY <2>3, <3>3 DEF BlocksInOrder
  <2>6. d.stopReason = StopReason(Reason')
    BY <1>0, <1>2, <1>f, <2>2, <2>3 DEF OnlyBlocks, Timely
  <2>7. d.full = <<>> => d.textBlockIdx = 0
    BY <1>0, <2>2, <2>3 DEF OnlyBlocks
  <2>8. QED
    BY <1>1, <2>2, <2>3, <2>4, <2>5, <2>6, <2>7
<1>3. CASE evt.phase # "think"
  <2> DEFINE s == stopThinkingBlock(c)
             q == IF c.inThinking /\ evt.phase = "answer" THEN [s EXCEPT !.inThinking = FALSE] ELSE c
             a == AnswerText(q, evt.cells)
             f == IF evt.finish = "none" THEN a.stopReason ELSE StopReason(evt.finish)
  <2>1. d = [a EXCEPT !.stopReason = f]
    BY <1>3 DEF ClaudeEvent
  <2>2. Writes(c, s, <<>>) /\ s.textStarted = c.textStarted
    BY <1>0, ThinkingStops
  <2>3. Data(c.out, "text") \o <<>> = Data(c.out, "text")
    <3>1. Data(c.out, "text") \in Seq(Token)
      BY <1>0, DataIs DEF BlocksTyped
    <3>2. QED
      BY <3>1, ConcatEmptySeq
  <2> HIDE DEF s
  <2>4. /\ BlocksTyped(q) /\ BlocksRead(q) /\ (ThoughtsFirst => BlocksInOrder(q))
        /\ q.full = c.full /\ q.emittedLen = c.emittedLen /\ q.hasTools = c.hasTools
        /\ q.stopReason = c.stopReason /\ q.multiFormat = c.multiFormat
    <3> DEFINE i == [s EXCEPT !.inThinking = FALSE]
    <3>1. /\ IsClaude(i) /\ i.out = s.out /\ i.full = s.full /\ i.emittedLen = s.emittedLen
          /\ i.hasTools = s.hasTools /\ i.textBlockIdx = s.textBlockIdx /\ i.stopReason = s.stopReason
          /\ i.thinkingStarted = s.thinkingStarted /\ i.textStarted = s.textStarted
          /\ i.multiFormat = s.multiFormat
      BY <2>2 DEF Writes, BlocksTyped, IsClaude, ClaudeFields
    <3>2. q = i \/ q = c
      OBVIOUS
    <3> HIDE DEF i, q
    <3>3. BlocksTyped(i) /\ (ThoughtsFirst => BlocksInOrder(i))
      BY <1>0, <2>2, <3>1 DEF Writes, BlocksTyped, BlocksInOrder
    <3>4. BlocksRead(i) /\ i.full = c.full /\ i.emittedLen = c.emittedLen /\ i.hasTools = c.hasTools
          /\ i.stopReason = c.stopReason /\ i.multiFormat = c.multiFormat
      BY <1>0, <2>2, <2>3, <3>1 DEF Writes, OnlyBlocks, BlocksRead
    <3>5. QED
      BY <1>0, <3>2, <3>3, <3>4
  <2> HIDE DEF q
  <2>5. /\ BlocksTyped(a) /\ BlocksRead(a) /\ (BlocksInOrder(q) => BlocksInOrder(a))
        /\ a.stopReason = q.stopReason /\ a.multiFormat = q.multiFormat
    <3>1. q.hasTools \in BOOLEAN /\ q.full \in Seq(Letter) /\ q.emittedLen \in 0 .. Len(q.full)
          /\ evt.cells \in Seq(Letter)
      BY <1>0, <2>4 DEF Heard
    <3>2. QED
      BY <2>4, <3>1, TextWritten
  <2> HIDE DEF a
  <2>6. f = StopReason(Reason')
    BY <1>0, <1>f, <2>4, <2>5
  <2> HIDE DEF f
  <2>7. /\ BlocksTyped(d) /\ d.out = a.out /\ d.full = a.full /\ d.emittedLen = a.emittedLen
        /\ d.hasTools = a.hasTools /\ d.textBlockIdx = a.textBlockIdx /\ d.stopReason = f
        /\ d.thinkingStarted = a.thinkingStarted /\ d.textStarted = a.textStarted
        /\ d.multiFormat = a.multiFormat
    BY <2>1, <2>5 DEF BlocksTyped, IsClaude, ClaudeFields
  <2>8. BlocksRead(d) /\ (ThoughtsFirst => BlocksInOrder(d))
    BY <2>4, <2>5, <2>7 DEF BlocksRead, BlocksInOrder
  <2>9. finish' = "none" => d.full # <<>>
    <3> SUFFICES ASSUME finish' = "none" PROVE TextRead' # <<>>
      BY <1>n
    <3>1. evt.cells # <<>> /\ evt.cells \in Seq(Letter) /\ TextRead' = TextRead \o evt.cells
      BY <1>3 DEF Timely, Heard
    <3>2. QED
      BY <1>0, <3>1, GrowsBy
  <2>10. QED
    BY <1>1, <2>4, <2>5, <2>6, <2>7, <2>8, <2>9
<1>4. QED
  BY <1>2, <1>3

LEMMA BlocksEnd ==
  ASSUME Base, BlocksInv, ClaudeInv, NEW how \in {"eof", "error"}, ending' = how, finish' = finish, ClaudeEnd(how)
  PROVE  BlocksInv' /\ claude'.multiFormat = claude.multiFormat /\ claude'.at = "done"
<1>0. /\ claude.at = "reading" /\ BlocksTyped(claude) /\ BlocksRead(claude)
      /\ (ThoughtsFirst => BlocksInOrder(claude)) /\ Follows(claude)
      /\ claude.full \in Seq(Letter) /\ claude.full = TextRead
      /\ claude.emittedLen \in 0 .. Len(claude.full) /\ claude.stopReason = StopReason(Reason)
  BY TextFacts DEF BlocksInv, ClaudeEnd, ClaudeInv, Follows
<1> DEFINE f == IF how = "error" THEN "max_tokens" ELSE claude.stopReason
           b == [claude EXCEPT !.inThinking = FALSE, !.stopReason = f]
           c == stopThinkingBlock(b)
           answer == Reply(claude.full, claude.hasTools, claude.multiFormat)
           d == BlocksDone(c, answer)
           e == claude'
<1>1. e = [d EXCEPT !.at = "done"]
  BY DEF ClaudeEnd
<1>2. answer.text \in Seq(Token) /\ answer.calls \in Seq(Token)
  BY <1>0, ReplyIs
<1>3. answer.calls # <<>> => claude.hasTools /\ answer.text = TrimSpace(Cleaning(claude.full, claude.multiFormat))
  <2>1. answer.calls # <<>> => claude.hasTools /\ answer = ParseWithFormats(claude.full, claude.multiFormat)
    BY DEF Reply, AllTextUnless, Found
  <2>2. ParseWithFormats(claude.full, claude.multiFormat).text = TrimSpace(Cleaning(claude.full, claude.multiFormat))
    BY <1>0, ParsedIs
  <2>3. QED
    BY <2>1, <2>2
<1> HIDE DEF f, answer
<1>4. /\ IsClaude(b) /\ b.hasTools = claude.hasTools /\ b.full = claude.full
      /\ b.emittedLen = claude.emittedLen /\ b.stopReason = f /\ b.multiFormat = claude.multiFormat
      /\ b.out = claude.out /\ b.textBlockIdx = claude.textBlockIdx
      /\ b.thinkingStarted = claude.thinkingStarted /\ b.textStarted = claude.textStarted
  BY <1>0 DEF BlocksTyped, IsClaude, ClaudeFields
<1> HIDE DEF b
<1>5. BlocksTyped(b) /\ BlocksRead(b) /\ (ThoughtsFirst => BlocksInOrder(b))
  BY <1>0, <1>4 DEF BlocksTyped, BlocksRead, BlocksInOrder
<1>6. Writes(b, c, <<>>) /\ c.thinkingStarted = FALSE /\ c.textStarted = b.textStarted
  BY <1>5, ThinkingStops
<1> HIDE DEF c
<1>7. /\ BlocksTyped(c) /\ (ThoughtsFirst => BlocksInOrder(c)) /\ c.hasTools = claude.hasTools
      /\ c.full = claude.full /\ c.emittedLen = claude.emittedLen /\ c.stopReason = f
      /\ c.multiFormat = claude.multiFormat /\ c.textStarted = claude.textStarted
  BY <1>4, <1>5, <1>6 DEF Writes, OnlyBlocks
<1>8. BlocksRead(c)
  <2>1. Data(b.out, "text") \o <<>> = Data(b.out, "text")
    <3>1. Data(b.out, "text") \in Seq(Token)
      BY <1>5, DataIs DEF BlocksTyped
    <3>2. QED
      BY <3>1, ConcatEmptySeq
  <2>2. QED
    BY <1>4, <1>5, <1>6, <1>7, <2>1 DEF Writes, BlocksRead
<1>9. /\ BlocksTyped(d) /\ d.multiFormat = c.multiFormat /\ d.hasTools = c.hasTools /\ d.full = c.full
      /\ d.stopReason = IF answer.calls # <<>> THEN "tool_use" ELSE c.stopReason
      /\ Data(d.out, "tool_use") = answer.calls
      /\ BlocksInOrder(c) /\ (answer.calls # <<>> /\ answer.text = <<>> => ~ c.textStarted) =>
           ~ Viewed(d.out).bad /\ Viewed(d.out).open = -1
  <2>1. ~ c.thinkingStarted /\ c.full \in Seq(Letter) /\ c.emittedLen \in 0 .. Len(c.full)
    BY <1>0, <1>6, <1>7
  <2>2. QED
    BY <1>2, <1>7, <1>8, <2>1, AllIsWritten
<1> HIDE DEF d
<1>10. /\ BlocksTyped(e) /\ e.at = "done" /\ e.out = d.out /\ e.multiFormat = claude.multiFormat
       /\ e.hasTools = claude.hasTools /\ e.full = claude.full /\ e.stopReason = d.stopReason
  BY <1>1, <1>7, <1>9 DEF BlocksTyped, IsClaude, ClaudeFields
<1>11. BlocksAnswered(e, IF how = "error" THEN "error" ELSE Reason)
  <2>1. Reply(e.full, e.hasTools, e.multiFormat) = answer
    BY <1>10 DEF answer
  <2>2. f = IF how = "error" THEN "max_tokens" ELSE StopReason(Reason)
    BY <1>0 DEF f
  <2>3. Reason # "error"
    BY DEF Base, Reason
  <2>4. QED
    BY <1>7, <1>9, <1>10, <2>1, <2>2, <2>3 DEF BlocksAnswered
<1>12. ASSUME Prompted(e.full, e.multiFormat), answer.calls # <<>>, answer.text = <<>> PROVE ~ c.textStarted
  <2> SUFFICES ASSUME c.textStarted PROVE FALSE
    OBVIOUS
  <2> DEFINE text == claude.full
             multi == claude.multiFormat
             n == claude.emittedLen
  <2>1. n \in 1 .. Len(text) /\ text \in Seq(Letter)
    BY <1>0, <1>7 DEF BlocksRead
  <2>2. n <= ToolCallStart(text)
    <3>1. claude.hasTools
      BY <1>3, <1>12
    <3>2. n <= ToolCallStart(TextRead)
      BY <1>0, <3>1, SentBeforeMarker
    <3>3. QED
      BY <1>0, <3>2
  <2>3. Prompted(text, multi)
    BY <1>10, <1>12
  <2> HIDE DEF text, multi, n
  <2>4. TrimSpace(Cleaning(text, multi)) # <<>>
    BY <2>1, <2>2, <2>3, SomeIsLeft
  <2>5. QED
    BY <1>3, <1>12, <2>4 DEF text, multi
<1>13. ThoughtsFirst => BlocksGood(e)
  BY <1>7, <1>9, <1>10, <1>12 DEF BlocksGood
<1>14. Reason' = Reason
  BY DEF Reason
<1>15. QED
  BY <1>10, <1>11, <1>13, <1>14 DEF BlocksInv

LEMMA BlocksLeft ==
  ASSUME BlocksInv, ClaudeGone
  PROVE  BlocksInv' /\ claude'.multiFormat = claude.multiFormat /\ claude'.at = "gone"
<1> DEFINE d == claude'
<1>1. d = [claude EXCEPT !.at = "gone"] /\ BlocksTyped(claude) /\ claude.at = "reading"
  BY DEF ClaudeGone, BlocksInv
<1>2. BlocksTyped(d) /\ d.at = "gone" /\ d.out = claude.out /\ d.full = claude.full
      /\ d.multiFormat = claude.multiFormat
  BY <1>1 DEF BlocksTyped, IsClaude, ClaudeFields
<1>3. ThoughtsFirst => ~ Viewed(d.out).bad
  BY <1>1, <1>2 DEF BlocksInv, BlocksGood
<1>4. QED
  BY <1>2, <1>3 DEF BlocksInv, BlocksGood

LEMMA BlocksWait ==
  ASSUME BlocksInv, UNCHANGED <<claude, ending, finish>>
  PROVE  BlocksInv'
BY DEF BlocksInv, Reason

-----------------------------------------------------------------------------
\* What was sent of a text and the rest of what is left of it make up what is left,
\* but for white space at the end that had gone out.
LEMMA DeltasMakeTheText ==
  ASSUME NEW text \in Seq(Letter), NEW multi, NEW tools, Prompted(text, multi),
         NEW e \in 0 .. Len(text), tools => e <= ToolCallStart(text),
         NEW t, t = Reply(text, tools, multi).text
  PROVE  TrimRight(SubSeq(text, 1, e) \o SubSeq(t, e + 1, Len(t))) = TrimRight(t)
<1> DEFINE y == Cleaning(text, multi)
           front == SubSeq(text, 1, e)
           sent == front \o SubSeq(t, e + 1, Len(t))
<1>1. t = text \/ (tools /\ t = TrimSpace(y))
  <2>1. \/ Reply(text, tools, multi) = Found(<<>>, text)
        \/ tools /\ Reply(text, tools, multi) = ParseWithFormats(text, multi)
    BY DEF Reply, AllTextUnless
  <2>2. ParseWithFormats(text, multi).text = TrimSpace(y)
    BY ParsedIs
  <2>3. QED
    BY <2>1, <2>2 DEF Found
<1>2. y \in Seq(Token) /\ text \in Seq(Token) /\ Len(text) \in Nat /\ Len(y) \in Nat /\ e \in Nat
  <2>1. y \in Seq(Token)
    BY ParsedIs
  <2>2. QED
    BY <2>1, LettersAreTokens
<1> HIDE DEF y
<1>3. CASE t = text
  <2>1. front \o SubSeq(text, e + 1, Len(text)) = text
    BY SplitAt
  <2>2. QED
    BY <1>3, <2>1
<1>4. CASE tools /\ t = TrimSpace(y)
  <2>1. t \in Seq(Token)
    BY <1>2, <1>4, SpaceTyped
  <2>2. CASE e = 0
    <3>1. front = <<>> /\ SubSeq(t, 1, Len(t)) = t
      BY <2>1, <2>2, SubSeqEmpty, SubSeqFull
    <3>2. <<>> \o t = t
      BY <2>1, ConcatEmptySeq
    <3>3. sent = t
      BY <2>2, <3>1, <3>2
    <3>4. QED
      BY <3>3
  <2>3. CASE e # 0
    <3>1. e <= Len(y) /\ (\A k \in 1 .. e : y[k] = text[k]) /\ 1 \in 1 .. e
      BY <1>2, <1>4, <2>3, FrontStays DEF y
    <3>2. y[1] # "w"
      <4>1. text # <<>> /\ Head(text) = text[1]
        BY <1>2, <2>3
      <4>2. QED
        BY <3>1, <4>1 DEF Prompted
    <3>3. PICK m \in 0 .. Len(y) : Ends(y, m)
      BY <1>2, TextEnds
    <3>4. Len(y) >= 1
      BY <1>2, <3>1
    <3>5. 1 <= m /\ t = SubSeq(y, 1, m)
      BY <1>2, <1>4, <3>2, <3>3, <3>4, TrimFront
    <3>6. Len(t) = m /\ \A k \in 1 .. m : t[k] = y[k]
      BY <1>2, <3>3, <3>5, SplitAt
    <3>7. front \in Seq(Token) /\ Len(front) = e /\ \A k \in 1 .. e : front[k] = text[k]
      BY <1>2, SplitAt
    <3>8. m \in Nat
      BY <1>2, <3>3
    <3> HIDE DEF front
    <3>9. CASE e <= m
      <4>1. e \in 0 .. Len(t)
        BY <1>2, <3>6, <3>8, <3>9
      <4>2. /\ SubSeq(t, 1, e) \in Seq(Token) /\ Len(SubSeq(t, 1, e)) = e
            /\ \A k \in 1 .. e : SubSeq(t, 1, e)[k] = t[k]
            /\ SubSeq(t, 1, e) \o SubSeq(t, e + 1, Len(t)) = t
        BY <2>1, <4>1, SplitAt
      <4>3. \A k \in 1 .. e : SubSeq(t, 1, e)[k] = front[k]
        BY <1>2, <3>1, <3>6, <3>7, <3>8, <3>9, <4>2
      <4>4. SubSeq(t, 1, e) = front
        <5> DEFINE u == SubSeq(t, 1, e)
        <5>1. u \in Seq(Token) /\ Len(u) = Len(front) /\ \A k \in 1 .. Len(u) : u[k] = front[k]
          BY <3>7, <4>2, <4>3
        <5> HIDE DEF u
        <5>2. u = front
          BY <3>7, <5>1, SeqEqual
        <5>3. QED
          BY <5>2 DEF u
      <4>5. sent = t
        BY <4>2, <4>4
      <4>6. QED
        BY <4>5 DEF front
    <3>10. CASE e > m
      <4>1. SubSeq(t, e + 1, Len(t)) = <<>>
        BY <1>2, <3>6, <3>8, <3>10, SubSeqEmpty
      <4>2. front \o <<>> = front
        BY <3>7, ConcatEmptySeq
      <4>3. Extends(front, t)
        BY <1>2, <3>1, <3>6, <3>7, <3>8, <3>10 DEF Extends
      <4>4. \A k \in Len(t) + 1 .. Len(front) : front[k] = "w"
        <5> TAKE k \in Len(t) + 1 .. Len(front)
        <5>1. k \in m + 1 .. Len(y) /\ k \in 1 .. e
          BY <1>2, <3>1, <3>6, <3>7, <3>8
        <5>2. y[k] = "w"
          BY <3>3, <5>1 DEF Ends
        <5>3. QED
          BY <3>1, <3>7, <5>1, <5>2
      <4>5. TrimRight(front) = TrimRight(t)
        BY <2>1, <3>7, <4>3, <4>4, TrimSame
      <4>6. QED
        BY <4>1, <4>2, <4>5 DEF front
    <3>11. QED
      BY <1>2, <3>8, <3>9, <3>10
  <2>4. QED
    BY <2>2, <2>3
<1>5. QED
  BY <1>1, <1>3, <1>4

\* The calls of a text without a word, and of one with just a closing </think>.
LEMMA NoCalls ==
  ASSUME NEW tools, NEW multi
  PROVE  Reply(<<>>, tools, multi).calls = <<>> /\ Reply(<<"p">>, tools, multi).calls = <<>>
<1> DEFINE none == <<>>
           word == <<"p">>
<1>1. none \in Seq(Letter) /\ none \in Seq(Token)
  OBVIOUS
<1>2. "p" \in Letter /\ "p" \in Token
  BY LetterIs, LettersAreTokens DEF Token
<1>3. word \in Seq(Letter) /\ word = Append(none, "p")
  BY <1>2
<1>4. Lex(none) = none
  BY LexNothing
<1>5. Lex(word) = Folded(Append(none, "p"))
  <2> HIDE DEF none, word
  <2>1. QED
    BY <1>1, <1>2, <1>3, <1>4, LexIs
<1>6. \A t \in DOMAIN Spelling : ~ IsSuffix(Spelling[t], word)
  <2> SUFFICES ASSUME NEW t \in DOMAIN Spelling, IsSuffix(Spelling[t], word) PROVE FALSE
    OBVIOUS
  <2> DEFINE w == Spelling[t]
  <2>1. w \in Seq(Token) /\ word \in Seq(Token) /\ Len(w) \in {2, 3}
    <3>1. w \in Seq(Letter)
      BY SpelledIs
    <3>2. t = "O" \/ t = "F" \/ t = "J"
      BY DEF Spelling
    <3>3. Len(w) = 2 \/ Len(w) = 3
      BY <3>2 DEF Spelling
    <3>4. QED
      BY <1>3, <3>1, <3>3, LettersAreTokens
  <2>2. Len(word) - Len(w) \in 0 .. Len(word) /\ Len(word) = 1
    <3> HIDE DEF w, word
    <3>1. Len(word) - Len(w) \in 0 .. Len(word)
      BY <2>1, SuffixIs DEF w
    <3>2. Len(word) = 1
      BY DEF word
    <3>3. QED
      BY <3>1, <3>2
  <2>3. QED
    BY <2>1, <2>2
<1>7. Lex(word) = word
  <2> HIDE DEF word
  <2>1. Folded(word) = word
    BY <1>6 DEF Folded
  <2>2. QED
    BY <1>3, <1>5, <2>1
<1>8. ASSUME NEW s \in Seq(Letter), Lex(s) = s, Plain(s, multi) PROVE Reply(s, tools, multi).calls = <<>>
  <2>1. ParseWithFormats(s, multi).calls = <<>>
    BY <1>8, ParsedIs
  <2>2. QED
    BY <2>1 DEF Reply, AllTextUnless, Found
<1>9. Plain(none, multi) /\ Plain(word, multi)
  BY DEF Plain
<1>10. QED
  BY <1>1, <1>3, <1>4, <1>7, <1>8, <1>9

-----------------------------------------------------------------------------
\* The four handlers were given the same request, and end together.
Alike ==
  /\ claude.multiFormat = chat.multiFormat /\ responses.multiFormat = chat.multiFormat
  /\ once.multiFormat = chat.multiFormat /\ once.hasTools = chat.hasTools
  /\ claude.at = "gone" <=> ending = "gone"
  /\ responses.at = "gone" <=> ending = "gone"

\* The calls of the chat stream are those of the reply, unless a continuation was
\* joined to it, and its finish reason without tools is the upstream's.
ChatAnswered ==
  /\ chat.at = "reading" =>
       chat.out.calls = <<>> /\ chat.resolving = <<>> /\ (~ chat.hasTools => chat.upstreamFinish = Reason)
  /\ chat.at = "done" /\ chat.hasTools /\ chat.resolving = <<>> =>
       chat.out.calls = ParseWithFormats(chat.full, chat.multiFormat).calls
  /\ chat.at = "done" /\ ~ chat.hasTools =>
       chat.out.calls = <<>> /\ (ending = "eof" => chat.out.finish = Reason)
  /\ chat.at = "gone" => ending = "gone"

\* So are those of the answer that is not streamed.
OnceAnswered ==
  /\ once.at = "continuing" => once.hasTools
  /\ ending = "eof" /\ ~ once.hasTools => once.resp.finish = Reason
  /\ ending = "eof" /\ once.attempt = 1 /\ ThoughtsFirst =>
       once.resp.calls = Reply(TextRead, once.hasTools, once.multiFormat).calls

LEMMA ChatTells ==
  ASSUME NEW evt, Heard(evt), Timely(evt), ChatInv, ChatAnswered, ChatEvent(evt)
  PROVE  /\ ChatAnswered' /\ chat'.at = "reading" /\ chat'.hasTools = chat.hasTools
         /\ chat'.multiFormat = chat.multiFormat
<1>0. /\ IsChat(chat) /\ chat.at = "reading" /\ chat.out.calls = <<>> /\ chat.resolving = <<>>
      /\ (~ chat.hasTools => chat.upstreamFinish = Reason)
  BY DEF ChatInv, ChatAnswered, ChatEvent, DirectEvent, ToolEvent
<1>1. ASSUME chat'.at = "reading", chat'.out.calls = <<>>, chat'.resolving = <<>>,
             ~ chat'.hasTools => chat'.upstreamFinish = Reason'
      PROVE  ChatAnswered'
  BY <1>1 DEF ChatAnswered
<1>2. CASE DirectEvent(evt)
  <2> DEFINE f == IF evt.finish = "none" THEN chat.upstreamFinish ELSE evt.finish
             reasoning == chat.out.reasoning \o evt.cells
             content == chat.out.content \o evt.cells
             full == chat.full \o evt.cells
  <2>1. \/ evt.phase = "think" /\ chat' = [chat EXCEPT !.out.reasoning = reasoning]
        \/ evt.phase # "think" /\ chat' = [chat EXCEPT !.out.content = content, !.full = full, !.upstreamFinish = f]
    BY <1>2 DEF DirectEvent
  <2>2. (evt.phase = "think" => chat.upstreamFinish = Reason') /\ f = Reason'
    BY <1>0, <1>2 DEF Timely, Reason, DirectEvent
  <2> HIDE DEF f, reasoning, content, full
  <2>3. CASE evt.phase = "think" /\ chat' = [chat EXCEPT !.out.reasoning = reasoning]
    <3>1. /\ chat'.at = "reading" /\ chat'.out.calls = <<>> /\ chat'.resolving = <<>>
          /\ chat'.upstreamFinish = chat.upstreamFinish /\ chat'.hasTools = chat.hasTools
          /\ chat'.multiFormat = chat.multiFormat
      BY <1>0, <2>3 DEF IsChat, ChatFields, OutFields
    <3>2. QED
      BY <1>1, <2>2, <2>3, <3>1
  <2>4. CASE chat' = [chat EXCEPT !.out.content = content, !.full = full, !.upstreamFinish = f]
    <3>1. /\ chat'.at = "reading" /\ chat'.out.calls = <<>> /\ chat'.resolving = <<>>
          /\ chat'.upstreamFinish = f /\ chat'.hasTools = chat.hasTools
          /\ chat'.multiFormat = chat.multiFormat
      BY <1>0, <2>4 DEF IsChat, ChatFields, OutFields
    <3>2. QED
      BY <1>1, <2>2, <3>1
  <2>5. QED
    BY <2>1, <2>3, <2>4
<1>3. CASE ToolEvent(evt)
  <2> DEFINE full == chat.full \o evt.cells
             safe == Safe(full, chat.emittedLen)
             reasoning == chat.out.reasoning \o evt.cells
             content == chat.out.content \o SubSeq(full, chat.emittedLen + 1, safe)
  <2>1. /\ chat.hasTools
        /\ \/ chat' = [chat EXCEPT !.out.reasoning = reasoning]
           \/ chat' = [chat EXCEPT !.full = full]
           \/ chat' = [chat EXCEPT !.full = full, !.triggered = TRUE]
           \/ chat' = [chat EXCEPT !.full = full, !.emittedLen = safe, !.out.content = content]
    BY <1>3 DEF ToolEvent
  <2> HIDE DEF full, safe, reasoning, content
  <2>2. /\ chat'.at = "reading" /\ chat'.out.calls = <<>> /\ chat'.resolving = <<>>
        /\ chat'.hasTools = chat.hasTools /\ chat'.multiFormat = chat.multiFormat
    <3>1. CASE chat' = [chat EXCEPT !.out.reasoning = reasoning]
      BY <1>0, <3>1 DEF IsChat, ChatFields, OutFields
    <3>2. CASE chat' = [chat EXCEPT !.full = full]
      BY <1>0, <3>2 DEF IsChat, ChatFields, OutFields
    <3>3. CASE chat' = [chat EXCEPT !.full = full, !.triggered = TRUE]
      BY <1>0, <3>3 DEF IsChat, ChatFields, OutFields
    <3>4. CASE chat' = [chat EXCEPT !.full = full, !.emittedLen = safe, !.out.content = content]
      BY <1>0, <3>4 DEF IsChat, ChatFields, OutFields
    <3>5. QED
      BY <2>1, <3>1, <3>2, <3>3, <3>4
  <2>3. QED
    BY <1>1, <2>1, <2>2
<1>4. QED
  BY <1>2, <1>3 DEF ChatEvent

\* The calls a resolved stream tells of.
LEMMA CallsTold ==
  ASSUME NEW c, c.out = [x \in OutFields |-> c.out[x]], NEW calls
  PROVE  ToolReply(c, calls).calls = calls
<1> DEFINE kept == SubSeq(c.full, c.emittedLen + 1, IF calls = <<>> THEN Len(c.full) ELSE ToolCallStart(c.full))
           content == c.out.content \o (IF calls = <<>> THEN kept ELSE TrimRight(kept))
           toks == Lex(c.full)
           fin == CASE calls # <<>> -> "tool_calls"
                    [] calls = <<>> /\ (HasUnclosedToolCall(toks) \/ SawToolMarker(toks) \/ c.truncated) -> "length"
                    [] OTHER -> "stop"
<1>1. ToolReply(c, calls) = [c.out EXCEPT !.content = content, !.calls = calls, !.finish = fin]
  BY DEF ToolReply
<1> HIDE DEF content, fin
<1>2. QED
  BY <1>1 DEF OutFields

LEMMA ChatTellsAll ==
  ASSUME ChatInv, ChatAnswered, NEW how \in {"eof", "error"}, ending' = how, finish' = finish, ChatEnd(how)
  PROVE  ChatAnswered' /\ chat'.hasTools = chat.hasTools /\ chat'.multiFormat = chat.multiFormat
<1>0. /\ IsChat(chat) /\ chat.at = "reading" /\ chat.out.calls = <<>> /\ chat.resolving = <<>>
      /\ (~ chat.hasTools => chat.upstreamFinish = Reason) /\ Reason' = Reason
  BY DEF ChatInv, ChatAnswered, ChatEnd, DirectEnd, ToolEnd, Reason
<1>1. CASE DirectEnd(how)
  <2> DEFINE f == IF how = "error" THEN "length" ELSE chat.upstreamFinish
  <2>1. chat' = [chat EXCEPT !.at = "done", !.out.finish = f] /\ ~ chat.hasTools
    BY <1>1 DEF DirectEnd
  <2>2. how = "eof" => f = Reason'
    BY <1>0, <2>1
  <2> HIDE DEF f
  <2>3. /\ chat'.at = "done" /\ chat'.hasTools = chat.hasTools /\ chat'.out.finish = f
        /\ chat'.out.calls = <<>> /\ chat'.multiFormat = chat.multiFormat
    BY <1>0, <2>1 DEF IsChat, ChatFields, OutFields
  <2>4. QED
    BY <2>1, <2>2, <2>3 DEF ChatAnswered
<1>2. CASE ToolEnd(how)
  <2> DEFINE c == [chat EXCEPT !.truncated = (how = "error")]
             calls == ParseWithFormats(c.full, c.multiFormat).calls
             out == ToolReply(c, calls)
  <2>1. /\ chat.hasTools
        /\ chat' = IF NeedsContinuation(c) THEN [c EXCEPT !.at = "resolving", !.resolving = c.full]
                   ELSE [c EXCEPT !.at = "done", !.out = out]
    BY <1>2 DEF ToolEnd
  <2>2. /\ IsChat(c) /\ c.hasTools = chat.hasTools /\ c.full = chat.full /\ c.multiFormat = chat.multiFormat
    BY <1>0 DEF IsChat, ChatFields, OutFields
  <2>3. out.calls = calls
    <3> HIDE DEF c, calls
    <3>1. QED
      BY <2>2, CallsTold DEF IsChat
  <2> HIDE DEF c, out
  <2>4. CASE chat' = [c EXCEPT !.at = "resolving", !.resolving = c.full]
    <3>1. chat'.at = "resolving" /\ chat'.hasTools = c.hasTools /\ chat'.multiFormat = c.multiFormat
      BY <2>2, <2>4 DEF IsChat, ChatFields
    <3>2. QED
      BY <2>2, <3>1 DEF ChatAnswered
  <2>5. CASE chat' = [c EXCEPT !.at = "done", !.out = out]
    <3>1. /\ chat'.at = "done" /\ chat'.hasTools = c.hasTools /\ chat'.multiFormat = c.multiFormat
          /\ chat'.out = out /\ chat'.full = c.full
      BY <2>2, <2>5 DEF IsChat, ChatFields
    <3>2. chat'.out.calls = ParseWithFormats(chat'.full, chat'.multiFormat).calls
      BY <2>3, <3>1
    <3>3. QED
      BY <2>1, <2>2, <3>1, <3>2 DEF ChatAnswered
  <2>6. QED
    BY <2>1, <2>4, <2>5
<1>3. QED
  BY <1>1, <1>2 DEF ChatEnd

LEMMA ChatTellsLater ==
  ASSUME ChatInv, ChatAnswered, (\E more \in Continuations : ContinueOnce(more)) \/ Resolved
  PROVE  ChatAnswered' /\ chat'.hasTools = chat.hasTools /\ chat'.multiFormat = chat.multiFormat
<1>0. IsChat(chat) /\ chat.at = "resolving" /\ chat.hasTools
  BY DEF ChatInv, ContinueOnce, Resolved
<1>1. CASE \E more \in Continuations : ContinueOnce(more)
  <2>1. PICK more \in Continuations : ContinueOnce(more)
    BY <1>1
  <2> DEFINE joined == Join(chat.resolving, drainStreamToText(more))
  <2>2. \/ chat' = [chat EXCEPT !.round = MaxContinuationRounds]
        \/ chat' = [chat EXCEPT !.round = chat.round + 1, !.resolving = joined]
    BY <2>1 DEF ContinueOnce
  <2> HIDE DEF joined
  <2>3. chat'.at = "resolving" /\ chat'.hasTools = chat.hasTools /\ chat'.multiFormat = chat.multiFormat
    <3>1. CASE chat' = [chat EXCEPT !.round = MaxContinuationRounds]
      BY <1>0, <3>1 DEF IsChat, ChatFields
    <3>2. CASE chat' = [chat EXCEPT !.round = chat.round + 1, !.resolving = joined]
      BY <1>0, <3>2 DEF IsChat, ChatFields
    <3>3. QED
      BY <2>2, <3>1, <3>2
  <2>4. QED
    BY <2>3 DEF ChatAnswered
<1>2. CASE Resolved
  <2> DEFINE joined == ParseWithFormats(chat.resolving, chat.multiFormat).calls
             asItWas == ParseWithFormats(chat.full, chat.multiFormat).calls
             calls == IF joined # <<>> /\ ~ HasUnclosedToolCall(Lex(chat.resolving)) THEN joined ELSE asItWas
             out == ToolReply(chat, calls)
  <2>1. chat' = [chat EXCEPT !.at = "done", !.out = out]
    BY <1>2 DEF Resolved
  <2>2. chat.resolving = <<>> => calls = asItWas
    <3> SUFFICES ASSUME chat.resolving = <<>> PROVE joined = <<>>
      OBVIOUS
    <3> DEFINE none == <<>>
    <3>1. none \in Seq(Letter) /\ Lex(none) = none /\ Plain(none, chat.multiFormat)
      BY LexNothing DEF Plain
    <3> HIDE DEF none
    <3>2. ParseWithFormats(none, chat.multiFormat).calls = <<>>
      BY <3>1, ParsedIs
    <3>3. QED
      BY <3>2 DEF none
  <2>3. out.calls = calls
    <3> HIDE DEF calls
    <3>1. QED
      BY <1>0, CallsTold DEF IsChat
  <2> HIDE DEF calls, out
  <2>4. /\ chat'.at = "done" /\ chat'.hasTools = chat.hasTools /\ chat'.multiFormat = chat.multiFormat
        /\ chat'.resolving = chat.resolving /\ chat'.full = chat.full /\ chat'.out = out
    BY <1>0, <2>1 DEF IsChat, ChatFields
  <2>5. QED
    BY <1>0, <2>2, <2>3, <2>4 DEF ChatAnswered
<1>3. QED
  BY <1>1, <1>2

LEMMA ChatTellsNothing ==
  ASSUME ChatInv, ChatGone, ending' = "gone"
  PROVE  ChatAnswered' /\ chat'.hasTools = chat.hasTools /\ chat'.multiFormat = chat.multiFormat
<1>1. chat' = [chat EXCEPT !.at = "gone"] /\ IsChat(chat)
  BY DEF ChatGone, ChatInv
<1>2. chat'.at = "gone" /\ chat'.hasTools = chat.hasTools /\ chat'.multiFormat = chat.multiFormat
  BY <1>1 DEF IsChat, ChatFields
<1>3. QED
  BY <1>2 DEF ChatAnswered

-----------------------------------------------------------------------------
\* A reply that ended with a thought had nothing else.
LEMMA EndsThinking ==
  ASSUME Base, ThoughtsFirst, read > 0, body[read] = "t"
  PROVE  TextRead = <<>>
<1>1. Len(body) \in Nat /\ read \in 0 .. Len(body) /\ body \in Bodies /\ body \in Seq(Letter)
  BY TextFacts DEF Base
<1>2. \A i \in 1 .. read : body[i] = "t"
  <2> TAKE i \in 1 .. read
  <2>1. i \in DOMAIN body /\ read \in DOMAIN body /\ (i < read \/ i = read)
    BY <1>1
  <2>2. QED
    BY <1>1, <2>1 DEF ThoughtsFirst
<1>3. Texts[0 + read] = Texts[0]
  <2>1. 0 \in Nat /\ read \in Nat /\ 0 + read <= Len(body) /\ \A i \in (0 + 1) .. (0 + read) : body[i] = "t"
    BY <1>1, <1>2
  <2>2. QED
    BY <1>1, <2>1, ThoughtsAddNothing
<1>4. Texts[0] = <<>> /\ 0 + read = read
  BY <1>1, TextsAre
<1>5. QED
  BY <1>3, <1>4 DEF TextRead

LEMMA OnceTells ==
  ASSUME Base, OnceInv, Still, NEW how \in {"eof", "error"}, ending' = how, finish' = finish,
         NEW thinks \in BOOLEAN, thinks /\ ThoughtsFirst => TextRead = <<>>,
         OnceEnd(TextRead, thinks, how, Reason)
  PROVE  OnceAnswered' /\ once'.hasTools = once.hasTools /\ once'.multiFormat = once.multiFormat
<1> DEFINE content == Gathered(TextRead, thinks)
           tools == once.hasTools
           multi == once.multiFormat
           answer == Reply(content, tools, multi)
           resp == collectChatCompletion(content, how, Reason)
           truncated == once.hasTools /\ isTruncatedToolCallContent(content)
           to == CASE how = "error" -> "failed"
                   [] how # "error" /\ truncated -> IF 1 < continuationAttempts THEN "continuing" ELSE "failed"
                   [] OTHER -> "answered"
<1>0. TextRead \in Seq(Letter) /\ IsOnce(once) /\ Reason' = Reason /\ TextRead' = TextRead
  BY TextFacts DEF OnceInv, Reason, Still
<1>1. once' = [once EXCEPT !.attempt = 1, !.fullContent = content, !.resp = resp, !.at = to]
  BY DEF OnceEnd, Collected
<1>2. to = "continuing" => once.hasTools
  OBVIOUS
<1>3. how = "eof" => /\ resp.calls = answer.calls
                     /\ resp.finish = IF answer.calls # <<>> THEN "tool_calls" ELSE Reason
  <2> HIDE DEF content
  <2>1. how = "eof" => resp = Completion(answer, Reason)
    BY DEF collectChatCompletion
  <2> HIDE DEF answer, resp
  <2>2. QED
    BY <2>1 DEF Completion, Silence
<1>4. ~ tools => answer.calls = <<>>
  BY DEF Reply, Found
<1>5. ThoughtsFirst => answer.calls = Reply(TextRead, tools, multi).calls
  <2>1. CASE thinks
    <3> SUFFICES ASSUME ThoughtsFirst PROVE answer.calls = Reply(TextRead, tools, multi).calls
      OBVIOUS
    <3>1. TextRead = <<>>
      BY <2>1
    <3>2. content = <<"p">>
      BY <2>1, <3>1 DEF Gathered
    <3>3. QED
      BY <3>1, <3>2, NoCalls
  <2>2. CASE ~ thinks
    <3>1. content = TextRead
      BY <1>0, <2>2, ConcatEmptySeq DEF Gathered
    <3>2. QED
      BY <3>1
  <2>3. QED
    BY <2>1, <2>2
<1> HIDE DEF resp, to, content, answer
<1>6. /\ once'.hasTools = tools /\ once'.multiFormat = multi /\ once'.attempt = 1
      /\ once'.resp = resp /\ once'.at = to
  BY <1>0, <1>1 DEF IsOnce, OnceFields
<1>7. QED
  BY <1>0, <1>2, <1>3, <1>4, <1>5, <1>6 DEF OnceAnswered

LEMMA OnceTellsAgain ==
  ASSUME OnceInv, OnceAnswered, NEW reply, CollectAgain(reply)
  PROVE  OnceAnswered' /\ once'.hasTools = once.hasTools /\ once'.multiFormat = once.multiFormat
<1>0. IsOnce(once) /\ once.at = "continuing" /\ once.hasTools /\ once.attempt \in Nat /\ once.attempt >= 1
  BY AttemptsAssumption DEF OnceInv, OnceAnswered, CollectAgain
<1>1. PICK how : Collected(once.attempt + 1, drainStreamToText(reply), how, "stop")
  BY DEF CollectAgain
<1> DEFINE n == once.attempt + 1
           content == drainStreamToText(reply)
<1> HIDE DEF n, content
<1>2. PICK resp, to : once' = [once EXCEPT !.attempt = n, !.fullContent = content, !.resp = resp, !.at = to]
  BY <1>1 DEF Collected, n, content
<1>3. once'.hasTools = once.hasTools /\ once'.multiFormat = once.multiFormat /\ once'.attempt = n
  BY <1>0, <1>2 DEF IsOnce, OnceFields
<1>4. n # 1
  BY <1>0 DEF n
<1>5. QED
  BY <1>0, <1>3, <1>4 DEF OnceAnswered

LEMMA OnceTellsNothing ==
  ASSUME OnceInv, ending' = "gone", OnceGone
  PROVE  OnceAnswered' /\ once'.hasTools = once.hasTools /\ once'.multiFormat = once.multiFormat
<1>1. once' = [once EXCEPT !.at = "gone"] /\ IsOnce(once)
  BY DEF OnceGone, OnceInv
<1>2. once'.at = "gone" /\ once'.hasTools = once.hasTools /\ once'.multiFormat = once.multiFormat
  BY <1>1 DEF IsOnce, OnceFields
<1>3. QED
  BY <1>2 DEF OnceAnswered

-----------------------------------------------------------------------------
\* What the clients of the four handlers were told, together.
ToldInv == ReplyInv /\ ItemsInv /\ BlocksInv /\ Alike /\ ChatAnswered /\ OnceAnswered

LEMMA ToldInit == Init => ToldInv
<1> SUFFICES ASSUME Init PROVE ToldInv
  OBVIOUS
<1>1. ReplyInv
  BY ReplyInit
<1>2. read = 0 /\ ending = "none" /\ finish = "none" /\ Reason = "stop"
  BY DEF Init, Reason
<1>3. PICK f \in Features : /\ ChatInit(f[1], f[2]) /\ OnceInit(f[1], f[2])
                            /\ ClaudeInit(f[1], f[2]) /\ ResponsesInit(f[1], f[2])
  BY DEF Init
<1> DEFINE tools == f[1]
           multi == f[2]
           none == <<>>
<1>4. ChatInit(tools, multi) /\ OnceInit(tools, multi) /\ ClaudeInit(tools, multi) /\ ResponsesInit(tools, multi)
  BY <1>3
<1>5. none \in Seq(Event) /\ none \in Seq(Token) /\ none = <<>> /\ Len(none) = 0 /\ SubSeq(none, 1, 0) = none
  BY SubSeqEmpty
<1>6. Viewed(none) = View(-1, 0) /\ ~ Viewed(none).bad /\ \A kind : Data(none, kind) = none
  BY ViewedNothing, DataNothing DEF View
<1> HIDE DEF tools, multi, none
<1>7. ItemsInv
  <2>1. responses = [at |-> "reading", hasTools |-> tools, multiFormat |-> multi,
                     full |-> none, thinking |-> none, emittedLen |-> 0, triggered |-> FALSE,
                     inThinking |-> FALSE, thinkingStarted |-> FALSE, thinkingDone |-> FALSE,
                     messageStarted |-> FALSE, outputIdx |-> 0, doneText |-> none,
                     status |-> "in_progress", out |-> none]
    BY <1>4, <1>5 DEF ResponsesInit
  <2>2. /\ IsResponses(responses) /\ responses.at = "reading" /\ responses.full = none
        /\ responses.thinking = none /\ responses.emittedLen = 0
        /\ responses.thinkingStarted = FALSE /\ responses.thinkingDone = FALSE
        /\ responses.messageStarted = FALSE /\ responses.outputIdx = 0 /\ responses.out = none
    BY <2>1 DEF IsResponses, ResponsesFields
  <2>3. ItemsTyped(responses)
    <3>1. responses.out \in Seq(Event) /\ responses.thinking \in Seq(Token)
      BY <1>5, <2>2
    <3>2. responses.outputIdx \in Nat
      BY <2>2
    <3>3. /\ responses.thinkingStarted \in BOOLEAN /\ responses.thinkingDone \in BOOLEAN
          /\ responses.messageStarted \in BOOLEAN /\ ~ responses.thinkingDone
      BY <2>2
    <3>4. QED
      BY <2>2, <3>1, <3>2, <3>3 DEF ItemsTyped
  <2>6. ItemsRead(responses)
    <3>1. Data(none, "message") = none /\ Data(none, "function_call") = none
      BY <1>6
    <3>2. /\ Data(responses.out, "message") = none /\ Data(responses.out, "function_call") = none
          /\ SubSeq(responses.full, 1, responses.emittedLen) = none
          /\ responses.emittedLen = Len(responses.full)
      BY <1>5, <2>2, <3>1
    <3>3. QED
      BY <1>5, <2>2, <3>2 DEF ItemsRead
  <2>4. ItemsInOrder(responses) /\ ResponsesItemsInOrder
    BY <1>6, <2>2 DEF ItemsInOrder, Reasons, ResponsesItemsInOrder
  <2>5. QED
    BY <2>2, <2>3, <2>4, <2>6 DEF ItemsInv
<1>8. BlocksInv
  <2>1. claude = [at |-> "reading", hasTools |-> tools, multiFormat |-> multi,
                  full |-> none, emittedLen |-> 0, triggered |-> FALSE, inThinking |-> FALSE,
                  thinkingStarted |-> FALSE, textStarted |-> FALSE, textBlockIdx |-> 0,
                  stopReason |-> "end_turn", out |-> none]
    BY <1>4, <1>5 DEF ClaudeInit
  <2>2. /\ IsClaude(claude) /\ claude.at = "reading" /\ claude.full = none
        /\ claude.emittedLen = 0 /\ claude.thinkingStarted = FALSE
        /\ claude.textStarted = FALSE /\ claude.textBlockIdx = 0 /\ claude.out = none
        /\ claude.stopReason = "end_turn"
    BY <2>1 DEF IsClaude, ClaudeFields
  <2>3. BlocksTyped(claude)
    <3>1. claude.out \in Seq(Event) /\ claude.textBlockIdx \in Nat
      BY <1>5, <2>2
    <3>2. claude.thinkingStarted \in BOOLEAN /\ claude.textStarted \in BOOLEAN
      BY <2>2
    <3>3. QED
      BY <2>2, <3>1, <3>2 DEF BlocksTyped
  <2>8. BlocksRead(claude)
    <3>1. Data(none, "text") = none /\ Data(none, "tool_use") = none
      BY <1>6
    <3>2. /\ Data(claude.out, "text") = none /\ Data(claude.out, "tool_use") = none
          /\ SubSeq(claude.full, 1, claude.emittedLen) = none
          /\ claude.emittedLen = Len(claude.full)
      BY <1>5, <2>2, <3>1
    <3>3. QED
      BY <1>5, <2>2, <3>2 DEF BlocksRead
  <2>4. BlocksInOrder(claude)
    BY <1>6, <2>2 DEF BlocksInOrder
  <2>5. BlocksGood(claude)
    BY <2>2, <2>4, NoBlockIsBad
  <2>6. claude.stopReason = StopReason(Reason)
    BY <1>2, <2>2 DEF StopReason
  <2>7. QED
    BY <2>2, <2>3, <2>4, <2>5, <2>6, <2>8 DEF BlocksInv
<1>9. Alike /\ ChatAnswered /\ OnceAnswered
  <2>1. /\ chat.at = "reading" /\ chat.out.calls = <<>> /\ chat.resolving = <<>>
        /\ chat.upstreamFinish = "stop" /\ chat.multiFormat = multi /\ chat.hasTools = tools
    BY <1>4 DEF ChatInit, Silence
  <2>2. once.at = "reading" /\ once.multiFormat = multi /\ once.hasTools = tools
    BY <1>4 DEF OnceInit
  <2>3. claude.multiFormat = multi /\ claude.at = "reading"
    BY <1>4 DEF ClaudeInit
  <2>4. responses.multiFormat = multi /\ responses.at = "reading"
    BY <1>4 DEF ResponsesInit
  <2>5. QED
    BY <1>2, <2>1, <2>2, <2>3, <2>4 DEF Alike, ChatAnswered, OnceAnswered
<1>10. QED
  BY <1>1, <1>7, <1>8, <1>9 DEF ToldInv

\* An event told to the three streams.
LEMMA ToldHear ==
  ASSUME ToldInv, ReplyInv', NEW evt, Heard(evt), Early(evt), Timely(evt), once' = once,
         ChatEvent(evt), ClaudeEvent(evt), ResponsesEvent(evt)
  PROVE  ToldInv'
<1>0. /\ ChatInv /\ ClaudeInv /\ ResponsesInv /\ ItemsInv /\ BlocksInv /\ Alike /\ ChatAnswered /\ OnceAnswered
      /\ ending = "none" /\ ending' = "none" /\ ClaudeInv' /\ ResponsesInv'
  BY DEF ToldInv, ReplyInv, Heard
<1>1. ItemsInv' /\ responses'.multiFormat = responses.multiFormat
  BY <1>0, ItemsHear
<1>2. BlocksInv' /\ claude'.multiFormat = claude.multiFormat
  BY <1>0, BlocksHear
<1>3. ChatAnswered' /\ chat'.hasTools = chat.hasTools /\ chat'.multiFormat = chat.multiFormat
  BY <1>0, ChatTells
<1>4. claude'.at = "reading" /\ responses'.at = "reading"
  BY <1>0 DEF ClaudeInv, ResponsesInv
<1>5. Alike'
  BY <1>0, <1>1, <1>2, <1>3, <1>4 DEF Alike
<1>6. OnceAnswered'
  BY <1>0 DEF OnceAnswered
<1>7. QED
  BY <1>1, <1>2, <1>3, <1>5, <1>6 DEF ToldInv

LEMMA ToldNext == ToldInv /\ [Next]_vars => ToldInv'
<1> SUFFICES ASSUME ToldInv, [Next]_vars PROVE ToldInv'
  OBVIOUS
<1>0. /\ ReplyInv /\ Base /\ ChatInv /\ ClaudeInv /\ ResponsesInv /\ OnceInv
      /\ ItemsInv /\ BlocksInv /\ Alike /\ ChatAnswered /\ OnceAnswered
  BY DEF ToldInv, ReplyInv
<1>r. ReplyInv'
  BY <1>0, ReplyNext
<1>1. CASE Deliver
  <2>1. PICK n \in 1 .. Width, phase \in {"think", "answer", "other"} :
          LET cells == SubSeq(body, read + 1, read + n)
              evt == [phase |-> phase, cells |-> cells, finish |-> "none"]
          IN /\ read + n <= Len(body)
             /\ IF phase = "think" THEN Thought(cells) ELSE Answer(cells)
             /\ phase = "other" => Has(body, {"t"})
             /\ read' = read + n
             /\ ChatEvent(evt) /\ ClaudeEvent(evt) /\ ResponsesEvent(evt)
    BY <1>1 DEF Deliver
  <2> DEFINE cells == SubSeq(body, read + 1, read + n)
             evt == [phase |-> phase, cells |-> cells, finish |-> "none"]
  <2>2. /\ ending = "none" /\ finish = "none" /\ ending' = ending /\ body' = body /\ finish' = finish
        /\ read' = read + n /\ read + n <= Len(body) /\ once' = once
    BY <1>1, <2>1 DEF Deliver
  <2>3. Heard(evt)
    BY <1>0, <2>1, <2>2, DeliverIsHeard
  <2>4. ChatEvent(evt) /\ ClaudeEvent(evt) /\ ResponsesEvent(evt)
    BY <2>1
  <2>5. n \in Nat \ {0}
    BY WidthAssumption
  <2>6. Early(evt)
    <3> SUFFICES ASSUME phase = "think", ThoughtsFirst PROVE TextRead = <<>>
      BY DEF Early
    <3>1. Thought(SubSeq(body, read + 1, read + n))
      BY <2>1
    <3>2. QED
      BY <1>0, <2>2, <2>5, <3>1, ThoughtsAreEarly
  <2>7. cells # <<>>
    <3>1. body \in Seq(Letter) /\ Len(body) \in Nat /\ read \in 0 .. Len(body)
      BY <1>0, TextFacts DEF Base
    <3>2. read + 1 \in Int /\ read + n \in Int /\ (\A i \in read + 1 .. read + n : body[i] \in Letter)
          /\ read + 1 <= read + n /\ (read + n) - (read + 1) + 1 = n
      BY <2>2, <2>5, <3>1
    <3>3. Len(cells) = n
      BY <3>2, SubSeqProperties
    <3>4. QED
      BY <2>5, <3>3
  <2>8. Timely(evt)
    BY <2>2, <2>7 DEF Timely
  <2> HIDE DEF evt
  <2>9. QED
    BY <1>r, <2>2, <2>3, <2>4, <2>6, <2>8, ToldHear
<1>2. CASE FinishReason
  <2>1. PICK reason \in {"stop", "length"} :
          LET evt == [phase |-> "answer", cells |-> <<>>, finish |-> reason]
          IN /\ finish' = reason
             /\ ChatEvent(evt) /\ ClaudeEvent(evt) /\ ResponsesEvent(evt)
    BY <1>2 DEF FinishReason
  <2> DEFINE evt == [phase |-> "answer", cells |-> <<>>, finish |-> reason]
  <2>2. /\ ending = "none" /\ finish = "none" /\ ending' = ending /\ body' = body /\ finish' = reason
        /\ read' = read /\ once' = once
    BY <1>2, <2>1 DEF FinishReason
  <2>3. Heard(evt)
    BY <1>0, <2>2, ReasonIsHeard
  <2>4. ChatEvent(evt) /\ ClaudeEvent(evt) /\ ResponsesEvent(evt)
    BY <2>1
  <2>5. Early(evt) /\ Timely(evt)
    BY <2>2 DEF Early, Timely
  <2> HIDE DEF evt
  <2>6. QED
    BY <1>r, <2>2, <2>3, <2>4, <2>5, ToldHear
<1>3. CASE Over
  <2> DEFINE thinks == read > 0 /\ body[read] = "t" /\ finish = "none"
  <2>1. /\ ending = "none" /\ ending' \in {"eof", "error"} /\ body' = body /\ read' = read /\ finish' = finish
        /\ OnceEnd(TextRead, thinks, ending', Reason)
        /\ ChatEnd(ending') /\ ClaudeEnd(ending') /\ ResponsesEnd(ending')
    BY <1>3 DEF Over
  <2>2. Still
    BY <2>1, StillIs
  <2>3. thinks \in BOOLEAN /\ (thinks /\ ThoughtsFirst => TextRead = <<>>)
    BY <1>0, EndsThinking
  <2> HIDE DEF thinks
  <2>4. PICK how \in {"eof", "error"} : ending' = how
    BY <2>1
  <2>5. OnceEnd(TextRead, thinks, how, Reason) /\ ChatEnd(how) /\ ClaudeEnd(how) /\ ResponsesEnd(how)
    BY <2>1, <2>4
  <2>6. ItemsInv' /\ responses'.multiFormat = responses.multiFormat /\ responses'.at = "done"
    BY <1>0, <2>5, ItemsEnd
  <2>7. BlocksInv' /\ claude'.multiFormat = claude.multiFormat /\ claude'.at = "done"
    BY <1>0, <2>1, <2>4, <2>5, BlocksEnd
  <2>8. ChatAnswered' /\ chat'.hasTools = chat.hasTools /\ chat'.multiFormat = chat.multiFormat
    BY <1>0, <2>1, <2>4, <2>5, ChatTellsAll
  <2>9. OnceAnswered' /\ once'.hasTools = once.hasTools /\ once'.multiFormat = once.multiFormat
    BY <1>0, <2>1, <2>2, <2>3, <2>4, <2>5, OnceTells
  <2>10. Alike'
    BY <1>0, <2>4, <2>6, <2>7, <2>8, <2>9 DEF Alike
  <2>11. QED
    BY <1>r, <2>6, <2>7, <2>8, <2>9, <2>10 DEF ToldInv
<1>4. CASE Leave
  <2>1. ending' = "gone" /\ ChatGone /\ OnceGone /\ ClaudeGone /\ ResponsesGone
    BY <1>4 DEF Leave
  <2>2. ItemsInv' /\ responses'.multiFormat = responses.multiFormat /\ responses'.at = "gone"
    BY <1>0, <2>1, ItemsLeft
  <2>3. BlocksInv' /\ claude'.multiFormat = claude.multiFormat /\ claude'.at = "gone"
    BY <1>0, <2>1, BlocksLeft
  <2>4. ChatAnswered' /\ chat'.hasTools = chat.hasTools /\ chat'.multiFormat = chat.multiFormat
    BY <1>0, <2>1, ChatTellsNothing
  <2>5. OnceAnswered' /\ once'.hasTools = once.hasTools /\ once'.multiFormat = once.multiFormat
    BY <1>0, <2>1, OnceTellsNothing
  <2>6. Alike'
    BY <1>0, <2>1, <2>2, <2>3, <2>4, <2>5 DEF Alike
  <2>7. QED
    BY <1>r, <2>2, <2>3, <2>4, <2>5, <2>6 DEF ToldInv
<1>5. ASSUME claude' = claude, responses' = responses, body' = body, read' = read, ending' = ending,
             finish' = finish,
             ChatAnswered' /\ chat'.hasTools = chat.hasTools /\ chat'.multiFormat = chat.multiFormat,
             OnceAnswered' /\ once'.hasTools = once.hasTools /\ once'.multiFormat = once.multiFormat
      PROVE  ToldInv'
  <2>1. ItemsInv' /\ BlocksInv'
    BY <1>0, <1>5, ItemsWait, BlocksWait
  <2>2. Alike'
    BY <1>0, <1>5 DEF Alike
  <2>3. QED
    BY <1>r, <1>5, <2>1, <2>2 DEF ToldInv
<1>6. CASE Continue
  <2>1. /\ claude' = claude /\ responses' = responses /\ body' = body /\ read' = read
        /\ ending' = ending /\ finish' = finish
    BY <1>6 DEF Continue
  <2>2. TextRead' = TextRead /\ Reason' = Reason
    BY <2>1, StillIs DEF Still, Reason
  <2>3. CASE ((\E more \in Continuations : ContinueOnce(more)) \/ Resolved) /\ once' = once
    <3>1. ChatAnswered' /\ chat'.hasTools = chat.hasTools /\ chat'.multiFormat = chat.multiFormat
      BY <1>0, <2>3, ChatTellsLater
    <3>2. OnceAnswered'
      BY <1>0, <2>1, <2>2, <2>3 DEF OnceAnswered
    <3>3. QED
      BY <1>5, <2>1, <2>3, <3>1, <3>2
  <2>4. CASE (\E reply \in Continuations : CollectAgain(reply)) /\ chat' = chat
    <3>1. PICK reply \in Continuations : CollectAgain(reply)
      BY <2>4
    <3>2. OnceAnswered' /\ once'.hasTools = once.hasTools /\ once'.multiFormat = once.multiFormat
      BY <1>0, <3>1, OnceTellsAgain
    <3>3. ChatAnswered'
      BY <1>0, <2>1, <2>2, <2>4 DEF ChatAnswered
    <3>4. QED
      BY <1>5, <2>1, <2>4, <3>2, <3>3
  <2>5. QED
    BY <1>6, <2>3, <2>4 DEF Continue
<1>7. CASE UNCHANGED vars
  <2>1. /\ chat' = chat /\ once' = once /\ claude' = claude /\ responses' = responses
        /\ body' = body /\ read' = read /\ ending' = ending /\ finish' = finish
    BY <1>7 DEF vars
  <2>2. TextRead' = TextRead /\ Reason' = Reason
    BY <2>1, StillIs DEF Still, Reason
  <2>3. ChatAnswered' /\ OnceAnswered'
    BY <1>0, <2>1, <2>2 DEF ChatAnswered, OnceAnswered
  <2>4. QED
    BY <1>5, <2>1, <2>3
<1>8. QED
  BY <1>1, <1>2, <1>3, <1>4, <1>6, <1>7 DEF Next

-----------------------------------------------------------------------------
\* A reply the upstream broke off is told to be broken in all three streams unless a
\* call was read in it and passed on, also when a truncated call was continued before
\* the chat stream ended.
THEOREM CutToldUnlessCalls == Spec => []CutIsTold
<1>1. ToldInv => CutIsTold
  <2> SUFFICES ASSUME ToldInv, ending = "error" PROVE CutIsTold
    BY DEF CutIsTold
  <2>1. chat.at = "done" /\ chat.out.calls = <<>> => chat.out.finish = "length"
    BY DEF ToldInv, ReplyInv, ChatInv
  <2>2. responses.status = "incomplete"
    BY DEF ToldInv, ReplyInv, ResponsesInv
  <2>3. claude.at = "done"
    BY DEF ToldInv, ReplyInv, ClaudeInv, Alike
  <2>4. BlocksAnswered(claude, "error")
    BY <2>3 DEF ToldInv, BlocksInv
  <2>5. QED
    BY <2>1, <2>2, <2>4 DEF CutIsTold, BlocksAnswered
<1>2. QED
  BY <1>1, ToldInit, ToldNext, PTL DEF Spec

\* What is asked of a reply in the properties is Prompted of the text that was read.
LEMMA AsPromptedIs == AsPrompted /\ BeginsWithInk <=> Prompted(TextRead, chat.multiFormat)
<1> DEFINE text == TextRead
           multi == chat.multiFormat
<1>1. AsPrompted /\ BeginsWithInk <=>
                     /\ ~ Has(Lex(text), {"F", "i", "x", "h", "fn", "fc", "g"})
                     /\ multi => ~ Has(parseToolCallBlocks(Lex(text)).text, {"J", "n"})
                     /\ text # <<>> => Head(text) # "w"
  BY DEF AsPrompted, BeginsWithInk
<1> HIDE DEF text, multi
<1>2. QED
  BY <1>1 DEF Prompted, text, multi

\* Responses streams of replies whose thoughts all come before the text: the output
\* items come one at a time under successive indexes, and none is left open at the end.
THEOREM ResponsesItemsComeInOrder ==
  ASSUME ThoughtsFirst
  PROVE  Spec => []ResponsesItemsInOrder
<1>1. ToldInv => ResponsesItemsInOrder
  BY DEF ToldInv, ItemsInv
<1>2. QED
  BY <1>1, ToldInit, ToldNext, PTL DEF Spec

\* Claude streams of replies as prompted for that do not begin with white space, their
\* thoughts before the text: the content blocks come one at a time under successive indexes, and none is left open.
THEOREM ClaudeBlocksComeInOrder ==
  ASSUME ThoughtsFirst
  PROVE  Spec => []ClaudeBlocksInOrder
<1>1. ToldInv => ClaudeBlocksInOrder
  <2> SUFFICES ASSUME ToldInv, AsPrompted, BeginsWithInk PROVE ClaudeBlocksInOrder
    BY DEF ClaudeBlocksInOrder
  <2>1. BlocksGood(claude) /\ claude.full = TextRead /\ claude.multiFormat = chat.multiFormat
    BY DEF ToldInv, ReplyInv, BlocksInv, ClaudeInv, Follows, Alike
  <2>2. Prompted(claude.full, claude.multiFormat)
    BY <2>1, AsPromptedIs
  <2>3. QED
    BY <2>1, <2>2 DEF BlocksGood, ClaudeBlocksInOrder
<1>2. QED
  BY <1>1, ToldInit, ToldNext, PTL DEF Spec

\* The text deltas of a Responses message make up the text the message is done with, but
\* for white space at the end that had gone out before it was known to precede a call:
\* of every reply without a call, and of every one as prompted for that does not begin
\* with white space, however it is cut into events.
THEOREM ResponsesDeltasMakeTheText == Spec => []ResponsesDeltasAreTheText
<1>1. ToldInv => ResponsesDeltasAreTheText
  <2> SUFFICES ASSUME ToldInv, responses.at = "done",
                      Data(responses.out, "function_call") # <<>> => AsPrompted /\ BeginsWithInk
               PROVE  TrimRight(ResponsesText) = TrimRight(responses.doneText)
    BY DEF ResponsesDeltasAreTheText
  <2> DEFINE r == responses
             text == TextRead
             multi == r.multiFormat
             tools == r.hasTools
             e == r.emittedLen
             t == r.doneText
  <2>1. /\ Base /\ Follows(r) /\ ItemsAnswered(r) /\ multi = chat.multiFormat
    BY DEF ToldInv, ReplyInv, ResponsesInv, ItemsInv, Alike
  <2>2. text \in Seq(Letter)
    BY <2>1, TextFacts
  <2>3. r.full = text /\ e \in 0 .. Len(text)
    BY <2>1 DEF Follows
  <2>4. tools => e <= ToolCallStart(text)
    BY <2>1, SentBeforeMarker
  <2>5. Reply(text, tools, multi).calls # <<>> => Prompted(text, multi)
    BY <2>1, <2>3, AsPromptedIs DEF ItemsAnswered
  <2>6. t = Reply(text, tools, multi).text /\ ResponsesText = SubSeq(text, 1, e) \o SubSeq(t, e + 1, Len(t))
    BY <2>1, <2>3 DEF ItemsAnswered, ResponsesText
  <2> HIDE DEF r, text, multi, tools, e, t
  <2>7. TrimRight(SubSeq(text, 1, e) \o SubSeq(t, e + 1, Len(t))) = TrimRight(t)
    <3>1. CASE Reply(text, tools, multi).calls # <<>>
      BY <2>2, <2>3, <2>4, <2>5, <2>6, <3>1, DeltasMakeTheText
    <3>2. CASE Reply(text, tools, multi).calls = <<>>
      <4>1. t = text
        BY <2>6, <3>2 DEF Reply, AllTextUnless, Found
      <4>2. text \in Seq(Token) /\ Len(text) \in Nat
        BY <2>2, LettersAreTokens
      <4>3. SubSeq(text, 1, e) \o SubSeq(text, e + 1, Len(text)) = text
        BY <2>3, <4>2, SplitAt
      <4>4. QED
        BY <4>1, <4>3
    <3>3. QED
      BY <3>1, <3>2
  <2>8. QED
    BY <2>6, <2>7 DEF t, r
<1>2. QED
  BY <1>1, ToldInit, ToldNext, PTL DEF Spec

\* What the chat client was told of a reply the upstream ended, and the one answer.
LEMMA ChatAgrees ==
  ASSUME ToldInv, ThoughtsFirst, ending = "eof"
  PROVE  /\ chat.at = "done" /\ chat.resolving = <<>> /\ once.at = "answered" /\ once.attempt = 1 =>
              chat.out.calls = once.resp.calls
         /\ ~ chat.hasTools => chat.out.finish = once.resp.finish
<1> DEFINE answer == Reply(TextRead, chat.hasTools, chat.multiFormat)
           found == ParseWithFormats(TextRead, chat.multiFormat)
<1>1. /\ ChatInv /\ ChatAnswered /\ OnceAnswered /\ Alike
  BY DEF ToldInv, ReplyInv
<1>2. /\ chat.full = TextRead /\ once.hasTools = chat.hasTools /\ once.multiFormat = chat.multiFormat
      /\ chat.hasTools \in BOOLEAN /\ chat.at # "reading" /\ (chat.at = "resolving" => chat.hasTools)
      /\ chat.at \in {"reading", "resolving", "done", "gone"}
  BY <1>1 DEF ChatInv, Alike, Follows
<1>3. answer.calls = IF chat.hasTools THEN found.calls ELSE <<>>
  <2>1. chat.hasTools => answer = AllTextUnless(found, TextRead)
    BY DEF Reply
  <2>2. ~ chat.hasTools => answer = Found(<<>>, TextRead)
    BY DEF Reply
  <2> HIDE DEF answer, found
  <2>3. QED
    BY <1>2, <2>1, <2>2 DEF AllTextUnless, Found
<1>4. once.attempt = 1 => once.resp.calls = answer.calls
  BY <1>1, <1>2 DEF OnceAnswered
<1>5. ~ chat.hasTools => once.resp.finish = Reason
  BY <1>1, <1>2 DEF OnceAnswered
<1>6. /\ chat.at = "done" /\ chat.hasTools /\ chat.resolving = <<>> => chat.out.calls = found.calls
      /\ chat.at = "done" /\ ~ chat.hasTools => chat.out.calls = <<>> /\ chat.out.finish = Reason
  BY <1>1, <1>2 DEF ChatAnswered
<1> HIDE DEF answer, found
<1>7. ~ chat.hasTools => chat.at = "done"
  BY <1>1, <1>2 DEF ChatAnswered
<1>8. QED
  BY <1>2, <1>3, <1>4, <1>5, <1>6, <1>7

LEMMA ClaudeAgrees ==
  ASSUME ToldInv, ending = "eof",
         NEW message, message = aggregateClaudeResponse(<<>>, TextRead, claude.hasTools, claude.multiFormat, Reason)
  PROVE  Data(claude.out, "tool_use") = message.calls /\ claude.stopReason = message.stopReason
<1> DEFINE answer == Reply(TextRead, claude.hasTools, claude.multiFormat)
<1>1. claude.at = "done" /\ claude.full = TextRead /\ Base
  BY DEF ToldInv, ReplyInv, ClaudeInv, Follows, Alike
<1>2. BlocksAnswered(claude, Reason)
  BY <1>1 DEF ToldInv, BlocksInv
<1>3. Reason # "error"
  BY <1>1 DEF Reason, Base
<1>4. /\ Data(claude.out, "tool_use") = answer.calls
      /\ claude.stopReason = IF answer.calls # <<>> THEN "tool_use" ELSE StopReason(Reason)
  BY <1>1, <1>2, <1>3 DEF BlocksAnswered
<1>5. message = ClaudeMessage(<<>>, answer, Reason)
  BY DEF aggregateClaudeResponse
<1> HIDE DEF answer
<1>6. QED
  BY <1>4, <1>5 DEF ClaudeMessage

LEMMA ResponsesAgree ==
  ASSUME ToldInv, ending = "eof",
         NEW response, response = collectResponsesCompletion(<<>>, TextRead, responses.hasTools,
                                                             responses.multiFormat, ending)
  PROVE  Data(responses.out, "function_call") = response.calls /\ responses.doneText = response.text
<1> DEFINE answer == Reply(TextRead, responses.hasTools, responses.multiFormat)
<1>1. responses.at = "done" /\ responses.full = TextRead
  BY DEF ToldInv, ReplyInv, ResponsesInv, Follows, Alike
<1>2. ItemsAnswered(responses)
  BY <1>1 DEF ToldInv, ItemsInv
<1>3. /\ Data(responses.out, "function_call") = answer.calls /\ responses.doneText = answer.text
  BY <1>1, <1>2 DEF ItemsAnswered
<1>5. response = [thinking |-> <<>>, text |-> answer.text, calls |-> answer.calls,
                  status |-> IF ending = "error" THEN "error" ELSE "completed"]
  BY DEF collectResponsesCompletion
<1> HIDE DEF answer
<1>6. QED
  BY <1>3, <1>5

\* Whatever the reply, its thoughts before its text, and however it is cut into events:
\* once the upstream ended it, the client of a stream and the client of one answer are
\* told of the same calls, stop reason and text.
THEOREM StreamsAndAnswersAgree ==
  ASSUME ThoughtsFirst
  PROVE  Spec => []AnswersAgree
<1>1. ToldInv => AnswersAgree
  <2> SUFFICES ASSUME ToldInv PROVE AnswersAgree
    OBVIOUS
  <2> DEFINE message == aggregateClaudeResponse(<<>>, TextRead, claude.hasTools, claude.multiFormat, Reason)
             response == collectResponsesCompletion(<<>>, TextRead, responses.hasTools,
                                                    responses.multiFormat, ending)
  <2>1. ending = "eof" => Data(claude.out, "tool_use") = message.calls /\ claude.stopReason = message.stopReason
    BY ClaudeAgrees
  <2>2. ending = "eof" =>
          Data(responses.out, "function_call") = response.calls /\ responses.doneText = response.text
    BY ResponsesAgree
  <2>3. ending = "eof" =>
          /\ chat.at = "done" /\ chat.resolving = <<>> /\ once.at = "answered" /\ once.attempt = 1 =>
               chat.out.calls = once.resp.calls
          /\ ~ chat.hasTools => chat.out.finish = once.resp.finish
    BY ChatAgrees
  <2>4. QED
    BY <2>1, <2>2, <2>3 DEF AnswersAgree
<1>2. QED
  BY <1>1, ToldInit, ToldNext, PTL DEF Spec

=============================================================================
