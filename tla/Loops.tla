------------------------------- MODULE Loops -------------------------------
(***************************************************************************)
(* Facts about counting that the proofs of several components need.  The   *)
(* library's induction takes an operator as a parameter, which no prover   *)
(* here can instantiate; a set of numbers and its least element do as well.*)
(***************************************************************************)
EXTENDS Sieve, Integers, WellFoundedInduction, TLAPS

\* Some number of a set of numbers is the least.
LEMMA LeastIs ==
  ASSUME NEW S \in SUBSET Nat, S # {}
  PROVE  \E x \in S : \A y \in S : x <= y
<1>1. PICK m \in S : \A k \in S : ~ (<<k, m>> \in OpToRel(<, Nat))
  BY WFMin, NatLessThanWellFounded, Zenon
<1>2. \A k \in S : ~ (k < m)
  BY <1>1 DEF OpToRel
<1>3. QED
  BY <1>2

\* Counting up to n, in a set.
LEMMA Climb ==
  ASSUME NEW n \in Nat, NEW P, 0 \in P, \A k \in 1 .. n : k - 1 \in P => k \in P
  PROVE  \A k \in 0 .. n : k \in P
<1> DEFINE Stuck == {k \in 0 .. n : k \notin P}
<1>1. SUFFICES ASSUME Stuck # {} PROVE FALSE
  OBVIOUS
<1>2. Stuck \subseteq Nat
  OBVIOUS
<1>3. PICK m \in Stuck : \A k \in Stuck : ~ (<<k, m>> \in OpToRel(<, Nat))
  BY <1>1, <1>2, WFMin, NatLessThanWellFounded, Zenon
<1>4. \A k \in Stuck : ~ (k < m)
  BY <1>2, <1>3 DEF OpToRel
<1>5. m \in 0 .. n /\ m \notin P /\ m # 0
  OBVIOUS
<1>6. m \in 1 .. n /\ m - 1 \in 0 .. n /\ m - 1 < m
  BY <1>5
<1>7. m - 1 \in P
  BY <1>4, <1>6
<1>8. QED
  BY <1>5, <1>6, <1>7

\* A loop over n values has its result after every number of rounds.
Results(f, n, step, b, S) ==
  f \in [0 .. n -> S] /\ f[0] = b /\ \A i \in 1 .. n : f[i] = step[i][f[i - 1]]

LEMMA LoopRuns ==
  ASSUME NEW S, NEW b \in S, NEW n \in Nat, NEW step \in [1 .. n -> [S -> S]]
  PROVE  \E f : Results(f, n, step, b, S)
<1> DEFINE P == {m \in 0 .. n : \E f : Results(f, m, step, b, S)}
<1>1. 0 \in P
  <2> DEFINE f == [i \in 0 .. 0 |-> b]
  <2>1. Results(f, 0, step, b, S)
    BY DEF Results
  <2>2. QED
    BY <2>1
<1>2. ASSUME NEW m \in 1 .. n, m - 1 \in P PROVE m \in P
  <2>1. m \in Nat /\ m # 0 /\ m - 1 \in 0 .. n /\ m \in 0 .. n
    OBVIOUS
  <2>2. PICK f : Results(f, m - 1, step, b, S)
    BY <1>2
  <2> DEFINE g == [i \in 0 .. m |-> IF i = m THEN step[m][f[m - 1]] ELSE f[i]]
  <2>3. f \in [0 .. (m - 1) -> S] /\ f[0] = b /\ \A i \in 1 .. (m - 1) : f[i] = step[i][f[i - 1]]
    BY <2>2 DEF Results
  <2>4. f[m - 1] \in S
    BY <2>1, <2>3
  <2>5. step[m][f[m - 1]] \in S
    BY <2>1, <2>4
  <2>6. g \in [0 .. m -> S]
    BY <2>1, <2>3, <2>5
  <2>7. g[0] = b
    BY <2>1, <2>3
  <2>8. ASSUME NEW i \in 1 .. m PROVE g[i] = step[i][g[i - 1]]
    <3>1. g[i - 1] = f[i - 1]
      BY <2>1
    <3>2. CASE i = m
      <4>1. g[m] = step[m][f[m - 1]] /\ g[m - 1] = f[m - 1]
        BY <2>1
      <4>2. QED
        BY <3>2, <4>1
    <3>3. CASE i # m
      BY <2>1, <2>3, <3>1, <3>3
    <3>4. QED
      BY <3>2, <3>3
  <2>9. Results(g, m, step, b, S)
    BY <2>6, <2>7, <2>8 DEF Results
  <2>10. QED
    BY <2>1, <2>9
<1>3. \A k \in 0 .. n : k \in P
  <2> HIDE DEF P
  <2>1. QED
    BY <1>1, <1>2, Climb
<1>4. n \in 0 .. n
  OBVIOUS
<1>5. QED
  BY <1>3, <1>4

-----------------------------------------------------------------------------
\* The rounds of the filter Only, for any number of elements looked at.
Sifted(s, keep, f) ==
  /\ f[0] = <<>>
  /\ \A i \in 1 .. Len(s) : f[i] = IF s[i] \in keep THEN Append(f[i - 1], s[i]) ELSE f[i - 1]

LEMMA OnlyRounds ==
  ASSUME NEW S, NEW s \in Seq(S), NEW keep
  PROVE  \E f \in [0 .. Len(s) -> Seq(S)] : Sifted(s, keep, f) /\ Only(s, keep) = f[Len(s)]
<1> DEFINE n == Len(s)
           Round(k, i) == IF s[i] \in keep THEN Append(k, s[i]) ELSE k
           Loop(f) == [i \in 0 .. n |-> IF i = 0 THEN <<>>
                                        ELSE IF s[i] \in keep THEN Append(f[i - 1], s[i]) ELSE f[i - 1]]
           kept == CHOOSE f : f = Loop(f)
           step == [i \in 1 .. n |-> [k \in Seq(S) |-> Round(k, i)]]
<1>1. Only(s, keep) = kept[n]
  BY DEF Only
<1>2. n \in Nat /\ \A i \in 1 .. n : s[i] \in S
  OBVIOUS
<1>3. step \in [1 .. n -> [Seq(S) -> Seq(S)]]
  BY <1>2
<1>4. <<>> \in Seq(S)
  OBVIOUS
<1>5. \A i \in 1 .. n : \A k \in Seq(S) : step[i][k] = Round(k, i)
  OBVIOUS
<1> HIDE DEF step, n
<1>6. PICK f : Results(f, n, step, <<>>, Seq(S))
  BY <1>2, <1>3, <1>4, LoopRuns
<1>7. \A i \in 1 .. n : f[i] = Round(f[i - 1], i)
  <2> TAKE i \in 1 .. n
  <2>1. i - 1 \in 0 .. n
    BY <1>2
  <2>2. f[i - 1] \in Seq(S) /\ f[i] = step[i][f[i - 1]]
    BY <1>6, <2>1 DEF Results
  <2>3. QED
    BY <1>5, <2>2
<1>8. \A i \in 0 .. n : i # 0 => i \in 1 .. n
  BY <1>2
<1>9. f = Loop(f)
  BY <1>6, <1>7, <1>8 DEF Results
<1>10. kept = Loop(kept)
  BY <1>9
<1> HIDE DEF kept
<1>11. kept[0] = <<>> /\ \A i \in 1 .. n : kept[i] = Round(kept[i - 1], i)
  <2>1. 0 \in 0 .. n /\ \A i \in 1 .. n : i \in 0 .. n /\ i # 0
    BY <1>2
  <2>2. \A i \in 0 .. n : kept[i] = IF i = 0 THEN <<>> ELSE Round(kept[i - 1], i)
    BY <1>10
  <2>3. QED
    BY <2>1, <2>2
<1>12. \A i \in 0 .. n : kept[i] \in Seq(S)
  <2> DEFINE P == {i \in 0 .. n : kept[i] \in Seq(S)}
  <2>1. 0 \in 0 .. n /\ kept[0] = <<>>
    BY <1>2, <1>11
  <2>2. 0 \in P
    BY <1>4, <2>1
  <2>3. ASSUME NEW k \in 1 .. n, k - 1 \in P PROVE k \in P
    <3>1. kept[k - 1] \in Seq(S) /\ s[k] \in S /\ k \in 0 .. n
      BY <1>2, <2>3
    <3>2. Append(kept[k - 1], s[k]) \in Seq(S)
      BY <3>1
    <3>3. kept[k] \in Seq(S)
      BY <1>11, <3>1, <3>2
    <3>4. QED
      BY <3>1, <3>3
  <2> HIDE DEF P
  <2>4. \A i \in 0 .. n : i \in P
    BY <1>2, <2>2, <2>3, Climb
  <2>5. QED
    BY <2>4 DEF P
<1>13. kept \in [0 .. n -> Seq(S)]
  <2>1. kept = [i \in 0 .. n |-> kept[i]]
    BY <1>10
  <2>2. QED
    BY <1>12, <2>1
<1>14. Sifted(s, keep, kept)
  BY <1>11 DEF Sifted, n
<1>15. QED
  BY <1>1, <1>13, <1>14 DEF n

LEMMA OnlyNothing ==
  ASSUME NEW keep
  PROVE  Only(<<>>, keep) = <<>>
<1>1. <<>> \in Seq({}) /\ Len(<<>>) = 0
  OBVIOUS
<1> DEFINE none == <<>>
<1> HIDE DEF none
<1>2. none \in Seq({}) /\ Len(none) = 0
  BY <1>1 DEF none
<1>3. PICK f \in [0 .. Len(none) -> Seq({})] : Sifted(none, keep, f) /\ Only(none, keep) = f[Len(none)]
  BY <1>2, OnlyRounds
<1>4. Only(none, keep) = f[0] /\ f[0] = <<>>
  BY <1>2, <1>3 DEF Sifted
<1>5. QED
  BY <1>4 DEF none

\* The filter looks at one more element.
LEMMA OnlyOneMore ==
  ASSUME NEW S, NEW s \in Seq(S), NEW x \in S, NEW keep
  PROVE  Only(Append(s, x), keep) = IF x \in keep THEN Append(Only(s, keep), x) ELSE Only(s, keep)
<1> DEFINE t == Append(s, x)
           n == Len(s)
<1>1. /\ t \in Seq(S) /\ Len(t) = n + 1 /\ n \in Nat /\ t[n + 1] = x
      /\ \A i \in 1 .. n : t[i] = s[i]
  OBVIOUS
<1> HIDE DEF t, n
<1>2. PICK f \in [0 .. Len(s) -> Seq(S)] : Sifted(s, keep, f) /\ Only(s, keep) = f[Len(s)]
  BY OnlyRounds
<1>3. PICK g \in [0 .. Len(t) -> Seq(S)] : Sifted(t, keep, g) /\ Only(t, keep) = g[Len(t)]
  BY <1>1, OnlyRounds
<1>4. f[0] = <<>> /\ \A i \in 1 .. n : f[i] = IF s[i] \in keep THEN Append(f[i - 1], s[i]) ELSE f[i - 1]
  BY <1>2 DEF Sifted, n
<1>5. /\ g[0] = <<>>
      /\ \A i \in 1 .. n + 1 : g[i] = IF t[i] \in keep THEN Append(g[i - 1], t[i]) ELSE g[i - 1]
  BY <1>1, <1>3 DEF Sifted
<1> DEFINE P == {i \in 0 .. n : f[i] = g[i]}
<1>6. 0 \in P
  BY <1>1, <1>4, <1>5
<1>7. ASSUME NEW k \in 1 .. n, k - 1 \in P PROVE k \in P
  <2>1. k \in 0 .. n /\ k \in 1 .. n + 1 /\ t[k] = s[k] /\ f[k - 1] = g[k - 1]
    BY <1>1, <1>7
  <2>2. QED
    BY <1>4, <1>5, <2>1
<1>8. n \in P
  <2> HIDE DEF P
  <2>1. \A k \in 0 .. n : k \in P
    BY <1>1, <1>6, <1>7, Climb
  <2>2. QED
    BY <1>1, <2>1
<1>9. g[n + 1] = IF x \in keep THEN Append(g[n], x) ELSE g[n]
  <2>1. n + 1 \in 1 .. n + 1 /\ (n + 1) - 1 = n
    BY <1>1
  <2>2. QED
    BY <1>1, <1>5, <2>1
<1>10. Only(s, keep) = g[n] /\ Only(t, keep) = g[n + 1]
  BY <1>1, <1>2, <1>3, <1>8 DEF n
<1>11. QED
  BY <1>9, <1>10 DEF t

Elements(s) == {s[i] : i \in 1 .. Len(s)}

\* What the filter leaves is of the set, no longer than the list, and has just the
\* elements of the list that are in the set.
LEMMA OnlyKeeps ==
  ASSUME NEW S, NEW s \in Seq(S), NEW keep
  PROVE  /\ Only(s, keep) \in Seq(S) /\ Len(Only(s, keep)) <= Len(s)
         /\ Elements(Only(s, keep)) = Elements(s) \intersect keep
<1> DEFINE n == Len(s)
<1>1. PICK f \in [0 .. Len(s) -> Seq(S)] : Sifted(s, keep, f) /\ Only(s, keep) = f[Len(s)]
  BY OnlyRounds
<1>2. n \in Nat /\ \A i \in 1 .. n : s[i] \in S
  OBVIOUS
<1>3. /\ f[0] = <<>>
      /\ \A i \in 1 .. n : f[i] = IF s[i] \in keep THEN Append(f[i - 1], s[i]) ELSE f[i - 1]
      /\ \A i \in 0 .. n : f[i] \in Seq(S)
  BY <1>1 DEF Sifted
<1> DEFINE Fits(i) == Len(f[i]) <= i /\ Elements(f[i]) = {s[j] : j \in 1 .. i} \intersect keep
           P == {i \in 0 .. n : Fits(i)}
<1>4. 0 \in P
  <2>1. Len(f[0]) = 0 /\ Elements(f[0]) = {}
    BY <1>3 DEF Elements
  <2>2. {s[j] : j \in 1 .. 0} = {} /\ 0 \in 0 .. n
    BY <1>2
  <2>3. QED
    BY <2>1, <2>2
<1>5. ASSUME NEW k \in 1 .. n, k - 1 \in P PROVE k \in P
  <2> DEFINE a == f[k - 1]
             b == f[k]
  <2>1. /\ k \in Nat /\ k - 1 \in 0 .. n /\ k \in 0 .. n /\ a \in Seq(S) /\ s[k] \in S
        /\ b = IF s[k] \in keep THEN Append(a, s[k]) ELSE a
    BY <1>2, <1>3
  <2>2. Len(a) <= k - 1 /\ Elements(a) = {s[j] : j \in 1 .. (k - 1)} \intersect keep
    BY <1>5
  <2> HIDE DEF a, b
  <2>3. 1 .. k = 1 .. (k - 1) \union {k}
    BY <2>1
  <2>4. {s[j] : j \in 1 .. k} = {s[j] : j \in 1 .. (k - 1)} \union {s[k]}
    BY <2>3
  <2>5. Len(a) \in Nat /\ \A x \in S : /\ Len(Append(a, x)) = Len(a) + 1
                                        /\ Elements(Append(a, x)) = Elements(a) \union {x}
    <3>1. Len(a) \in Nat
      BY <2>1
    <3>2. ASSUME NEW x \in S
          PROVE Len(Append(a, x)) = Len(a) + 1 /\ Elements(Append(a, x)) = Elements(a) \union {x}
      <4> DEFINE t == Append(a, x)
      <4>1. Len(t) = Len(a) + 1 /\ t[Len(a) + 1] = x /\ \A i \in 1 .. Len(a) : t[i] = a[i]
        BY <2>1
      <4>2. 1 .. Len(a) + 1 = 1 .. Len(a) \union {Len(a) + 1}
        BY <3>1
      <4> HIDE DEF t
      <4>3. Elements(t) = {t[i] : i \in 1 .. Len(a)} \union {t[Len(a) + 1]}
        BY <4>1, <4>2 DEF Elements
      <4>4. {t[i] : i \in 1 .. Len(a)} = Elements(a)
        BY <4>1 DEF Elements
      <4>5. QED
        BY <4>1, <4>3, <4>4 DEF t
    <3>3. QED
      BY <3>1, <3>2
  <2>6. Len(b) <= k
    BY <2>1, <2>2, <2>5
  <2>7. Elements(b) = {s[j] : j \in 1 .. k} \intersect keep
    <3>1. CASE s[k] \in keep
      <4>1. Elements(b) = Elements(a) \union {s[k]}
        BY <2>1, <2>5, <3>1
      <4>2. QED
        BY <2>2, <2>4, <3>1, <4>1
    <3>2. CASE s[k] \notin keep
      <4>1. b = a
        BY <2>1, <3>2
      <4>2. QED
        BY <2>2, <2>4, <3>2, <4>1
    <3>3. QED
      BY <3>1, <3>2
  <2>8. QED
    BY <2>1, <2>6, <2>7 DEF b
<1>6. n \in P
  <2> HIDE DEF P
  <2>1. \A k \in 0 .. n : k \in P
    BY <1>2, <1>4, <1>5, Climb
  <2>2. QED
    BY <1>2, <2>1
<1>7. Len(f[n]) <= n /\ Elements(f[n]) = {s[j] : j \in 1 .. n} \intersect keep
  BY <1>6
<1>8. Only(s, keep) = f[n] /\ f[n] \in Seq(S)
  BY <1>1, <1>2, <1>3
<1>9. Elements(s) = {s[j] : j \in 1 .. n}
  BY DEF Elements
<1>10. QED
  BY <1>7, <1>8, <1>9

\* One list begins with another.
Extends(t, s) == Len(s) <= Len(t) /\ \A i \in 1 .. Len(s) : t[i] = s[i]

\* The filter has looked at more of the list and kept what it had.
LEMMA OnlyGrows ==
  ASSUME NEW S, NEW s \in Seq(S), NEW keep, NEW k \in 0 .. Len(s)
  PROVE  Extends(Only(s, keep), Only(SubSeq(s, 1, k), keep))
<1> DEFINE n == Len(s)
           first(j) == SubSeq(s, 1, j)
           some(j) == Only(first(j), keep)
<1>1. n \in Nat /\ k \in 0 .. n
  OBVIOUS
<1>2. ASSUME NEW j \in 0 .. n PROVE first(j) \in Seq(S) /\ Len(first(j)) = j
  BY <1>2
<1>3. ASSUME NEW j \in 1 .. n PROVE first(j) = Append(first(j - 1), s[j]) /\ s[j] \in S
  <2>1. first(j) \in Seq(S) /\ first(j - 1) \in Seq(S) /\ s[j] \in S
    BY <1>3
  <2>2. Len(first(j)) = j /\ Len(first(j - 1)) = j - 1
    BY <1>3
  <2>3. \A i \in 1 .. j : first(j)[i] = Append(first(j - 1), s[j])[i]
    BY <1>3
  <2>4. Append(first(j - 1), s[j]) \in Seq(S) /\ Len(Append(first(j - 1), s[j])) = j
    BY <2>1, <2>2
  <2> HIDE DEF first
  <2>5. QED
    BY <2>1, <2>2, <2>3, <2>4
<1> DEFINE P == {j \in 0 .. n : j >= k => Extends(some(j), some(k))}
<1>4. ASSUME NEW j \in 0 .. n PROVE some(j) \in Seq(S)
  <2> HIDE DEF first
  <2>1. QED
    BY <1>2, <1>4, OnlyKeeps
<1>5. ASSUME NEW j \in 1 .. n PROVE Extends(some(j), some(j - 1))
  <2>1. j - 1 \in 0 .. n /\ j \in 0 .. n
    BY <1>1, <1>5
  <2> HIDE DEF first
  <2>2. some(j) = IF s[j] \in keep THEN Append(some(j - 1), s[j]) ELSE some(j - 1)
    <3>1. first(j - 1) \in Seq(S) /\ s[j] \in S /\ first(j) = Append(first(j - 1), s[j])
      BY <1>2, <1>3, <2>1
    <3>2. Only(Append(first(j - 1), s[j]), keep)
            = IF s[j] \in keep THEN Append(Only(first(j - 1), keep), s[j]) ELSE Only(first(j - 1), keep)
      BY <3>1, OnlyOneMore
    <3>3. QED
      BY <3>1, <3>2
  <2> DEFINE a == some(j - 1)
  <2>3. a \in Seq(S) /\ s[j] \in S /\ (some(j) = a \/ some(j) = Append(a, s[j]))
    BY <1>3, <1>4, <2>1, <2>2
  <2> HIDE DEF a, some
  <2>4. Extends(a, a) /\ Extends(Append(a, s[j]), a)
    BY <2>3 DEF Extends
  <2>5. QED
    BY <2>3, <2>4 DEF a
<1> HIDE DEF some
<1>6. 0 \in P
  <2>1. 0 >= k => k = 0
    BY <1>1
  <2>2. some(0) \in Seq(S)
    BY <1>1, <1>4
  <2>3. Extends(some(0), some(0))
    BY <2>2 DEF Extends
  <2>4. QED
    BY <1>1, <2>1, <2>3
<1>7. ASSUME NEW j \in 1 .. n, j - 1 \in P PROVE j \in P
  <2>1. /\ j \in 0 .. n /\ j - 1 \in 0 .. n /\ k \in Nat /\ j \in Nat
        /\ some(j) \in Seq(S) /\ some(j - 1) \in Seq(S) /\ some(k) \in Seq(S)
    BY <1>1, <1>4, <1>7
  <2>2. CASE j = k
    <3>1. Extends(some(j), some(j))
      BY <2>1 DEF Extends
    <3>2. QED
      BY <2>1, <2>2, <3>1
  <2>3. CASE j < k
    BY <2>1, <2>3
  <2>4. CASE j > k
    <3>1. Extends(some(j), some(j - 1))
      BY <1>5
    <3>2. Extends(some(j - 1), some(k))
      BY <1>7, <2>1, <2>4
    <3>3. Extends(some(j), some(k))
      BY <2>1, <3>1, <3>2 DEF Extends
    <3>4. QED
      BY <2>1, <3>3
  <2>5. QED
    BY <2>1, <2>2, <2>3, <2>4
<1>8. n \in P
  <2> HIDE DEF P
  <2>1. \A j \in 0 .. n : j \in P
    BY <1>1, <1>6, <1>7, Climb
  <2>2. QED
    BY <1>1, <2>1
<1>9. Extends(some(n), some(k))
  BY <1>1, <1>8
<1>10. first(n) = s
  OBVIOUS
<1>11. QED
  BY <1>9, <1>10 DEF some

-----------------------------------------------------------------------------
\* A loop over the elements of a list: round says what an element makes of what the
\* elements before it made.
Rolls(f, s, round, b, S) ==
  /\ f \in [0 .. Len(s) -> S] /\ f[0] = b
  /\ \A i \in 1 .. Len(s) : f[i] = round[s[i]][f[i - 1]]

LEMMA RollRuns ==
  ASSUME NEW E, NEW S, NEW b \in S, NEW round \in [E -> [S -> S]], NEW s \in Seq(E)
  PROVE  \E f : Rolls(f, s, round, b, S)
<1> DEFINE n == Len(s)
           step == [i \in 1 .. n |-> round[s[i]]]
<1>1. n \in Nat /\ \A i \in 1 .. n : s[i] \in E
  OBVIOUS
<1>2. step \in [1 .. n -> [S -> S]] /\ \A i \in 1 .. n : step[i] = round[s[i]]
  BY <1>1
<1> HIDE DEF step
<1>3. PICK f : Results(f, n, step, b, S)
  BY <1>1, <1>2, LoopRuns
<1>4. QED
  BY <1>2, <1>3 DEF Results, Rolls

\* A function that goes round by round while what it has is of the set.
LEMMA RollTyped ==
  ASSUME NEW E, NEW S, NEW b \in S, NEW round \in [E -> [S -> S]], NEW s \in Seq(E),
         NEW f, f = [i \in 0 .. Len(s) |-> f[i]], f[0] = b,
         \A i \in 1 .. Len(s) : f[i - 1] \in S => f[i] = round[s[i]][f[i - 1]]
  PROVE  Rolls(f, s, round, b, S)
<1> DEFINE n == Len(s)
           P == {i \in 0 .. n : f[i] \in S}
<1>1. n \in Nat /\ \A i \in 1 .. n : s[i] \in E
  OBVIOUS
<1>2. 0 \in P
  BY <1>1
<1>3. ASSUME NEW k \in 1 .. n, k - 1 \in P PROVE k \in P
  <2>1. k \in 0 .. n /\ s[k] \in E /\ f[k - 1] \in S
    BY <1>1, <1>3
  <2>2. f[k] = round[s[k]][f[k - 1]]
    BY <2>1
  <2>3. QED
    BY <2>1, <2>2
<1>4. \A i \in 0 .. n : i \in P
  <2> HIDE DEF P
  <2>1. QED
    BY <1>1, <1>2, <1>3, Climb
<1>5. \A i \in 0 .. n : f[i] \in S
  BY <1>4
<1>6. f \in [0 .. n -> S]
  BY <1>5
<1>7. ASSUME NEW i \in 1 .. n PROVE f[i] = round[s[i]][f[i - 1]]
  <2>1. i - 1 \in 0 .. n
    BY <1>1
  <2>2. QED
    BY <1>5, <2>1
<1>8. QED
  BY <1>6, <1>7 DEF Rolls

\* One element more is one round more.
LEMMA RollMore ==
  ASSUME NEW E, NEW S, NEW b \in S, NEW round \in [E -> [S -> S]], NEW s \in Seq(E), NEW e \in E,
         NEW f, Rolls(f, s, round, b, S), NEW g, Rolls(g, Append(s, e), round, b, S)
  PROVE  g[Len(s) + 1] = round[e][f[Len(s)]]
<1> DEFINE t == Append(s, e)
           n == Len(s)
           P == {i \in 0 .. n : f[i] = g[i]}
<1>1. n \in Nat /\ Len(t) = n + 1 /\ t[n + 1] = e /\ \A i \in 1 .. n : t[i] = s[i]
  OBVIOUS
<1>2. f[0] = b /\ \A i \in 1 .. n : f[i] = round[s[i]][f[i - 1]]
  BY DEF Rolls
<1> HIDE DEF t
<1>3. g[0] = b /\ \A i \in 1 .. n + 1 : g[i] = round[t[i]][g[i - 1]]
  BY <1>1 DEF Rolls, t
<1>4. 0 \in P
  BY <1>1, <1>2, <1>3
<1>5. ASSUME NEW k \in 1 .. n, k - 1 \in P PROVE k \in P
  <2>1. k \in 0 .. n /\ k \in 1 .. n + 1 /\ f[k - 1] = g[k - 1] /\ t[k] = s[k]
    BY <1>1, <1>5
  <2>2. QED
    BY <1>2, <1>3, <2>1
<1>6. \A i \in 0 .. n : i \in P
  <2> HIDE DEF P
  <2>1. QED
    BY <1>1, <1>4, <1>5, Climb
<1>7. f[n] = g[n]
  BY <1>1, <1>6
<1>8. n + 1 \in 1 .. n + 1 /\ (n + 1) - 1 = n
  BY <1>1
<1>9. QED
  BY <1>1, <1>3, <1>7, <1>8

\* A list of n elements is put together from its first ones, one at a time.
LEMMA OneAtATime ==
  ASSUME NEW E, NEW s \in Seq(E), NEW k \in 1 .. Len(s)
  PROVE  /\ SubSeq(s, 1, k) = Append(SubSeq(s, 1, k - 1), s[k])
         /\ SubSeq(s, 1, k - 1) \in Seq(E) /\ s[k] \in E
<1> DEFINE a == SubSeq(s, 1, k)
           c == SubSeq(s, 1, k - 1)
<1>1. a \in Seq(E) /\ Len(a) = k /\ \A i \in 1 .. k : a[i] = s[i]
  OBVIOUS
<1>2. c \in Seq(E) /\ Len(c) = k - 1 /\ \A i \in 1 .. k - 1 : c[i] = s[i]
  OBVIOUS
<1>3. s[k] \in E
  OBVIOUS
<1> HIDE DEF a, c
<1> DEFINE d == Append(c, s[k])
<1>4. d \in Seq(E) /\ Len(d) = k /\ \A i \in 1 .. k : d[i] = s[i]
  BY <1>2, <1>3
<1> HIDE DEF d
<1>5. a = d
  BY <1>1, <1>4
<1>6. QED
  BY <1>2, <1>3, <1>5 DEF a, c, d

=============================================================================
