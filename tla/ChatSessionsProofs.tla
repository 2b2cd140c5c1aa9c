------------------------- MODULE ChatSessionsProofs -------------------------
(***************************************************************************)
(* What holds of the sessions for any callers, conversations, limits and   *)
(* number of restarts, whichever goroutine saves what when.                *)
(***************************************************************************)
EXTENDS ChatSessions, Loops, FiniteSetTheorems, SequenceTheorems, TLAPS

-----------------------------------------------------------------------------
\* Of sequences of units: what is in one, comes before what, and is not twice.
Unit == Callers \X Nat
Within(x, u) == \E n \in DOMAIN u : u[n] = x
Precedes(x, y, u) == \A a, b \in DOMAIN u : u[a] = x /\ u[b] = y => a < b
Distinct(u) == \A a, b \in DOMAIN u : u[a] = u[b] => a = b
Ordered(m, u) ==
  /\ \A i \in DOMAIN m : Within(m[i], u)
  /\ \A i, j \in DOMAIN m : i < j => Precedes(m[i], m[j], u)
TurnsOf(m) == {m[i][1] : i \in DOMAIN m}

\* Later sequences go on where the earlier ones were.
Grown(u, v) == DOMAIN u \subseteq DOMAIN v /\ Distinct(v) /\ \A n \in DOMAIN u : v[n] = u[n]

-----------------------------------------------------------------------------
\* A session as it may be in memory or in a file, given the requests, what they
\* stored and the time.
SessionFields == {"key", "summary", "messages", "turns", "updated"}
KeysOf(req) == {req[r].key : r \in Callers} \ {NoKey}
UnitsUnder(app, key) == IF Absent(app, key) THEN <<>> ELSE app[key]
OfKey(some, key, req) == some \subseteq Callers /\ \A q \in some : req[q].key = key

Good(s, req, app, now) ==
  /\ s = [x \in SessionFields |-> s[x]]
  /\ s.key \in KeysOf(req) /\ OfKey(s.summary, s.key, req)
  /\ s.messages \in Seq(Unit) /\ Ordered(s.messages, UnitsUnder(app, s.key))
  /\ s.turns \in Nat /\ s.updated \in 0 .. now

\* What a goroutine has read of a session that may since have gained and lost
\* messages: what it still may read of it goes on in order.
Partial(d, s, req, app) ==
  /\ d = [x \in SessionFields |-> d[x]]
  /\ d.key = s.key /\ OfKey(d.summary, d.key, req)
  /\ d.messages \in Seq(Unit) /\ Ordered(d.messages, UnitsUnder(app, d.key))
  /\ \A i \in DOMAIN d.messages, j \in DOMAIN s.messages :
       j > Len(d.messages) => Precedes(d.messages[i], s.messages[j], UnitsUnder(app, d.key))

-----------------------------------------------------------------------------
RequestFields == {"pc", "asked", "msgs", "key", "sess", "prefix", "current", "batch"}
Keyed == {"create", "append", "turn", "trim", "count", "due", "summarise"}
Stored == {"turn", "trim", "count", "due", "summarise", "done"}
Locked == {"turn", "trim"}

RequestOK(q, req, obj) ==
  /\ q = [x \in RequestFields |-> q[x]]
  /\ q.pc \in {"idle", "prompt"} \cup Keyed \cup Stored
  /\ q.pc = "idle" => q.key = NoKey /\ q.sess = None
  /\ q.msgs \in Seq(Message) /\ q.batch \in Nat
  /\ q.key # NoKey => q.key = HashMessages(q.msgs, Model)
  /\ q.pc \in Keyed => q.key # NoKey
  /\ q.sess # None => q.pc = "prompt" /\ q.key # NoKey /\ q.sess \in Objects /\ obj[q.sess].key = q.key
  /\ OfKey(q.prefix, q.key, req) /\ OfKey(q.current, q.key, req)
  /\ q.key = NoKey => q.prefix = {} /\ q.current = {}

RequestInv ==
  /\ request = [r \in Callers |-> request[r]]
  /\ \A r \in Callers : RequestOK(request[r], request, object)

\* The lock is held from the first assignment of an append to the last.
LockInv ==
  /\ lock \in Callers \cup {None}
  /\ \A r \in Callers : request[r].pc \in Locked <=> lock = r
  /\ \A r \in Callers : request[r].pc \in Locked => request[r].key \in DOMAIN sessions

MapInv ==
  /\ dataDir \in DataDirs /\ clock \in Nat /\ loaded \in Nat
  /\ object = [o \in Objects |-> object[o]]
  /\ IsFiniteSet(DOMAIN sessions)
  /\ Cardinality(DOMAIN sessions) <= maxSessions \/ Cardinality(DOMAIN sessions) <= loaded
  /\ \A k \in DOMAIN sessions : sessions[k] \in Objects /\ object[sessions[k]].key = k

Referenced == Pointers \cup {sessions[k] : k \in DOMAIN sessions} \cup {writer[w].obj : w \in Writers}

HeapInv ==
  \A o \in Referenced \ {None} : o \in Objects /\ Good(object[o], request, appended, clock)

\* Each caller starts one goroutine of a kind.
Started(w, req) ==
  req[w[1]].pc \in IF w[2] = "append" THEN Stored \ Locked ELSE {"done"}
WriterFields == {"pc", "obj", "count", "data", "inode"}
Saving == {"write", "rename"}

WriterOK(w, v, req, app, now, obj) ==
  /\ v = [x \in WriterFields |-> v[x]]
  /\ v.pc \in {"idle", "begin", "element"} \cup Saving
  /\ v.pc # "idle" => v.obj # None /\ Started(w, req)
  /\ v.pc = "element" => Partial(v.data, obj[v.obj], req, app)
  /\ v.pc \in Saving => v.inode \in Inodes /\ Good(v.data, req, app, now)

WriterInv ==
  /\ writer = [w \in Writers |-> writer[w]]
  /\ \A w \in Writers : WriterOK(w, writer[w], request, appended, clock, object)

\* An inode is in use for a key: it is its file, its temporary file, or open for it.
Uses(i, k) ==
  \/ k \in DOMAIN path /\ path[k] = i
  \/ k \in DOMAIN tmp /\ tmp[k] = i
  \/ \E w \in Writers : writer[w].pc \in Saving /\ writer[w].inode = i /\ writer[w].data.key = k

FileInv ==
  /\ DOMAIN path \subseteq KeysOf(request) /\ DOMAIN tmp \subseteq KeysOf(request)
  /\ IsFiniteSet(DOMAIN path)
  /\ \A k \in DOMAIN path : path[k] \in Inodes
  /\ \A k \in DOMAIN tmp : tmp[k] \in Inodes
  /\ inode = [i \in Inodes |-> inode[i]]
  /\ \A i \in Inodes : Readable(inode[i]) => Good(inode[i], request, appended, clock)
  /\ \A i \in Inodes : \A k, l : Uses(i, k) /\ Uses(i, l) => k = l
  /\ \A i \in Inodes : \A k : Uses(i, k) =>
       /\ Readable(inode[i]) => inode[i].key = k
       /\ writer[i].pc \notin {"begin", "element"} /\ Started(i, request)

AppendedInv ==
  \A k \in DOMAIN appended :
    /\ appended[k] \in Seq(Unit) /\ Distinct(appended[k])
    /\ \A n \in DOMAIN appended[k] : request[appended[k][n][1]].pc \in Stored

SessionsInv == RequestInv /\ LockInv /\ MapInv /\ HeapInv /\ WriterInv /\ FileInv /\ AppendedInv

-----------------------------------------------------------------------------
\* What a session holds it goes on holding, in the same order.
LEMMA WithinGrows ==
  ASSUME NEW u, NEW v, Grown(u, v), NEW x, Within(x, u)
  PROVE  Within(x, v)
BY DEF Grown, Within

LEMMA PrecedesGrows ==
  ASSUME NEW u, NEW v, Grown(u, v), NEW x, NEW y, Within(x, u), Within(y, u), Precedes(x, y, u)
  PROVE  Precedes(x, y, v)
<1> SUFFICES ASSUME NEW a \in DOMAIN v, NEW b \in DOMAIN v, v[a] = x, v[b] = y PROVE a < b
  BY DEF Precedes
<1>1. PICK c \in DOMAIN u : u[c] = x
  BY DEF Within
<1>2. PICK d \in DOMAIN u : u[d] = y
  BY DEF Within
<1>3. a = c /\ b = d
  BY <1>1, <1>2 DEF Grown, Distinct
<1>4. QED
  BY <1>1, <1>2, <1>3 DEF Precedes

LEMMA OrderedGrows ==
  ASSUME NEW u, NEW v, Grown(u, v), NEW m, Ordered(m, u)
  PROVE  Ordered(m, v)
<1>1. \A i \in DOMAIN m : Within(m[i], u) /\ Within(m[i], v)
  BY WithinGrows DEF Ordered
<1>2. \A i, j \in DOMAIN m : i < j => Precedes(m[i], m[j], v)
  <2> TAKE i, j \in DOMAIN m
  <2> SUFFICES ASSUME i < j PROVE Precedes(m[i], m[j], v)
    OBVIOUS
  <2>1. Precedes(m[i], m[j], u)
    BY DEF Ordered
  <2>2. QED
    BY <1>1, <2>1, PrecedesGrows
<1>3. QED
  BY <1>1, <1>2 DEF Ordered

LEMMA TurnsFinite ==
  ASSUME NEW m \in Seq(Unit)
  PROVE  IsFiniteSet(TurnsOf(m)) /\ Cardinality(TurnsOf(m)) \in Nat
<1>1. Len(m) \in Nat /\ DOMAIN m = 1 .. Len(m)
  OBVIOUS
<1>2. IsFiniteSet(1 .. Len(m))
  BY <1>1, FS_Interval
<1> DEFINE f == [i \in 1 .. Len(m) |-> m[i][1]]
<1>3. f \in Surjection(1 .. Len(m), TurnsOf(m))
  BY <1>1 DEF TurnsOf, Surjection
<1>4. QED
  BY <1>2, <1>3, FS_Surjection, FS_CardinalityType

\* Time passes, requests keep their keys and what they are done with, what is
\* stored under a key goes on where it was.
Onward(q, p) ==
  /\ q.key # NoKey => p.key = q.key
  /\ q.pc \in Stored => p.pc \in Stored
  /\ q.pc \in Stored \ Locked => p.pc \in Stored \ Locked
  /\ q.pc = "done" => p.pc = "done"
Forth(req, req2, app, app2, now, now2) ==
  /\ now \in Nat /\ now2 \in Nat /\ now <= now2
  /\ \A r \in Callers : Onward(req[r], req2[r])
  /\ \A key : Grown(UnitsUnder(app, key), UnitsUnder(app2, key))

LEMMA KeysStay ==
  ASSUME NEW req, NEW req2, NEW app, NEW app2, NEW now, NEW now2, Forth(req, req2, app, app2, now, now2)
  PROVE  KeysOf(req) \subseteq KeysOf(req2)
BY DEF Forth, Onward, KeysOf

LEMMA OfKeyStays ==
  ASSUME NEW req, NEW req2, NEW app, NEW app2, NEW now, NEW now2, Forth(req, req2, app, app2, now, now2),
         NEW some, NEW key, key # NoKey, OfKey(some, key, req)
  PROVE  OfKey(some, key, req2)
BY DEF Forth, Onward, OfKey

LEMMA StartedStays ==
  ASSUME NEW req, NEW req2, NEW app, NEW app2, NEW now, NEW now2, Forth(req, req2, app, app2, now, now2),
         NEW w \in Writers, Started(w, req)
  PROVE  Started(w, req2)
<1>1. w[1] \in Callers
  BY DEF Writers
<1>2. CASE w[2] = "append"
  BY <1>1, <1>2 DEF Forth, Onward, Started
<1>3. CASE w[2] # "append"
  BY <1>1, <1>3 DEF Forth, Onward, Started
<1>4. QED
  BY <1>2, <1>3

LEMMA GoodStays ==
  ASSUME NEW req, NEW req2, NEW app, NEW app2, NEW now, NEW now2, Forth(req, req2, app, app2, now, now2),
         NEW s, Good(s, req, app, now)
  PROVE  Good(s, req2, app2, now2)
<1>0. KeysOf(req) \subseteq KeysOf(req2)
  BY KeysStay
<1>1. s.key \in KeysOf(req) /\ s.key \in KeysOf(req2) /\ s.key # NoKey
  BY <1>0 DEF Good, KeysOf
<1>2. OfKey(s.summary, s.key, req2)
  BY <1>1, OfKeyStays DEF Good
<1>3. Ordered(s.messages, UnitsUnder(app2, s.key))
  BY OrderedGrows DEF Good, Forth
<1>4. s.updated \in 0 .. now2
  BY DEF Good, Forth
<1>5. QED
  BY <1>1, <1>2, <1>3, <1>4 DEF Good

LEMMA PartialStays ==
  ASSUME NEW req, NEW req2, NEW app, NEW app2, NEW now, NEW now2, Forth(req, req2, app, app2, now, now2),
         NEW s, Good(s, req, app, now), NEW d, Partial(d, s, req, app)
  PROVE  Partial(d, s, req2, app2)
<1> DEFINE u == UnitsUnder(app, d.key)
           v == UnitsUnder(app2, d.key)
<1>1. d.key = s.key /\ d.key # NoKey /\ Grown(u, v) /\ Ordered(d.messages, u) /\ Ordered(s.messages, u)
  BY DEF Good, Partial, KeysOf, Forth
<1>2. OfKey(d.summary, d.key, req2)
  BY <1>1, OfKeyStays DEF Partial
<1>3. \A i \in DOMAIN d.messages, j \in DOMAIN s.messages :
        j > Len(d.messages) => Precedes(d.messages[i], s.messages[j], u)
  BY DEF Partial
<1> HIDE DEF u, v
<1>4. Ordered(d.messages, v)
  BY <1>1, OrderedGrows
<1>5. \A i \in DOMAIN d.messages, j \in DOMAIN s.messages :
        j > Len(d.messages) => Precedes(d.messages[i], s.messages[j], v)
  <2> TAKE i \in DOMAIN d.messages
  <2> TAKE j \in DOMAIN s.messages
  <2> SUFFICES ASSUME j > Len(d.messages) PROVE Precedes(d.messages[i], s.messages[j], v)
    OBVIOUS
  <2>1. Within(d.messages[i], u) /\ Within(s.messages[j], u)
    BY <1>1 DEF Ordered
  <2>2. QED
    BY <1>1, <1>3, <2>1, PrecedesGrows
<1>6. QED
  BY <1>2, <1>4, <1>5 DEF Partial, v

-----------------------------------------------------------------------------
\* What the chat handler makes of messages is messages.
LEMMA MaxIs ==
  ASSUME NEW n \in Nat, NEW S \in SUBSET (0 .. n), S # {}
  PROVE  Max(S) \in S
<1> DEFINE Below == {n - x : x \in S}
<1>1. Below # {} /\ Below \subseteq Nat
  <2>1. \A x \in S : n - x \in Nat
    OBVIOUS
  <2>2. PICK x \in S : TRUE
    OBVIOUS
  <2>3. n - x \in Below
    OBVIOUS
  <2>4. QED
    BY <2>1, <2>3
<1>2. PICK m \in Below : \A k \in Below : ~ (<<k, m>> \in OpToRel(<, Nat))
  BY <1>1, WFMin, NatLessThanWellFounded, Zenon
<1>3. \A k \in Below : ~ (k < m)
  BY <1>1, <1>2 DEF OpToRel
<1>4. PICK x \in S : m = n - x
  OBVIOUS
<1>5. \A y \in S : x >= y
  <2> TAKE y \in S
  <2>1. ~ (n - y < n - x)
    BY <1>3, <1>4
  <2>2. QED
    BY <2>1
<1>6. QED
  BY <1>5 DEF Max

LEMMA AtIsMessages ==
  ASSUME NEW msgs \in Seq(Message), NEW places
  PROVE  At(msgs, places) \in Seq(Message)
<1> DEFINE n == Len(msgs)
           Round(s, i) == IF i \in places THEN Append(s, msgs[i]) ELSE s
           Loop(f) == [i \in 0 .. n |-> IF i = 0 THEN <<>>
                                        ELSE IF i \in places THEN Append(f[i - 1], msgs[i]) ELSE f[i - 1]]
           at == CHOOSE f : f = Loop(f)
           step == [i \in 1 .. n |-> [s \in Seq(Message) |-> Round(s, i)]]
<1>1. At(msgs, places) = at[n]
  BY DEF At
<1>2. n \in Nat /\ \A i \in 1 .. n : msgs[i] \in Message
  OBVIOUS
<1>3. step \in [1 .. n -> [Seq(Message) -> Seq(Message)]]
  BY <1>2
<1>4. <<>> \in Seq(Message)
  OBVIOUS
<1>5. \A i \in 1 .. n : \A s \in Seq(Message) : step[i][s] = Round(s, i)
  OBVIOUS
<1> HIDE DEF step, n
<1>6. PICK f : Results(f, n, step, <<>>, Seq(Message))
  BY <1>2, <1>3, <1>4, LoopRuns
<1>7. \A i \in 1 .. n : f[i] = Round(f[i - 1], i)
  <2> TAKE i \in 1 .. n
  <2>1. i - 1 \in 0 .. n
    BY <1>2
  <2>2. f[i - 1] \in Seq(Message) /\ f[i] = step[i][f[i - 1]]
    BY <1>6, <2>1 DEF Results
  <2>3. QED
    BY <1>5, <2>2
<1>8. \A i \in 0 .. n : i # 0 => i \in 1 .. n
  BY <1>2
<1>9. f = Loop(f)
  BY <1>6, <1>7, <1>8 DEF Results
<1>10. at = Loop(at)
  BY <1>9
<1> HIDE DEF at
<1>11. at[0] = <<>> /\ \A i \in 1 .. n : at[i] = Round(at[i - 1], i)
  <2>1. 0 \in 0 .. n /\ \A i \in 1 .. n : i \in 0 .. n /\ i # 0
    BY <1>2
  <2>2. \A i \in 0 .. n : at[i] = IF i = 0 THEN <<>> ELSE Round(at[i - 1], i)
    BY <1>10
  <2>3. QED
    BY <2>1, <2>2
<1> DEFINE P == {i \in 0 .. n : at[i] \in Seq(Message)}
<1>12. 0 \in P
  <2>1. 0 \in 0 .. n /\ at[0] \in Seq(Message)
    BY <1>2, <1>4, <1>11
  <2>2. QED
    BY <2>1
<1>13. ASSUME NEW k \in 1 .. n, k - 1 \in P PROVE k \in P
  <2>1. at[k - 1] \in Seq(Message) /\ msgs[k] \in Message /\ k \in 0 .. n
    BY <1>2, <1>13
  <2>2. Append(at[k - 1], msgs[k]) \in Seq(Message)
    BY <2>1
  <2>3. at[k] \in Seq(Message)
    BY <1>11, <2>1, <2>2
  <2>4. QED
    BY <2>1, <2>3
<1>14. n \in 0 .. n
  BY <1>2
<1>15. n \in P
  <2> HIDE DEF P
  <2>1. QED
    BY <1>2, <1>12, <1>13, <1>14, Climb
<1>16. QED
  BY <1>1, <1>15

LEMMA ShapedIsMessages ==
  ASSUME NEW msgs \in Seq(Message)
  PROVE  Shaped(msgs, contextWindow) \in Seq(Message)
<1> DEFINE isolated == applyTopicIsolation(msgs)
<1>1. isolated \in Seq(Message)
  <2>1. CASE isolated = msgs
    BY <2>1
  <2>2. CASE /\ Cardinality(Users(msgs)) >= 2
             /\ isolated = Append(At(msgs, Systems(msgs)), msgs[Max(Users(msgs))])
    <3>1. Users(msgs) # {}
      <4>1. Cardinality(Users(msgs)) >= 2
        BY <2>2
      <4>2. Users(msgs) = {} => Cardinality(Users(msgs)) = 0
        BY FS_EmptySet
      <4>3. QED
        BY <4>1, <4>2
    <3>2. Len(msgs) \in Nat /\ Users(msgs) \in SUBSET (0 .. Len(msgs)) /\ Users(msgs) \subseteq DOMAIN msgs
      BY DEF Users
    <3>3. Max(Users(msgs)) \in DOMAIN msgs
      BY <3>1, <3>2, MaxIs
    <3>4. At(msgs, Systems(msgs)) \in Seq(Message)
      BY AtIsMessages
    <3>5. QED
      BY <2>2, <3>3, <3>4
  <2>3. QED
    BY <2>1, <2>2 DEF applyTopicIsolation
<1> HIDE DEF isolated
<1> DEFINE limit == (contextWindow * 8) \div 10
           others == At(isolated, DOMAIN isolated \ Systems(isolated))
           counts == {k \in 0 .. Len(others) : k <= 1 \/ Total(Latest(others, k)) <= (limit * 6) \div 10}
           keep == Max(counts)
           middle == SubSeq(others, 1, Len(others) - keep)
<1>2. others \in Seq(Message) /\ At(isolated, Systems(isolated)) \in Seq(Message)
  BY <1>1, AtIsMessages
<1>3. Shaped(msgs, contextWindow) \in {isolated,
        At(isolated, Systems(isolated)) \o <<ContextSummary(middle)>> \o Latest(others, keep)}
  BY DEF Shaped, AutoCompact, KeepCount, isolated
<1> HIDE DEF others
<1>4. keep \in 0 .. Len(others)
  <2>1. Len(others) \in Nat
    BY <1>2
  <2>2. counts \in SUBSET (0 .. Len(others)) /\ 0 \in counts
    BY <2>1
  <2> HIDE DEF counts
  <2>3. QED
    BY <2>1, <2>2, MaxIs
<1> HIDE DEF keep
<1>5. Latest(others, keep) \in Seq(Message)
  <2>1. /\ Len(others) - keep + 1 \in Int /\ Len(others) \in Int
        /\ \A i \in Len(others) - keep + 1 .. Len(others) : others[i] \in Message
    BY <1>2, <1>4
  <2>2. QED
    BY <2>1, SubSeqProperties DEF Latest
<1>6. middle \in Seq(Message)
  <2>1. /\ 1 \in Int /\ Len(others) - keep \in Int
        /\ \A i \in 1 .. Len(others) - keep : others[i] \in Message
    BY <1>2, <1>4
  <2>2. QED
    BY <2>1, SubSeqProperties
<1> HIDE DEF middle
<1>7. ContextSummary(middle) \in Message
  <2>1. Len(middle) \in Nat
    BY <1>6
  <2>2. QED
    BY <2>1, TextAssumption DEF ContextSummary, Message
<1> DEFINE last == Latest(others, keep)
           one == <<ContextSummary(middle)>>
<1>8. one \in Seq(Message)
  BY <1>7
<1> HIDE DEF last, one
<1>9. At(isolated, Systems(isolated)) \o one \o last \in Seq(Message)
  BY <1>2, <1>5, <1>8, ConcatProperties DEF last
<1>10. QED
  BY <1>1, <1>3, <1>9 DEF last, one

LEMMA RequestStays ==
  ASSUME NEW req, NEW req2, NEW app, NEW app2, NEW now, NEW now2, Forth(req, req2, app, app2, now, now2),
         NEW q, NEW obj, NEW obj2, RequestOK(q, req, obj),
         q.sess # None => obj2[q.sess].key = obj[q.sess].key
  PROVE  RequestOK(q, req2, obj2)
<1>1. OfKey(q.prefix, q.key, req2) /\ OfKey(q.current, q.key, req2)
  <2>1. CASE q.key # NoKey
    BY <2>1, OfKeyStays DEF RequestOK
  <2>2. CASE q.key = NoKey
    BY <2>2 DEF RequestOK, OfKey
  <2>3. QED
    BY <2>1, <2>2
<1>2. QED
  BY <1>1 DEF RequestOK

LEMMA WriterStays ==
  ASSUME NEW req, NEW req2, NEW app, NEW app2, NEW now, NEW now2, Forth(req, req2, app, app2, now, now2),
         NEW w \in Writers, NEW v, NEW obj, NEW obj2, WriterOK(w, v, req, app, now, obj),
         v.obj # None => Good(obj[v.obj], req, app, now),
         v.pc = "element" => obj2[v.obj] = obj[v.obj] \/ Partial(v.data, obj2[v.obj], req2, app2)
  PROVE  WriterOK(w, v, req2, app2, now2, obj2)
<1>1. v.pc # "idle" => v.obj # None /\ Started(w, req2)
  BY StartedStays DEF WriterOK
<1>2. v.pc = "element" => Partial(v.data, obj2[v.obj], req2, app2)
  <2> SUFFICES ASSUME v.pc = "element", obj2[v.obj] = obj[v.obj]
               PROVE  Partial(v.data, obj2[v.obj], req2, app2)
    OBVIOUS
  <2>1. Good(obj[v.obj], req, app, now) /\ Partial(v.data, obj[v.obj], req, app)
    BY DEF WriterOK
  <2>2. Partial(v.data, obj[v.obj], req2, app2)
    BY <2>1, PartialStays
  <2>3. QED
    BY <2>2
<1>3. v.pc \in Saving => Good(v.data, req2, app2, now2)
  BY GoodStays DEF WriterOK
<1>4. QED
  BY <1>1, <1>2, <1>3 DEF WriterOK

\* While nothing is stored, what is stored stays.
LEMMA NothingStored ==
  ASSUME AppendedInv, appended' = appended, clock \in Nat, clock' \in Nat, clock <= clock',
         \A r \in Callers : Onward(request[r], request'[r])
  PROVE  /\ Forth(request, request', appended, appended', clock, clock')
         /\ (\A r \in Callers : request[r].pc \in Stored => request'[r].pc \in Stored) => AppendedInv'
<1>1. \A key : Grown(UnitsUnder(appended, key), UnitsUnder(appended', key))
  <2> TAKE key
  <2>1. Distinct(UnitsUnder(appended, key))
    BY DEF AppendedInv, UnitsUnder, Distinct, Absent
  <2>2. QED
    BY <2>1 DEF Grown
<1>2. ASSUME \A r \in Callers : request[r].pc \in Stored => request'[r].pc \in Stored
      PROVE  AppendedInv'
  <2>1. \A k \in DOMAIN appended : \A n \in DOMAIN appended[k] : appended[k][n][1] \in Callers
    BY DEF AppendedInv, Unit
  <2>2. QED
    BY <1>2, <2>1 DEF AppendedInv
<1>3. QED
  BY <1>1, <1>2 DEF Forth

\* The files stay while goroutines only begin to read.
LEMMA FilesStay ==
  ASSUME FileInv, Forth(request, request', appended, appended', clock, clock'),
         UNCHANGED <<path, tmp, inode>>,
         \A w \in Writers : writer'[w].pc \in Saving => writer'[w] = writer[w],
         \A w \in Writers : writer'[w].pc \in {"begin", "element"} =>
           writer[w].pc \in {"begin", "element"} \/ ~ Started(w, request)
  PROVE  FileInv'
<1>0. path' = path /\ tmp' = tmp /\ inode' = inode
  OBVIOUS
<1>1. KeysOf(request) \subseteq KeysOf(request')
  BY KeysStay
<1>2. \A i \in Inodes : Readable(inode[i]) => Good(inode[i], request', appended', clock')
  BY GoodStays DEF FileInv
<1>3. \A i, k : Uses(i, k)' => Uses(i, k)
  <2> TAKE i, k
  <2> SUFFICES ASSUME Uses(i, k)' PROVE Uses(i, k)
    OBVIOUS
  <2>1. CASE \E w \in Writers : writer'[w].pc \in Saving /\ writer'[w].inode = i /\ writer'[w].data.key = k
    <3>1. PICK w \in Writers : writer'[w].pc \in Saving /\ writer'[w].inode = i /\ writer'[w].data.key = k
      BY <2>1
    <3>2. writer'[w] = writer[w]
      BY <3>1
    <3>3. QED
      BY <3>1, <3>2 DEF Uses
  <2>2. QED
    BY <1>0, <2>1 DEF Uses
<1>4. ASSUME NEW i \in Inodes, NEW k, Uses(i, k)'
      PROVE  /\ Readable(inode'[i]) => inode'[i].key = k
             /\ writer'[i].pc \notin {"begin", "element"} /\ Started(i, request')
  <2>1. /\ Readable(inode[i]) => inode[i].key = k
        /\ writer[i].pc \notin {"begin", "element"} /\ Started(i, request)
    BY <1>3, <1>4 DEF FileInv
  <2>2. i \in Writers
    BY DEF Inodes
  <2>3. Started(i, request')
    BY <2>1, <2>2, StartedStays
  <2>4. QED
    BY <1>0, <2>1, <2>2, <2>3
<1>5. ASSUME NEW i \in Inodes, NEW k, NEW l, Uses(i, k)', Uses(i, l)' PROVE k = l
  BY <1>3, <1>5 DEF FileInv
<1>6. QED
  BY <1>0, <1>1, <1>2, <1>4, <1>5 DEF FileInv

-----------------------------------------------------------------------------
\* A step of one request: the others stay as they are.
LEMMA Alone ==
  ASSUME RequestInv, AppendedInv, NEW r \in Callers, NEW q, request' = [request EXCEPT ![r] = q],
         Onward(request[r], q), appended' = appended,
         clock \in Nat, clock' \in Nat, clock <= clock'
  PROVE  /\ Forth(request, request', appended, appended', clock, clock') /\ AppendedInv'
         /\ request' = [p \in Callers |-> request'[p]] /\ request'[r] = q
         /\ \A p \in Callers \ {r} : request'[p] = request[p]
<1>1. /\ request' = [p \in Callers |-> request'[p]] /\ request'[r] = q
      /\ \A p \in Callers \ {r} : request'[p] = request[p]
  BY DEF RequestInv
<1>2. \A p \in Callers : Onward(request[p], request'[p])
  BY <1>1 DEF Onward
<1>3. \A p \in Callers : request[p].pc \in Stored => request'[p].pc \in Stored
  BY <1>2 DEF Onward
<1>4. QED
  BY <1>1, <1>2, <1>3, NothingStored

\* The other requests, when the sessions they point at keep their keys.
LEMMA OthersStay ==
  ASSUME RequestInv, Forth(request, request', appended, appended', clock, clock'),
         NEW r \in Callers, request' = [p \in Callers |-> request'[p]],
         \A p \in Callers \ {r} : request'[p] = request[p],
         \A o \in Pointers \ {None} : object'[o].key = object[o].key,
         RequestOK(request'[r], request', object')
  PROVE  RequestInv'
<1>1. ASSUME NEW p \in Callers PROVE RequestOK(request'[p], request', object')
  <2>1. CASE p = r
    BY <2>1
  <2>2. CASE p # r
    <3>1. request'[p] = request[p] /\ RequestOK(request[p], request, object)
      BY <2>2 DEF RequestInv
    <3>2. request[p].sess # None => object'[request[p].sess].key = object[request[p].sess].key
      BY DEF Pointers
    <3>3. QED
      BY <3>1, <3>2, RequestStays
  <2>3. QED
    BY <2>1, <2>2
<1>2. QED
  BY <1>1 DEF RequestInv

LEMMA HeapStays ==
  ASSUME HeapInv, Forth(request, request', appended, appended', clock, clock'),
         \A o \in Referenced' \ {None} :
           \/ o \in Referenced /\ object'[o] = object[o]
           \/ o \in Objects /\ Good(object'[o], request', appended', clock')
  PROVE  HeapInv'
<1>1. ASSUME NEW o \in Referenced' \ {None}
      PROVE  o \in Objects /\ Good(object'[o], request', appended', clock')
  <2>1. CASE o \in Referenced /\ object'[o] = object[o]
    <3>1. o \in Objects /\ Good(object[o], request, appended, clock)
      BY <1>1, <2>1 DEF HeapInv
    <3>2. QED
      BY <2>1, <3>1, GoodStays
  <2>2. QED
    BY <1>1, <2>1
<1>2. QED
  BY <1>1 DEF HeapInv

LEMMA OneWriterStays ==
  ASSUME WriterInv, HeapInv, Forth(request, request', appended, appended', clock, clock'),
         NEW w \in Writers, writer'[w] = writer[w],
         writer[w].pc = "element" =>
           \/ object'[writer[w].obj] = object[writer[w].obj]
           \/ Partial(writer[w].data, object'[writer[w].obj], request', appended')
  PROVE  WriterOK(w, writer'[w], request', appended', clock', object')
<1>1. WriterOK(w, writer[w], request, appended, clock, object)
  BY DEF WriterInv
<1>2. writer[w].obj # None => Good(object[writer[w].obj], request, appended, clock)
  BY DEF HeapInv, Referenced
<1>3. QED
  BY <1>1, <1>2, WriterStays

LEMMA WritersStay ==
  ASSUME WriterInv, HeapInv, Forth(request, request', appended, appended', clock, clock'),
         writer' = writer,
         \A w \in Writers : writer[w].pc = "element" =>
           \/ object'[writer[w].obj] = object[writer[w].obj]
           \/ Partial(writer[w].data, object'[writer[w].obj], request', appended')
  PROVE  WriterInv'
<1>1. \A w \in Writers : WriterOK(w, writer'[w], request', appended', clock', object')
  BY OneWriterStays
<1>2. QED
  BY <1>1 DEF WriterInv

\* A step of a request that leaves the store alone.
LEMMA Quiet ==
  ASSUME SessionsInv, UNCHANGED <<storeVars, locals>>,
         NEW r \in Callers, NEW q, request' = [request EXCEPT ![r] = q],
         Onward(request[r], q), RequestOK(q, request', object),
         request[r].pc \notin Locked, q.pc \notin Locked,
         q.sess \in {None, request[r].sess} \cup {sessions[k] : k \in DOMAIN sessions}
  PROVE  SessionsInv'
<1>0. /\ dataDir' = dataDir /\ sessions' = sessions /\ object' = object /\ lock' = lock
      /\ clock' = clock /\ writer' = writer /\ path' = path /\ tmp' = tmp /\ inode' = inode
      /\ appended' = appended /\ loaded' = loaded
  BY DEF storeVars, locals
<1>1. clock \in Nat /\ clock' \in Nat /\ clock <= clock' /\ RequestInv /\ AppendedInv
  BY <1>0 DEF SessionsInv, MapInv
<1>2. /\ Forth(request, request', appended, appended', clock, clock') /\ AppendedInv'
      /\ request' = [p \in Callers |-> request'[p]] /\ request'[r] = q
      /\ \A p \in Callers \ {r} : request'[p] = request[p]
  BY <1>0, <1>1, Alone
<1>3. RequestInv'
  BY <1>0, <1>1, <1>2, OthersStay
<1>4. LockInv'
  BY <1>0, <1>2 DEF SessionsInv, LockInv, Locked
<1>5. MapInv'
  BY <1>0 DEF SessionsInv, MapInv
<1>6. HeapInv'
  <2>1. Referenced' \subseteq Referenced \cup {None}
    <3>1. \A p \in Callers : request'[p].sess \in Referenced \cup {None}
      <4> TAKE p \in Callers
      <4>1. CASE p = r
        BY <1>2, <4>1 DEF Referenced, Pointers
      <4>2. CASE p # r
        BY <1>2, <4>2 DEF Referenced, Pointers
      <4>3. QED
        BY <4>1, <4>2
    <3>2. QED
      BY <1>0, <3>1 DEF Referenced, Pointers
  <2>2. QED
    BY <1>0, <1>2, <2>1, HeapStays DEF SessionsInv
<1>7. WriterInv'
  BY <1>0, <1>2, WritersStay DEF SessionsInv
<1>8. FileInv'
  BY <1>0, <1>2, FilesStay DEF SessionsInv
<1>9. QED
  BY <1>2, <1>3, <1>4, <1>5, <1>6, <1>7, <1>8 DEF SessionsInv

LEMMA ResolveStep ==
  ASSUME SessionsInv, NEW r \in Callers, Resolve(r)
  PROVE  SessionsInv'
<1>1. PICK msgs \in Conversations[dataDir] :
        LET shaped == Shaped(msgs, contextWindow)
            key == HashMessages(shaped, Model)
            found == key # NoKey /\ ~Absent(sessions, key)
        IN request' = [request EXCEPT ![r] =
             [Idle EXCEPT !.asked = msgs, !.msgs = shaped, !.key = key,
                !.sess = IF found THEN sessions[key] ELSE None,
                !.pc = IF key = NoKey \/ found THEN "prompt" ELSE "create"]]
  BY DEF Resolve
<1> DEFINE shaped == Shaped(msgs, contextWindow)
           key == HashMessages(shaped, Model)
           found == key # NoKey /\ ~Absent(sessions, key)
           q == [Idle EXCEPT !.asked = msgs, !.msgs = shaped, !.key = key,
                   !.sess = IF found THEN sessions[key] ELSE None,
                   !.pc = IF key = NoKey \/ found THEN "prompt" ELSE "create"]
<1>2. request' = [request EXCEPT ![r] = q] /\ request[r].pc = "idle" /\ UNCHANGED <<storeVars, locals>>
  BY <1>1 DEF Resolve
<1>3. shaped \in Seq(Message)
  <2>1. msgs \in Seq(Message)
    BY ConversationsAssumption DEF SessionsInv, MapInv
  <2>2. QED
    BY <2>1, ShapedIsMessages
<1> HIDE DEF shaped
<1>4. found => sessions[key] \in {sessions[k] : k \in DOMAIN sessions} /\ object[sessions[key]].key = key
  BY DEF Absent, SessionsInv, MapInv
<1>5. sessions[key] \in {sessions[k] : k \in DOMAIN sessions} /\ sessions[key] # None => sessions[key] \in Objects
  BY DEF SessionsInv, HeapInv, Referenced
<1>6. key = HashMessages(shaped, Model)
  OBVIOUS
<1> HIDE DEF key
<1>7. /\ q.pc = (IF key = NoKey \/ found THEN "prompt" ELSE "create") /\ q.key = key /\ q.msgs = shaped
      /\ q.sess = (IF found THEN sessions[key] ELSE None) /\ q.prefix = {} /\ q.current = {} /\ q.batch = 0
      /\ q = [x \in RequestFields |-> q[x]]
  BY DEF Idle, RequestFields
<1> HIDE DEF found, q
<1>8. RequestOK(q, request', object)
  BY <1>3, <1>4, <1>5, <1>6, <1>7 DEF RequestOK, OfKey, Keyed, Stored, Locked, found
<1>9. Onward(request[r], q)
  <2>1. request[r].key = NoKey
    BY <1>2 DEF SessionsInv, RequestInv, RequestOK
  <2>2. QED
    BY <1>2, <2>1 DEF Onward, Stored, Locked
<1>10. q.pc \notin Locked /\ request[r].pc \notin Locked
  BY <1>2, <1>7 DEF Locked
<1>11. q.sess \in {None, request[r].sess} \cup {sessions[k] : k \in DOMAIN sessions}
  BY <1>4, <1>7
<1>12. QED
  BY <1>2, <1>8, <1>9, <1>10, <1>11, Quiet

\* What a session in memory is, to those who point at it.
LEMMA PointedAt ==
  ASSUME SessionsInv, NEW r \in Callers, request[r].sess # None
  PROVE  /\ Good(object[request[r].sess], request, appended, clock)
         /\ object[request[r].sess].key = request[r].key /\ request[r].key # NoKey
BY DEF SessionsInv, HeapInv, Referenced, Pointers, RequestInv, RequestOK

LEMMA InTheMap ==
  ASSUME SessionsInv, NEW k \in DOMAIN sessions
  PROVE  /\ sessions[k] \in Objects /\ sessions[k] # None
         /\ Good(object[sessions[k]], request, appended, clock) /\ object[sessions[k]].key = k
BY StoreAssumption DEF SessionsInv, HeapInv, Referenced, MapInv

LEMMA PromptStep ==
  ASSUME SessionsInv, NEW r \in Callers, Prompt(r)
  PROVE  SessionsInv'
<1>0. RequestOK(request[r], request, object) /\ request[r].pc = "prompt" /\ UNCHANGED <<storeVars, locals>>
  BY DEF SessionsInv, RequestInv, Prompt
<1> DEFINE told == SummaryRead(r)
           units == Len(MessagesFromOpenAI(request[r].msgs)) + IF r \in Streaming THEN 0 ELSE 1
<1>1. CASE request[r].sess = None
  <2> DEFINE q == [request[r] EXCEPT !.pc = "done", !.sess = None]
  <2>1. request' = [request EXCEPT ![r] = q]
    BY <1>1 DEF Prompt, To, Done
  <2>2. /\ q = [x \in RequestFields |-> q[x]] /\ q.pc = "done" /\ q.sess = None
        /\ q.key = request[r].key /\ q.msgs = request[r].msgs /\ q.batch = request[r].batch
        /\ q.prefix = request[r].prefix /\ q.current = request[r].current
    BY <1>0 DEF RequestOK, RequestFields
  <2> HIDE DEF q
  <2>3. Onward(request[r], q)
    BY <1>0, <2>2 DEF Onward, Stored, Locked
  <2>4. Forth(request, request', appended, appended', clock, clock')
    <3>1. clock \in Nat /\ clock' \in Nat /\ clock <= clock' /\ RequestInv /\ AppendedInv /\ appended' = appended
      BY <1>0 DEF SessionsInv, MapInv, storeVars, locals
    <3>2. QED
      BY <2>1, <2>3, <3>1, Alone
  <2>5. RequestOK(request[r], request', object)
    BY <1>0, <2>4, RequestStays
  <2>6. RequestOK(q, request', object)
    BY <2>2, <2>5 DEF RequestOK, Keyed, Stored, Locked
  <2>7. q.pc \notin Locked /\ request[r].pc \notin Locked
    BY <1>0, <2>2 DEF Locked
  <2>8. q.sess \in {None, request[r].sess} \cup {sessions[k] : k \in DOMAIN sessions}
    BY <2>2
  <2>9. QED
    BY <1>0, <2>1, <2>3, <2>6, <2>7, <2>8, Quiet
<1>2. CASE request[r].sess # None
  <2>1. PICK outcome \in {"failed", "answered"} :
          request' = [request EXCEPT ![r].prefix = told,
                                     ![r].pc = IF outcome = "failed" THEN "done" ELSE "append",
                                     ![r].sess = None, ![r].batch = units]
    BY <1>2 DEF Prompt
  <2> DEFINE q == [request[r] EXCEPT !.prefix = told, !.pc = IF outcome = "failed" THEN "done" ELSE "append",
                                     !.sess = None, !.batch = units]
  <2>2. request' = [request EXCEPT ![r] = q]
    BY <2>1 DEF SessionsInv, RequestInv
  <2>3. units \in Nat
    <3>1. MessagesFromOpenAI(request[r].msgs) \in Seq(Message)
      BY <1>0, AtIsMessages DEF RequestOK, MessagesFromOpenAI
    <3>2. QED
      BY <3>1
  <2>4. OfKey(told, request[r].key, request) /\ request[r].key # NoKey
    BY <1>2, PointedAt DEF SummaryRead, OfKey, Good
  <2> HIDE DEF told, units
  <2>5. /\ q = [x \in RequestFields |-> q[x]] /\ q.pc \in {"append", "done"} /\ q.sess = None
        /\ q.key = request[r].key /\ q.msgs = request[r].msgs /\ q.batch = units
        /\ q.prefix = told /\ q.current = request[r].current
    BY <1>0 DEF RequestOK, RequestFields
  <2> HIDE DEF q
  <2>6. Onward(request[r], q)
    BY <1>0, <2>5 DEF Onward, Stored, Locked
  <2>7. Forth(request, request', appended, appended', clock, clock')
    <3>1. clock \in Nat /\ clock' \in Nat /\ clock <= clock' /\ RequestInv /\ AppendedInv /\ appended' = appended
      BY <1>0 DEF SessionsInv, MapInv, storeVars, locals
    <3>2. QED
      BY <2>2, <2>6, <3>1, Alone
  <2>8. RequestOK(request[r], request', object) /\ OfKey(told, request[r].key, request')
    BY <1>0, <2>4, <2>7, RequestStays, OfKeyStays
  <2>9. RequestOK(q, request', object)
    BY <2>3, <2>4, <2>5, <2>8 DEF RequestOK, Keyed, Stored, Locked
  <2>10. q.pc \notin Locked /\ request[r].pc \notin Locked
    BY <1>0, <2>5 DEF Locked
  <2>11. q.sess \in {None, request[r].sess} \cup {sessions[k] : k \in DOMAIN sessions}
    BY <2>5
  <2>12. QED
    BY <1>0, <2>2, <2>6, <2>9, <2>10, <2>11, Quiet
<1>3. QED
  BY <1>1, <1>2

\* Where a request goes, its locals the same: it lets go of its session at the end.
Moved(q, pc) == [q EXCEPT !.pc = pc, !.sess = IF pc = "done" THEN None ELSE @]

LEMMA MovesOn ==
  ASSUME RequestInv, NEW r \in Callers, NEW pc, To(r, pc)
  PROVE  request' = [request EXCEPT ![r] = Moved(request[r], pc)]
<1>1. request[r] = [x \in RequestFields |-> request[r][x]] /\ request = [p \in Callers |-> request[p]]
  BY DEF RequestInv, RequestOK
<1>2. CASE pc = "done"
  BY <1>1, <1>2 DEF To, Done, Moved
<1>3. CASE pc # "done"
  <2>1. Moved(request[r], pc) = [request[r] EXCEPT !.pc = pc]
    BY <1>1, <1>3 DEF Moved, RequestFields
  <2>2. QED
    BY <1>1, <1>3, <2>1 DEF To
<1>4. QED
  BY <1>2, <1>3

LEMMA MovedIs ==
  ASSUME NEW q, q = [x \in RequestFields |-> q[x]], NEW pc
  PROVE  LET m == Moved(q, pc)
         IN /\ m = [x \in RequestFields |-> m[x]]
            /\ m.pc = pc /\ m.sess = (IF pc = "done" THEN None ELSE q.sess)
            /\ m.key = q.key /\ m.msgs = q.msgs /\ m.batch = q.batch
            /\ m.prefix = q.prefix /\ m.current = q.current
BY DEF Moved, RequestFields

\* A request that stored what it had goes on to what it does after that.
LEMMA MovesQuietly ==
  ASSUME SessionsInv, UNCHANGED <<storeVars, locals>>, NEW r \in Callers, NEW pc, To(r, pc),
         request[r].pc \in {"append", "count", "due", "summarise"},
         pc \in {"count", "due", "summarise", "done"}
  PROVE  SessionsInv'
<1> DEFINE q == Moved(request[r], pc)
<1>1. RequestOK(request[r], request, object) /\ RequestInv
  BY DEF SessionsInv, RequestInv
<1>2. request' = [request EXCEPT ![r] = q]
  BY <1>1, MovesOn
<1>3. /\ q = [x \in RequestFields |-> q[x]] /\ q.pc = pc /\ q.sess = (IF pc = "done" THEN None ELSE request[r].sess)
      /\ q.key = request[r].key /\ q.msgs = request[r].msgs /\ q.batch = request[r].batch
      /\ q.prefix = request[r].prefix /\ q.current = request[r].current
  BY <1>1, MovedIs DEF RequestOK
<1> HIDE DEF q
<1>4. request[r].sess = None /\ q.sess = None
  BY <1>1, <1>3 DEF RequestOK
<1>5. request[r].pc # "done" /\ request[r].pc \notin Locked /\ q.pc \notin Locked
  BY <1>3 DEF Locked
<1>6. Onward(request[r], q)
  BY <1>3, <1>5 DEF Onward, Stored, Locked
<1>7. Forth(request, request', appended, appended', clock, clock')
  <2>1. clock \in Nat /\ clock' \in Nat /\ clock <= clock' /\ RequestInv /\ AppendedInv /\ appended' = appended
    BY DEF SessionsInv, MapInv, storeVars, locals
  <2>2. QED
    BY <1>2, <1>6, <2>1, Alone
<1>8. RequestOK(request[r], request', object)
  BY <1>1, <1>7, RequestStays
<1>9. RequestOK(q, request', object)
  BY <1>3, <1>4, <1>8 DEF RequestOK, Keyed, Stored, Locked
<1>10. q.sess \in {None, request[r].sess} \cup {sessions[k] : k \in DOMAIN sessions}
  BY <1>4
<1>11. QED
  BY <1>2, <1>5, <1>6, <1>9, <1>10, Quiet

LEMMA CountStep ==
  ASSUME SessionsInv, NEW r \in Callers, Count(r)
  PROVE  SessionsInv'
<1> DEFINE pc == IF SummaryDue(GetTurnCount(request[r].key)) THEN "due" ELSE "done"
<1>1. To(r, pc) /\ request[r].pc = "count" /\ UNCHANGED <<storeVars, locals>>
  BY DEF Count
<1>2. pc \in {"count", "due", "summarise", "done"}
  OBVIOUS
<1> HIDE DEF pc
<1>3. QED
  BY <1>1, <1>2, MovesQuietly

LEMMA DueStep ==
  ASSUME SessionsInv, NEW r \in Callers, Due(r)
  PROVE  SessionsInv'
<1> DEFINE told == GetSummary(request[r].key)
           q == [request[r] EXCEPT !.pc = "summarise", !.current = told]
<1>1. RequestOK(request[r], request, object) /\ request[r].pc = "due" /\ UNCHANGED <<storeVars, locals>>
  BY DEF SessionsInv, RequestInv, Due
<1>2. request' = [request EXCEPT ![r] = q]
  BY DEF Due, SessionsInv, RequestInv
<1>3. request[r].key # NoKey
  BY <1>1 DEF RequestOK, Keyed
<1>4. OfKey(told, request[r].key, request)
  <2>1. CASE Absent(sessions, request[r].key)
    BY <2>1 DEF GetSummary, OfKey
  <2>2. CASE ~ Absent(sessions, request[r].key)
    <3>1. request[r].key \in DOMAIN sessions
      BY <2>2 DEF Absent
    <3>2. QED
      BY <2>2, <3>1, InTheMap DEF GetSummary, Good
  <2>3. QED
    BY <2>1, <2>2
<1> HIDE DEF told
<1>5. /\ q = [x \in RequestFields |-> q[x]] /\ q.pc = "summarise" /\ q.sess = request[r].sess
      /\ q.key = request[r].key /\ q.msgs = request[r].msgs /\ q.batch = request[r].batch
      /\ q.prefix = request[r].prefix /\ q.current = told
  BY <1>1 DEF RequestOK, RequestFields
<1> HIDE DEF q
<1>6. Onward(request[r], q)
  BY <1>1, <1>5 DEF Onward, Stored, Locked
<1>7. Forth(request, request', appended, appended', clock, clock')
  <2>1. clock \in Nat /\ clock' \in Nat /\ clock <= clock' /\ RequestInv /\ AppendedInv /\ appended' = appended
    BY <1>1 DEF SessionsInv, MapInv, storeVars, locals
  <2>2. QED
    BY <1>2, <1>6, <2>1, Alone
<1>8. RequestOK(request[r], request', object) /\ OfKey(told, request[r].key, request')
  BY <1>1, <1>3, <1>4, <1>7, RequestStays, OfKeyStays
<1>9. request[r].sess = None
  BY <1>1 DEF RequestOK
<1>10. RequestOK(q, request', object)
  BY <1>3, <1>5, <1>8, <1>9 DEF RequestOK, Keyed, Stored, Locked
<1>11. q.pc \notin Locked /\ request[r].pc \notin Locked
  BY <1>1, <1>5 DEF Locked
<1>12. q.sess \in {None, request[r].sess} \cup {sessions[k] : k \in DOMAIN sessions}
  BY <1>5
<1>13. QED
  BY <1>1, <1>2, <1>6, <1>10, <1>11, <1>12, Quiet

LEMMA FreshIs ==
  ASSUME Unreferenced(Pointers) # {}
  PROVE  Fresh(Pointers) \in Objects \ Referenced
<1>1. Unreferenced(Pointers) \in SUBSET Nat
  BY StoreAssumption DEF Unreferenced
<1>2. Min(Unreferenced(Pointers)) \in Unreferenced(Pointers)
  BY <1>1, LeastIs DEF Min
<1>3. QED
  BY <1>2 DEF Fresh, Unreferenced, Referenced

LEMMA OldestIs ==
  ASSUME SessionsInv, DOMAIN sessions # {}
  PROVE  Oldest \in DOMAIN sessions
<1> DEFINE times == {object[sessions[k]].updated : k \in DOMAIN sessions}
<1>1. times \in SUBSET Nat /\ times # {}
  <2>1. \A k \in DOMAIN sessions : object[sessions[k]].updated \in Nat
    <3> TAKE k \in DOMAIN sessions
    <3>1. Good(object[sessions[k]], request, appended, clock)
      BY InTheMap
    <3>2. QED
      BY <3>1 DEF Good
  <2>2. QED
    BY <2>1
<1>2. PICK t \in times : \A u \in times : t <= u
  <2> HIDE DEF times
  <2>1. QED
    BY <1>1, LeastIs
<1>3. PICK k \in DOMAIN sessions : t = object[sessions[k]].updated
  OBVIOUS
<1>4. \A j \in DOMAIN sessions : object[sessions[k]].updated <= object[sessions[j]].updated
  BY <1>2, <1>3
<1>5. QED
  BY <1>4 DEF Oldest

\* With room made, one more session is within the limit.
LEMMA RoomFor ==
  ASSUME SessionsInv, NEW key, NEW o
  PROVE  LET new == Set(Room(sessions), key, o)
         IN /\ DOMAIN new \subseteq DOMAIN sessions \cup {key} /\ new[key] = o /\ key \in DOMAIN new
            /\ \A k \in DOMAIN new \ {key} : new[k] = sessions[k]
            /\ IsFiniteSet(DOMAIN new)
            /\ Cardinality(DOMAIN new) <= maxSessions \/ Cardinality(DOMAIN new) <= loaded
<1> DEFINE D == DOMAIN sessions
           kept == Room(sessions)
           new == Set(kept, key, o)
<1>1. IsFiniteSet(D) /\ Cardinality(D) \in Nat /\ maxSessions \in Nat \ {0} /\ loaded \in Nat
      /\ (Cardinality(D) <= maxSessions \/ Cardinality(D) <= loaded)
  BY StoreAssumption, FS_CardinalityType DEF SessionsInv, MapInv
<1>2. DOMAIN new = DOMAIN kept \cup {key} /\ new[key] = o /\ \A k \in DOMAIN new \ {key} : new[k] = kept[k]
  BY DEF Set
<1>3. CASE Cardinality(D) >= maxSessions
  <2>1. D # {}
    <3>1. D = {} => Cardinality(D) = 0
      BY FS_EmptySet
    <3>2. QED
      BY <1>1, <1>3, <3>1
  <2>2. Oldest \in D
    BY <2>1, OldestIs
  <2>3. DOMAIN kept = D \ {Oldest} /\ \A k \in DOMAIN kept : kept[k] = sessions[k]
    BY <1>3 DEF Room, Unset
  <2>4. IsFiniteSet(D \ {Oldest}) /\ Cardinality(D \ {Oldest}) = Cardinality(D) - 1
    BY <1>1, <2>2, FS_RemoveElement
  <2>5. /\ IsFiniteSet(DOMAIN kept \cup {key})
        /\ Cardinality(DOMAIN kept \cup {key}) \in {Cardinality(DOMAIN kept), Cardinality(DOMAIN kept) + 1}
    BY <2>3, <2>4, FS_AddElement
  <2> HIDE DEF kept, D, new
  <2>6. Cardinality(DOMAIN new) <= Cardinality(D)
    BY <1>1, <1>2, <2>3, <2>4, <2>5
  <2>7. Cardinality(DOMAIN new) \in Nat /\ IsFiniteSet(DOMAIN new)
    BY <1>2, <2>5, FS_CardinalityType
  <2>8. Cardinality(DOMAIN new) <= maxSessions \/ Cardinality(DOMAIN new) <= loaded
    BY <1>1, <2>6, <2>7
  <2>9. QED
    BY <1>2, <2>3, <2>7, <2>8 DEF D, new, kept
<1>4. CASE ~ (Cardinality(D) >= maxSessions)
  <2>1. kept = sessions
    BY <1>4 DEF Room
  <2>2. /\ IsFiniteSet(D \cup {key})
        /\ Cardinality(D \cup {key}) \in {Cardinality(D), Cardinality(D) + 1}
    BY <1>1, FS_AddElement
  <2> HIDE DEF kept, D, new
  <2>3. Cardinality(DOMAIN new) <= maxSessions
    BY <1>1, <1>2, <1>4, <2>1, <2>2 DEF D
  <2>4. QED
    BY <1>2, <2>1, <2>2, <2>3 DEF D, new, kept
<1>5. QED
  BY <1>3, <1>4

LEMMA CreateStep ==
  ASSUME SessionsInv, NEW r \in Callers, CreateSession(r)
  PROVE  SessionsInv'
<1> DEFINE key == request[r].key
           o == Fresh(Pointers)
           q == [request[r] EXCEPT !.pc = "prompt", !.sess = o]
<1>1. /\ request[r].pc = "create" /\ lock = None
      /\ sessions' = Set(Room(sessions), key, o)
      /\ object' = [object EXCEPT ![o] = NewSession(key, clock + 1)]
      /\ clock' = clock + 1
      /\ dataDir' = dataDir /\ lock' = lock /\ writer' = writer /\ path' = path /\ tmp' = tmp /\ inode' = inode
      /\ appended' = appended /\ loaded' = loaded
      /\ request' = [request EXCEPT ![r].pc = "prompt", ![r].sess = o]
  BY DEF CreateSession, Create, locals
<1>2. o \in Objects \ Referenced /\ o # None
  BY FreshIs, StoreAssumption DEF CreateSession, Create
<1> HIDE DEF o
<1>3. RequestOK(request[r], request, object) /\ request' = [request EXCEPT ![r] = q]
  BY <1>1 DEF SessionsInv, RequestInv
<1>4. key # NoKey /\ key \in KeysOf(request)
  BY <1>1, <1>3 DEF RequestOK, Keyed, KeysOf
<1>5. /\ q = [x \in RequestFields |-> q[x]] /\ q.pc = "prompt" /\ q.sess = o
      /\ q.key = request[r].key /\ q.msgs = request[r].msgs /\ q.batch = request[r].batch
      /\ q.prefix = request[r].prefix /\ q.current = request[r].current
  BY <1>3 DEF RequestOK, RequestFields
<1> HIDE DEF q
<1>6. Onward(request[r], q)
  BY <1>1, <1>5 DEF Onward, Stored, Locked
<1>7. clock \in Nat /\ clock' \in Nat /\ clock <= clock' /\ RequestInv /\ AppendedInv
  BY <1>1 DEF SessionsInv, MapInv
<1>8. /\ Forth(request, request', appended, appended', clock, clock') /\ AppendedInv'
      /\ request' = [p \in Callers |-> request'[p]] /\ request'[r] = q
      /\ \A p \in Callers \ {r} : request'[p] = request[p]
  BY <1>1, <1>3, <1>6, <1>7, Alone
<1>9. object'[o] = NewSession(key, clock') /\ \A p \in Referenced : object'[p] = object[p]
  <2>1. object = [p \in Objects |-> object[p]]
    BY DEF SessionsInv, MapInv
  <2>2. QED
    BY <1>1, <1>2, <2>1
<1>10. Good(object'[o], request', appended', clock')
  <2>1. key \in KeysOf(request')
    BY <1>4, <1>8, KeysStay
  <2> DEFINE s == NewSession(key, clock')
  <2>2. /\ s = [x \in SessionFields |-> s[x]] /\ s.key = key /\ s.summary = {} /\ s.messages = <<>>
        /\ s.turns = 0 /\ s.updated = clock'
    BY DEF NewSession, SessionFields
  <2> HIDE DEF s
  <2>5. s.messages \in Seq(Unit) /\ Ordered(s.messages, UnitsUnder(appended', s.key)) /\ OfKey(s.summary, s.key, request')
    <3>0. s.messages = <<>>
      BY <2>2
    <3>1. s.messages \in Seq(Unit) /\ DOMAIN s.messages = {}
      BY <3>0, EmptySeq
    <3>2. Ordered(s.messages, UnitsUnder(appended', s.key))
      BY <3>1 DEF Ordered
    <3>3. OfKey(s.summary, s.key, request')
      BY <2>2 DEF OfKey
    <3>4. QED
      BY <3>1, <3>2, <3>3
  <2>6. s.updated \in 0 .. clock' /\ s.turns \in Nat
    BY <1>7, <2>2
  <2>7. Good(s, request', appended', clock')
    BY <2>1, <2>2, <2>5, <2>6 DEF Good
  <2>8. QED
    BY <1>9, <2>7 DEF s
<1>11. /\ DOMAIN sessions' \subseteq DOMAIN sessions \cup {key} /\ sessions'[key] = o /\ key \in DOMAIN sessions'
       /\ \A k \in DOMAIN sessions' \ {key} : sessions'[k] = sessions[k]
       /\ IsFiniteSet(DOMAIN sessions')
       /\ Cardinality(DOMAIN sessions') <= maxSessions \/ Cardinality(DOMAIN sessions') <= loaded
  BY <1>1, RoomFor
<1>12. RequestInv'
  <2>1. \A p \in Pointers \ {None} : object'[p].key = object[p].key
    BY <1>9 DEF Referenced
  <2>2. RequestOK(request[r], request', object)
    BY <1>3, <1>8, RequestStays
  <2>3. object'[o].key = key
    BY <1>9 DEF NewSession
  <2>4. RequestOK(q, request', object')
    BY <1>2, <1>4, <1>5, <2>2, <2>3 DEF RequestOK, Keyed, Stored, Locked
  <2>5. QED
    BY <1>7, <1>8, <2>1, <2>4, OthersStay
<1>13. LockInv'
  <2>1. \A p \in Callers : request'[p].pc \notin Locked
    BY <1>1, <1>5, <1>8, StoreAssumption DEF SessionsInv, LockInv, Locked
  <2>2. QED
    BY <1>1, <2>1, StoreAssumption DEF LockInv, Locked
<1>14. MapInv'
  <2>1. object' = [p \in Objects |-> object'[p]]
    BY <1>1 DEF SessionsInv, MapInv
  <2>2. ASSUME NEW k \in DOMAIN sessions' PROVE sessions'[k] \in Objects /\ object'[sessions'[k]].key = k
    <3>1. CASE k = key
      BY <1>2, <1>9, <1>11, <3>1 DEF NewSession
    <3>2. CASE k # key
      <4>1. k \in DOMAIN sessions /\ sessions'[k] = sessions[k] /\ sessions[k] \in Referenced
        BY <1>11, <3>2 DEF Referenced
      <4>2. QED
        BY <1>9, <4>1 DEF SessionsInv, MapInv
    <3>3. QED
      BY <3>1, <3>2
  <2>3. dataDir' \in DataDirs /\ loaded' \in Nat
    BY <1>1 DEF SessionsInv, MapInv
  <2>4. QED
    BY <1>1, <1>7, <1>11, <2>1, <2>2, <2>3 DEF MapInv
<1>15. HeapInv'
  <2>1. Referenced' \subseteq Referenced \cup {o, None}
    <3>1. \A p \in Callers : request'[p].sess \in Referenced \cup {o}
      <4> TAKE p \in Callers
      <4>1. p # r => request'[p].sess = request[p].sess /\ request[p].sess \in Pointers
        BY <1>8 DEF Pointers
      <4>2. QED
        BY <1>5, <1>8, <4>1 DEF Referenced
    <3>2. \A k \in DOMAIN sessions' : sessions'[k] \in Referenced \cup {o}
      BY <1>11 DEF Referenced
    <3>3. \A w \in Writers : writer'[w].obj \in Referenced
      BY <1>1 DEF Referenced
    <3>4. QED
      BY <3>1, <3>2, <3>3 DEF Referenced, Pointers
  <2>2. QED
    BY <1>2, <1>8, <1>9, <1>10, <2>1, HeapStays DEF SessionsInv
<1>16. WriterInv'
  <2>1. \A w \in Writers : object'[writer[w].obj] = object[writer[w].obj]
    BY <1>9 DEF Referenced
  <2>2. QED
    BY <1>1, <1>8, <2>1, WritersStay DEF SessionsInv
<1>17. FileInv'
  BY <1>1, <1>8, FilesStay DEF SessionsInv
<1>18. QED
  BY <1>8, <1>12, <1>13, <1>14, <1>15, <1>16, <1>17 DEF SessionsInv

-----------------------------------------------------------------------------
\* A turn's units after the others: all new, and in order.
Fresher(u, x) ==
  /\ u \in Seq(Unit) /\ x \in Seq(Unit) /\ Distinct(u) /\ Distinct(x)
  /\ \A a \in DOMAIN u, b \in DOMAIN x : u[a] # x[b]

LEMMA JoinedIs ==
  ASSUME NEW S, NEW u \in Seq(S), NEW x \in Seq(S)
  PROVE  /\ u \o x \in Seq(S) /\ Len(u) \in Nat /\ Len(x) \in Nat
         /\ DOMAIN u = 1 .. Len(u) /\ DOMAIN x = 1 .. Len(x)
         /\ DOMAIN (u \o x) = 1 .. Len(u) + Len(x)
         /\ \A n \in DOMAIN (u \o x) :
              \/ n \in DOMAIN u /\ (u \o x)[n] = u[n]
              \/ n - Len(u) \in DOMAIN x /\ n > Len(u) /\ (u \o x)[n] = x[n - Len(u)]
<1>1. u \o x \in Seq(S) /\ Len(u) \in Nat /\ Len(x) \in Nat
  OBVIOUS
<1>2. DOMAIN u = 1 .. Len(u) /\ DOMAIN x = 1 .. Len(x) /\ DOMAIN (u \o x) = 1 .. Len(u) + Len(x)
  OBVIOUS
<1>3. ASSUME NEW n \in 1 .. Len(u) + Len(x)
      PROVE  \/ n \in 1 .. Len(u) /\ (u \o x)[n] = u[n]
             \/ n - Len(u) \in 1 .. Len(x) /\ n > Len(u) /\ (u \o x)[n] = x[n - Len(u)]
  OBVIOUS
<1>4. QED
  BY <1>1, <1>2, <1>3

LEMMA JoinedGrows ==
  ASSUME NEW u, NEW x, Fresher(u, x)
  PROVE  u \o x \in Seq(Unit) /\ Grown(u, u \o x)
<1> DEFINE v == u \o x
<1>1. /\ v \in Seq(Unit) /\ Len(u) \in Nat /\ Len(x) \in Nat
      /\ DOMAIN u = 1 .. Len(u) /\ DOMAIN x = 1 .. Len(x) /\ DOMAIN v = 1 .. Len(u) + Len(x)
      /\ \A n \in DOMAIN v :
           \/ n \in DOMAIN u /\ v[n] = u[n]
           \/ n - Len(u) \in DOMAIN x /\ n > Len(u) /\ v[n] = x[n - Len(u)]
  BY JoinedIs DEF Fresher
<1> HIDE DEF v
<1>2. Distinct(v)
  <2> SUFFICES ASSUME NEW a \in DOMAIN v, NEW b \in DOMAIN v, v[a] = v[b] PROVE a = b
    BY DEF Distinct
  <2>1. CASE a \in DOMAIN u /\ v[a] = u[a]
    BY <1>1, <2>1 DEF Fresher, Distinct
  <2>2. CASE a - Len(u) \in DOMAIN x /\ a > Len(u) /\ v[a] = x[a - Len(u)]
    <3>1. b - Len(u) \in DOMAIN x /\ v[b] = x[b - Len(u)]
      BY <1>1, <2>2 DEF Fresher
    <3>2. a - Len(u) = b - Len(u)
      BY <2>2, <3>1 DEF Fresher, Distinct
    <3>3. a \in Int /\ b \in Int
      BY <1>1
    <3>4. QED
      BY <1>1, <3>2, <3>3
  <2>3. QED
    BY <1>1, <2>1, <2>2
<1>3. DOMAIN u \subseteq DOMAIN v /\ \A n \in DOMAIN u : v[n] = u[n]
  BY <1>1
<1>4. QED
  BY <1>1, <1>2, <1>3 DEF Grown, v

LEMMA OldPrecedesNew ==
  ASSUME NEW u, NEW x, Fresher(u, x), NEW old, Within(old, u), NEW k \in DOMAIN x
  PROVE  Within(x[k], u \o x) /\ Precedes(old, x[k], u \o x)
<1> DEFINE v == u \o x
<1>1. /\ v \in Seq(Unit) /\ Len(u) \in Nat /\ Len(x) \in Nat
      /\ DOMAIN u = 1 .. Len(u) /\ DOMAIN x = 1 .. Len(x) /\ DOMAIN v = 1 .. Len(u) + Len(x)
      /\ \A n \in DOMAIN v :
           \/ n \in DOMAIN u /\ v[n] = u[n]
           \/ n - Len(u) \in DOMAIN x /\ n > Len(u) /\ v[n] = x[n - Len(u)]
  BY JoinedIs DEF Fresher
<1>2. Grown(u, v)
  BY JoinedGrows
<1> HIDE DEF v
<1>3. Within(x[k], v)
  <2>1. Len(u) + k \in DOMAIN v /\ Len(u) + k > Len(u) /\ (Len(u) + k) - Len(u) = k
    BY <1>1
  <2>2. v[Len(u) + k] = x[k]
    BY <1>1, <2>1
  <2>3. QED
    BY <2>1, <2>2 DEF Within
<1>4. Precedes(old, x[k], v)
  <2> SUFFICES ASSUME NEW a \in DOMAIN v, NEW b \in DOMAIN v, v[a] = old, v[b] = x[k] PROVE a < b
    BY DEF Precedes
  <2>1. PICK n \in DOMAIN u : u[n] = old
    BY DEF Within
  <2>2. a = n
    BY <1>2, <2>1 DEF Grown, Distinct
  <2>3. b > Len(u)
    BY <1>1 DEF Fresher
  <2>4. QED
    BY <1>1, <2>2, <2>3
<1>5. QED
  BY <1>3, <1>4 DEF v

LEMMA NewInOrder ==
  ASSUME NEW u, NEW x, Fresher(u, x), NEW k \in DOMAIN x, NEW l \in DOMAIN x, k < l
  PROVE  Precedes(x[k], x[l], u \o x)
<1> DEFINE v == u \o x
<1>1. /\ v \in Seq(Unit) /\ Len(u) \in Nat /\ Len(x) \in Nat
      /\ DOMAIN u = 1 .. Len(u) /\ DOMAIN x = 1 .. Len(x) /\ DOMAIN v = 1 .. Len(u) + Len(x)
      /\ \A n \in DOMAIN v :
           \/ n \in DOMAIN u /\ v[n] = u[n]
           \/ n - Len(u) \in DOMAIN x /\ n > Len(u) /\ v[n] = x[n - Len(u)]
  BY JoinedIs DEF Fresher
<1> HIDE DEF v
<1>2. ASSUME NEW a \in DOMAIN v, NEW b \in DOMAIN v, v[a] = x[k], v[b] = x[l] PROVE a < b
  <2>1. a - Len(u) \in DOMAIN x /\ x[a - Len(u)] = x[k]
    BY <1>1, <1>2 DEF Fresher
  <2>2. b - Len(u) \in DOMAIN x /\ x[b - Len(u)] = x[l]
    BY <1>1, <1>2 DEF Fresher
  <2>3. a - Len(u) = k /\ b - Len(u) = l
    BY <2>1, <2>2 DEF Fresher, Distinct
  <2>4. QED
    BY <1>1, <2>3
<1>3. QED
  BY <1>2 DEF Precedes, v

LEMMA JoinedOrdered ==
  ASSUME NEW u, NEW x, Fresher(u, x), NEW m \in Seq(Unit), Ordered(m, u)
  PROVE  Ordered(m \o x, u \o x)
<1> DEFINE v == u \o x
           w == m \o x
<1>1. /\ w \in Seq(Unit) /\ Len(m) \in Nat /\ Len(x) \in Nat
      /\ DOMAIN m = 1 .. Len(m) /\ DOMAIN x = 1 .. Len(x) /\ DOMAIN w = 1 .. Len(m) + Len(x)
      /\ \A n \in DOMAIN w :
           \/ n \in DOMAIN m /\ w[n] = m[n]
           \/ n - Len(m) \in DOMAIN x /\ n > Len(m) /\ w[n] = x[n - Len(m)]
  BY JoinedIs DEF Fresher
<1>2. Grown(u, v)
  BY JoinedGrows
<1> HIDE DEF w
<1>3. \A i \in DOMAIN m : Within(m[i], u) /\ Within(m[i], v)
  BY <1>2, WithinGrows DEF Ordered
<1>4. \A k \in DOMAIN x : Within(x[k], v)
  <2> TAKE k \in DOMAIN x
  <2>1. Len(u) \in Nat /\ DOMAIN v = 1 .. Len(u) + Len(x) /\ DOMAIN x = 1 .. Len(x) /\ Len(x) \in Nat
    BY JoinedIs DEF Fresher
  <2>2. \A n \in DOMAIN v : n \in DOMAIN u \/ v[n] = x[n - Len(u)]
    BY JoinedIs DEF Fresher
  <2>3. DOMAIN u = 1 .. Len(u)
    BY JoinedIs DEF Fresher
  <2> HIDE DEF v
  <2>4. Len(u) + k \in DOMAIN v /\ Len(u) + k \notin DOMAIN u /\ (Len(u) + k) - Len(u) = k
    BY <2>1, <2>3
  <2>5. v[Len(u) + k] = x[k]
    BY <2>2, <2>4
  <2>6. QED
    BY <2>4, <2>5 DEF Within
<1>5. ASSUME NEW i \in DOMAIN w PROVE Within(w[i], v)
  BY <1>1, <1>3, <1>4
<1>6. ASSUME NEW i \in DOMAIN w, NEW j \in DOMAIN w, i < j PROVE Precedes(w[i], w[j], v)
  <2>1. CASE j \in DOMAIN m /\ w[j] = m[j]
    <3>1. i \in DOMAIN m /\ w[i] = m[i]
      BY <1>1, <1>6, <2>1
    <3>2. Precedes(m[i], m[j], u)
      BY <1>6, <2>1, <3>1 DEF Ordered
    <3>3. QED
      BY <1>2, <1>3, <2>1, <3>1, <3>2, PrecedesGrows
  <2>2. CASE j - Len(m) \in DOMAIN x /\ w[j] = x[j - Len(m)] /\ i \in DOMAIN m /\ w[i] = m[i]
    BY <1>3, <2>2, OldPrecedesNew
  <2>3. CASE j - Len(m) \in DOMAIN x /\ w[j] = x[j - Len(m)] /\ i - Len(m) \in DOMAIN x /\ w[i] = x[i - Len(m)]
    <3>1. i - Len(m) < j - Len(m)
      BY <1>1, <1>6
    <3>2. QED
      BY <2>3, <3>1, NewInOrder
  <2>4. QED
    BY <1>1, <2>1, <2>2, <2>3
<1>7. QED
  BY <1>5, <1>6 DEF Ordered, w

LEMMA TurnsJoined ==
  ASSUME NEW m \in Seq(Unit), NEW x \in Seq(Unit), NEW r, \A i \in DOMAIN x : x[i][1] = r
  PROVE  TurnsOf(m \o x) \subseteq TurnsOf(m) \cup {r}
<1>1. ASSUME NEW i \in DOMAIN (m \o x) PROVE (m \o x)[i][1] \in TurnsOf(m) \cup {r}
  BY JoinedIs DEF TurnsOf
<1>2. QED
  BY <1>1 DEF TurnsOf

\* A turn of one more caller counts as at most one more.
LEMMA OneMoreTurn ==
  ASSUME NEW A, IsFiniteSet(A), NEW B, NEW r, B \subseteq A \cup {r}, NEW n \in Nat, Cardinality(A) <= n
  PROVE  Cardinality(B) <= n + 1
<1>1. /\ IsFiniteSet(A \cup {r}) /\ Cardinality(A) \in Nat
      /\ Cardinality(A \cup {r}) \in {Cardinality(A), Cardinality(A) + 1}
  BY FS_AddElement, FS_CardinalityType
<1>2. IsFiniteSet(B) /\ Cardinality(B) <= Cardinality(A \cup {r})
  BY <1>1, FS_Subset
<1>3. Cardinality(B) \in Nat
  BY <1>2, FS_CardinalityType
<1>4. QED
  BY <1>1, <1>2, <1>3

\* A turn of r's is stored at the end of what a session holds.
Lengthened(s, x) == [s EXCEPT !.messages = @ \o x]

LEMMA LengthenedIs ==
  ASSUME NEW s, s = [y \in SessionFields |-> s[y]], NEW x
  PROVE  LET t == Lengthened(s, x)
         IN /\ t = [y \in SessionFields |-> t[y]] /\ t.key = s.key /\ t.summary = s.summary
            /\ t.messages = s.messages \o x /\ t.turns = s.turns /\ t.updated = s.updated
BY DEF Lengthened, SessionFields

LEMMA GoodLengthened ==
  ASSUME NEW req, NEW req2, NEW app, NEW app2, NEW now, NEW now2, Forth(req, req2, app, app2, now, now2),
         NEW s, Good(s, req, app, now), NEW x,
         Fresher(UnitsUnder(app, s.key), x), UnitsUnder(app2, s.key) = UnitsUnder(app, s.key) \o x
  PROVE  Good(Lengthened(s, x), req2, app2, now2)
<1> DEFINE t == Lengthened(s, x)
<1>1. /\ t = [y \in SessionFields |-> t[y]] /\ t.key = s.key /\ t.summary = s.summary
      /\ t.messages = s.messages \o x /\ t.turns = s.turns /\ t.updated = s.updated
  BY LengthenedIs DEF Good
<1> HIDE DEF t
<1>2. Good(s, req2, app2, now2)
  BY GoodStays
<1>3. s.messages \in Seq(Unit) /\ x \in Seq(Unit)
  BY DEF Good, Fresher
<1>4. t.messages \in Seq(Unit)
  BY <1>1, <1>3, JoinedIs
<1>5. Ordered(t.messages, UnitsUnder(app2, t.key))
  <2>1. Ordered(s.messages, UnitsUnder(app, s.key))
    BY DEF Good
  <2>2. QED
    BY <1>1, <1>3, <2>1, JoinedOrdered
<1>6. QED
  BY <1>1, <1>2, <1>4, <1>5 DEF Good, t

LEMMA PartialLengthened ==
  ASSUME NEW req, NEW req2, NEW app, NEW app2, NEW now, NEW now2, Forth(req, req2, app, app2, now, now2),
         NEW s, Good(s, req, app, now), NEW x,
         Fresher(UnitsUnder(app, s.key), x), UnitsUnder(app2, s.key) = UnitsUnder(app, s.key) \o x,
         NEW d, Partial(d, s, req, app)
  PROVE  Partial(d, Lengthened(s, x), req2, app2)
<1> DEFINE t == Lengthened(s, x)
           u == UnitsUnder(app, d.key)
           v == UnitsUnder(app2, d.key)
<1>1. t.key = s.key /\ t.messages = s.messages \o x
  BY LengthenedIs DEF Good
<1> HIDE DEF t
<1>2. Partial(d, s, req2, app2)
  BY PartialStays
<1>3. s.messages \in Seq(Unit) /\ x \in Seq(Unit) /\ d.messages \in Seq(Unit)
  BY DEF Good, Fresher, Partial
<1>4. Fresher(u, x) /\ v = u \o x /\ Ordered(d.messages, u) /\ Ordered(s.messages, u)
  BY DEF Partial, Good
<1>5. \A i \in DOMAIN d.messages, j \in DOMAIN s.messages :
        j > Len(d.messages) => Precedes(d.messages[i], s.messages[j], v)
  BY <1>2 DEF Partial
<1> HIDE DEF u, v
<1>6. \A i \in DOMAIN d.messages, j \in DOMAIN t.messages :
        j > Len(d.messages) => Precedes(d.messages[i], t.messages[j], v)
  <2> TAKE i \in DOMAIN d.messages
  <2> TAKE j \in DOMAIN t.messages
  <2> SUFFICES ASSUME j > Len(d.messages) PROVE Precedes(d.messages[i], t.messages[j], v)
    OBVIOUS
  <2>1. \/ j \in DOMAIN s.messages /\ t.messages[j] = s.messages[j]
        \/ j - Len(s.messages) \in DOMAIN x /\ t.messages[j] = x[j - Len(s.messages)]
    BY <1>1, <1>3, JoinedIs
  <2>2. CASE j \in DOMAIN s.messages /\ t.messages[j] = s.messages[j]
    BY <1>5, <2>2
  <2>3. CASE j - Len(s.messages) \in DOMAIN x /\ t.messages[j] = x[j - Len(s.messages)]
    <3>1. Within(d.messages[i], u)
      BY <1>4 DEF Ordered
    <3>2. QED
      BY <1>4, <2>3, <3>1, OldPrecedesNew
  <2>4. QED
    BY <2>1, <2>2, <2>3
<1>7. QED
  BY <1>1, <1>2, <1>6 DEF Partial, v, t

LEMMA StoreStep ==
  ASSUME SessionsInv, NEW r \in Callers, Store(r)
  PROVE  SessionsInv'
<1> DEFINE key == request[r].key
           x == Units(r)
           o == sessions[key]
           q == Moved(request[r], "turn")
           u == UnitsUnder(appended, key)
<1>0. request[r].pc = "append" /\ RequestOK(request[r], request, object) /\ RequestInv
  BY DEF SessionsInv, RequestInv, Store
<1>1. CASE Absent(sessions, key)
  <2>1. To(r, "count") /\ UNCHANGED <<storeVars, locals>>
    BY <1>1 DEF Store, locals
  <2>2. QED
    BY <1>0, <2>1, MovesQuietly
<1>2. CASE ~ Absent(sessions, key)
  <2>1. /\ lock = None /\ lock' = r
        /\ object' = [object EXCEPT ![o].messages = @ \o x]
        /\ clock' = clock
        /\ dataDir' = dataDir /\ sessions' = sessions /\ writer' = writer /\ path' = path /\ tmp' = tmp /\ inode' = inode
        /\ appended' = (IF Absent(appended, key) THEN Set(appended, key, x)
                        ELSE [appended EXCEPT ![key] = @ \o x])
        /\ loaded' = loaded /\ To(r, "turn") /\ key \in DOMAIN sessions
    BY <1>2 DEF Store, Append1, Absent
  <2>2. /\ o \in Objects /\ o # None /\ Good(object[o], request, appended, clock) /\ object[o].key = key
    BY <2>1, InTheMap
  <2>3. object' = [object EXCEPT ![o] = Lengthened(object[o], x)]
    BY <2>1, <2>2 DEF SessionsInv, MapInv, Lengthened
  <2>4. clock \in Nat /\ clock' \in Nat /\ clock <= clock'
    <3>1. clock \in Nat /\ clock' = clock
      BY <2>1 DEF SessionsInv, MapInv
    <3>2. QED
      BY <3>1
  <2>5. request' = [request EXCEPT ![r] = q]
    BY <1>0, <2>1, MovesOn
  <2>6. /\ q = [y \in RequestFields |-> q[y]] /\ q.pc = "turn" /\ q.sess = request[r].sess
        /\ q.key = request[r].key /\ q.msgs = request[r].msgs /\ q.batch = request[r].batch
        /\ q.prefix = request[r].prefix /\ q.current = request[r].current
    BY <1>0, MovedIs DEF RequestOK
  <2> HIDE DEF q, o
  <2>7. /\ request' = [p \in Callers |-> request'[p]] /\ request'[r] = q
        /\ \A p \in Callers \ {r} : request'[p] = request[p]
    BY <1>0, <2>5 DEF RequestInv
  <2>8. \A p \in Callers : Onward(request[p], request'[p])
    BY <1>0, <2>6, <2>7 DEF Onward, Stored, Locked
  \* What is stored.
  <2>9. x \in Seq(Unit) /\ Distinct(x) /\ \A i \in DOMAIN x : x[i][1] = r
    <3>1. request[r].batch \in Nat
      BY <1>0 DEF RequestOK
    <3>2. QED
      BY <3>1 DEF Units, Unit, Distinct
  <2> HIDE DEF x
  <2>10. u \in Seq(Unit) /\ Distinct(u) /\ \A n \in DOMAIN u : u[n][1] \in Callers /\ request[u[n][1]].pc \in Stored
    <3>1. CASE Absent(appended, key)
      <4>1. u = <<>>
        BY <3>1 DEF UnitsUnder
      <4>2. u \in Seq(Unit) /\ DOMAIN u = {}
        BY <4>1, EmptySeq
      <4>3. QED
        BY <4>2 DEF Distinct
    <3>2. CASE ~ Absent(appended, key)
      <4>1. u = appended[key] /\ key \in DOMAIN appended
        BY <3>2 DEF UnitsUnder, Absent
      <4>2. u \in Seq(Unit) /\ Distinct(u) /\ \A n \in DOMAIN u : request[u[n][1]].pc \in Stored
        BY <4>1 DEF SessionsInv, AppendedInv
      <4>3. \A n \in DOMAIN u : u[n] \in Unit
        BY <4>2
      <4>4. QED
        BY <4>2, <4>3 DEF Unit
    <3>3. QED
      BY <3>1, <3>2
  <2> HIDE DEF u
  <2>11. Fresher(u, x)
    BY <1>0, <2>9, <2>10 DEF Fresher, Stored, Locked
  <2>12. /\ DOMAIN appended' = DOMAIN appended \cup {key} /\ appended'[key] = u \o x
         /\ \A k \in DOMAIN appended' \ {key} : appended'[k] = appended[k]
    <3>1. CASE Absent(appended, key)
      <4>1. u = <<>> /\ u \o x = x
        BY <2>9, <3>1, ConcatEmptySeq DEF u, UnitsUnder
      <4>2. QED
        BY <2>1, <3>1, <4>1 DEF Set
    <3>2. CASE ~ Absent(appended, key)
      <4>1. u = appended[key] /\ key \in DOMAIN appended
        BY <3>2 DEF u, UnitsUnder, Absent
      <4>2. QED
        BY <2>1, <3>2, <4>1
    <3>3. QED
      BY <3>1, <3>2
  <2>13. Grown(u, u \o x) /\ u \o x \in Seq(Unit)
    BY <2>11, JoinedGrows
  <2>14. UnitsUnder(appended', key) = u \o x
    BY <2>12 DEF UnitsUnder, Absent
  <2>15. \A k : Grown(UnitsUnder(appended, k), UnitsUnder(appended', k))
    <3> TAKE k
    <3>1. CASE k = key
      BY <2>13, <2>14, <3>1 DEF u
    <3>2. CASE k # key
      <4>1. UnitsUnder(appended', k) = UnitsUnder(appended, k)
        BY <2>12, <3>2 DEF UnitsUnder, Absent
      <4>2. Distinct(UnitsUnder(appended, k))
        BY DEF SessionsInv, AppendedInv, UnitsUnder, Distinct, Absent
      <4>3. QED
        BY <4>1, <4>2 DEF Grown
    <3>3. QED
      BY <3>1, <3>2
  <2>16. Forth(request, request', appended, appended', clock, clock')
    BY <2>4, <2>8, <2>15 DEF Forth
  <2>17. AppendedInv'
    <3> SUFFICES ASSUME NEW k \in DOMAIN appended'
                 PROVE  /\ appended'[k] \in Seq(Unit) /\ Distinct(appended'[k])
                        /\ \A n \in DOMAIN appended'[k] : request'[appended'[k][n][1]].pc \in Stored
      BY DEF AppendedInv
    <3>1. CASE k = key
      <4>1. appended'[k] \in Seq(Unit) /\ Distinct(appended'[k]) /\ appended'[k] = u \o x
        BY <2>12, <2>13, <3>1 DEF Grown
      <4>2. ASSUME NEW n \in DOMAIN (u \o x) PROVE request'[(u \o x)[n][1]].pc \in Stored
        <5>1. \/ n \in DOMAIN u /\ (u \o x)[n] = u[n]
              \/ n - Len(u) \in DOMAIN x /\ n > Len(u) /\ (u \o x)[n] = x[n - Len(u)]
          BY <2>9, <2>10, JoinedIs
        <5>2. CASE n \in DOMAIN u /\ (u \o x)[n] = u[n]
          BY <2>8, <2>10, <5>2 DEF Onward
        <5>3. CASE n - Len(u) \in DOMAIN x /\ (u \o x)[n] = x[n - Len(u)]
          BY <2>6, <2>7, <2>9, <5>3 DEF Stored, Locked
        <5>4. QED
          BY <5>1, <5>2, <5>3
      <4>3. QED
        BY <4>1, <4>2
    <3>2. CASE k # key
      <4>1. k \in DOMAIN appended /\ appended'[k] = appended[k]
        BY <2>12, <3>2
      <4>2. /\ appended[k] \in Seq(Unit) /\ Distinct(appended[k])
            /\ \A n \in DOMAIN appended[k] : request[appended[k][n][1]].pc \in Stored
        BY <4>1 DEF SessionsInv, AppendedInv
      <4>3. \A n \in DOMAIN appended[k] : appended[k][n] \in Unit
        BY <4>2
      <4>4. \A n \in DOMAIN appended[k] : appended[k][n][1] \in Callers
        BY <4>3 DEF Unit
      <4>5. QED
        BY <2>8, <4>1, <4>2, <4>4 DEF Onward
    <3>3. QED
      BY <3>1, <3>2
  \* The session it is stored in.
  <2>18. object = [p \in Objects |-> object[p]] /\ \A p \in Objects \ {o} : object'[p] = object[p]
    BY <2>3 DEF SessionsInv, MapInv
  <2>19. object'[o] = Lengthened(object[o], x) /\ object' = [p \in Objects |-> object'[p]]
    BY <2>2, <2>3, <2>18
  <2>20. /\ Fresher(UnitsUnder(appended, object[o].key), x)
         /\ UnitsUnder(appended', object[o].key) = UnitsUnder(appended, object[o].key) \o x
    BY <2>2, <2>11, <2>14 DEF u
  <2>21. Good(object'[o], request', appended', clock')
    <3>1. Good(object[o], request, appended, clock)
      BY <2>2
    <3>2. Good(Lengthened(object[o], x), request', appended', clock')
      BY <2>16, <2>20, <3>1, GoodLengthened
    <3>3. QED
      BY <2>19, <3>2
  <2>22. \A p \in Objects : object'[p].key = object[p].key
    <3>1. Lengthened(object[o], x).key = object[o].key
      BY <2>2, LengthenedIs DEF Good
    <3>2. QED
      BY <2>18, <2>19, <3>1
  <2>23. RequestInv'
    <3>1. RequestOK(request[r], request', object)
      BY <1>0, <2>16, RequestStays
    <3>2. request[r].sess = None
      BY <1>0 DEF RequestOK
    <3>3. RequestOK(q, request', object')
      BY <1>0, <2>6, <3>1, <3>2 DEF RequestOK, Keyed, Stored, Locked
    <3>4. \A p \in Pointers \ {None} : object'[p].key = object[p].key
      BY <2>22 DEF SessionsInv, HeapInv, Referenced
    <3>5. QED
      BY <1>0, <2>7, <2>16, <3>3, <3>4, OthersStay
  <2>24. LockInv'
    BY <2>1, <2>6, <2>7, StoreAssumption DEF SessionsInv, LockInv, Locked
  <2>25. MapInv'
    BY <2>1, <2>4, <2>19, <2>22 DEF SessionsInv, MapInv
  <2>26. HeapInv'
    <3>1. Referenced' \subseteq Referenced \cup {None}
      <4>1. \A p \in Callers : request'[p].sess = request[p].sess
        BY <2>6, <2>7
      <4>2. QED
        BY <2>1, <4>1 DEF Referenced, Pointers
    <3>2. \A p \in Referenced \ {None} : p \in Objects
      BY DEF SessionsInv, HeapInv
    <3>3. QED
      BY <2>16, <2>18, <2>21, <3>1, <3>2, HeapStays DEF SessionsInv
  <2>27. WriterInv'
    <3>1. ASSUME NEW w \in Writers, writer[w].pc = "element"
          PROVE  \/ object'[writer[w].obj] = object[writer[w].obj]
                 \/ Partial(writer[w].data, object'[writer[w].obj], request', appended')
      <4>1. WriterOK(w, writer[w], request, appended, clock, object)
        BY DEF SessionsInv, WriterInv
      <4>2. writer[w].obj # None /\ Partial(writer[w].data, object[writer[w].obj], request, appended)
        BY <3>1, <4>1 DEF WriterOK
      <4>3. writer[w].obj \in Objects
        BY <4>2 DEF SessionsInv, HeapInv, Referenced
      <4>4. CASE writer[w].obj = o
        <5>1. Partial(writer[w].data, object[o], request, appended)
          BY <4>2, <4>4
        <5>2. Good(object[o], request, appended, clock)
          BY <2>2
        <5>3. Partial(writer[w].data, Lengthened(object[o], x), request', appended')
          BY <2>16, <2>20, <5>1, <5>2, PartialLengthened
        <5>4. QED
          BY <2>19, <4>4, <5>3
      <4>5. QED
        BY <2>18, <4>3, <4>4
    <3>2. QED
      BY <2>1, <2>16, <3>1, WritersStay DEF SessionsInv
  <2>28. FileInv'
    BY <2>1, <2>16, FilesStay DEF SessionsInv
  <2>29. QED
    BY <2>17, <2>23, <2>24, <2>25, <2>26, <2>27, <2>28 DEF SessionsInv
<1>3. QED
  BY <1>1, <1>2

\* What is left of the messages is their end.
EndOf(t, m, n) ==
  /\ t \in Seq(Unit) /\ n \in 0 .. Len(m)
  /\ \A i \in DOMAIN t : i + n \in DOMAIN m /\ t[i] = m[i + n]

LEMMA TrimmedIs ==
  ASSUME NEW m \in Seq(Unit)
  PROVE  \E n \in Nat : EndOf(Trimmed(m), m, n)
<1> DEFINE len == Len(m)
           k == len - maxHistory + 1
           first == Max({1, k})
<1>1. len \in Nat /\ maxHistory \in Nat \ {0} /\ k \in Int /\ DOMAIN m = 1 .. len
  BY StoreAssumption
<1>2. first \in {1, k} /\ first >= 1
  <2>1. \E x \in {1, k} : \A y \in {1, k} : x >= y
    BY <1>1
  <2>2. first \in {1, k} /\ \A y \in {1, k} : first >= y
    BY <2>1 DEF Max
  <2>3. QED
    BY <1>1, <2>2
<1>3. k <= len
  BY <1>1
<1> HIDE DEF k, first, len
<1>4. first \in 1 .. len + 1
  BY <1>1, <1>2, <1>3
<1>5. first \in Int /\ len \in Int /\ first - 1 \in Nat /\ first - 1 \in 0 .. len
  BY <1>1, <1>4
<1>6. \A i \in first .. len : m[i] \in Unit
  BY <1>1, <1>4
<1>7. /\ SubSeq(m, first, len) \in Seq(Unit)
      /\ Len(SubSeq(m, first, len)) = (IF first <= len THEN len - first + 1 ELSE 0)
      /\ \A i \in 1 .. len - first + 1 : SubSeq(m, first, len)[i] = m[first + i - 1]
  BY <1>5, <1>6, SubSeqProperties
<1>8. Trimmed(m) = SubSeq(m, first, len)
  BY DEF Trimmed, first, k, len
<1>9. ASSUME NEW i \in DOMAIN SubSeq(m, first, len)
      PROVE  i + (first - 1) \in DOMAIN m /\ SubSeq(m, first, len)[i] = m[i + (first - 1)]
  <2>1. i \in 1 .. len - first + 1
    BY <1>1, <1>4, <1>7
  <2>2. i + (first - 1) = first + i - 1 /\ i + (first - 1) \in 1 .. len
    BY <1>1, <1>4, <2>1
  <2>3. QED
    BY <1>1, <1>7, <2>1, <2>2
<1>10. EndOf(Trimmed(m), m, first - 1)
  BY <1>5, <1>7, <1>8, <1>9 DEF EndOf, len
<1>11. QED
  BY <1>5, <1>10

LEMMA EndOrdered ==
  ASSUME NEW m \in Seq(Unit), NEW t, NEW n \in Nat, EndOf(t, m, n), NEW u, Ordered(m, u)
  PROVE  Ordered(t, u) /\ TurnsOf(t) \subseteq TurnsOf(m)
<1>1. t \in Seq(Unit) /\ DOMAIN t \subseteq Nat
  BY DEF EndOf
<1>2. \A i \in DOMAIN t : i + n \in DOMAIN m /\ t[i] = m[i + n]
  BY DEF EndOf
<1>3. \A i, j \in DOMAIN t : i < j => i + n < j + n
  BY <1>1
<1>4. Ordered(t, u)
  BY <1>2, <1>3 DEF Ordered
<1>5. TurnsOf(t) \subseteq TurnsOf(m)
  BY <1>2 DEF TurnsOf
<1>6. QED
  BY <1>4, <1>5

Cut(s, now) == [s EXCEPT !.updated = now, !.messages = Trimmed(@)]

LEMMA CutIs ==
  ASSUME NEW s, s = [y \in SessionFields |-> s[y]], NEW now2
  PROVE  LET t == Cut(s, now2)
         IN /\ t = [y \in SessionFields |-> t[y]] /\ t.key = s.key /\ t.summary = s.summary
            /\ t.messages = Trimmed(s.messages) /\ t.turns = s.turns /\ t.updated = now2
BY DEF Cut, SessionFields

LEMMA GoodCut ==
  ASSUME NEW req, NEW app, NEW now \in Nat, NEW s, Good(s, req, app, now)
  PROVE  Good(Cut(s, now), req, app, now)
<1>1. s.messages \in Seq(Unit) /\ Ordered(s.messages, UnitsUnder(app, s.key))
  BY DEF Good
<1> DEFINE t == Cut(s, now)
<1>2. /\ t = [y \in SessionFields |-> t[y]] /\ t.key = s.key /\ t.summary = s.summary
      /\ t.messages = Trimmed(s.messages) /\ t.turns = s.turns /\ t.updated = now
  BY CutIs DEF Good
<1> HIDE DEF t
<1>3. PICK n \in Nat : EndOf(Trimmed(s.messages), s.messages, n)
  BY <1>1, TrimmedIs
<1>4. Ordered(t.messages, UnitsUnder(app, t.key))
  BY <1>1, <1>2, <1>3, EndOrdered
<1>5. t.messages \in Seq(Unit) /\ t.updated \in 0 .. now
  BY <1>2, <1>3 DEF EndOf
<1>6. QED
  BY <1>2, <1>4, <1>5 DEF Good, t

LEMMA PartialCut ==
  ASSUME NEW req, NEW app, NEW now \in Nat, NEW s, Good(s, req, app, now), NEW d, Partial(d, s, req, app)
  PROVE  Partial(d, Cut(s, now), req, app)
<1>1. s.messages \in Seq(Unit) /\ d.messages \in Seq(Unit)
  BY DEF Good, Partial
<1> DEFINE t == Cut(s, now)
<1>2. t.key = s.key /\ t.messages = Trimmed(s.messages)
  BY CutIs DEF Good
<1> HIDE DEF t
<1>3. PICK n \in Nat : EndOf(Trimmed(s.messages), s.messages, n)
  BY <1>1, TrimmedIs
<1>4. \A i \in DOMAIN d.messages, j \in DOMAIN t.messages :
        j > Len(d.messages) => Precedes(d.messages[i], t.messages[j], UnitsUnder(app, d.key))
  <2> TAKE i \in DOMAIN d.messages
  <2> TAKE j \in DOMAIN t.messages
  <2> SUFFICES ASSUME j > Len(d.messages) PROVE Precedes(d.messages[i], t.messages[j], UnitsUnder(app, d.key))
    OBVIOUS
  <2>1. j + n \in DOMAIN s.messages /\ t.messages[j] = s.messages[j + n] /\ j \in Nat
    BY <1>2, <1>3 DEF EndOf
  <2>2. j + n > Len(d.messages)
    BY <1>1, <2>1
  <2>3. QED
    BY <2>1, <2>2 DEF Partial
<1>5. QED
  BY <1>2, <1>4 DEF Partial, t

\* A goroutine is started for a session in memory.
LEMMA Spawns ==
  ASSUME SessionsInv, Forth(request, request', appended, appended', clock, clock'),
         NEW w \in Writers, NEW o, o # None, writer' = Spawned(w, o),
         ~ Started(w, request), Started(w, request'), UNCHANGED <<path, tmp, inode>>,
         \A v \in Writers : writer[v].pc = "element" =>
           \/ object'[writer[v].obj] = object[writer[v].obj]
           \/ Partial(writer[v].data, object'[writer[v].obj], request', appended')
  PROVE  /\ WriterInv' /\ FileInv'
         /\ \A v \in Writers : writer'[v].obj \in {writer[v].obj, o}
<1> DEFINE new == [IdleWriter EXCEPT !.pc = "begin", !.obj = o]
<1>1. writer = [v \in Writers |-> writer[v]] /\ WriterInv /\ HeapInv
  BY DEF SessionsInv, WriterInv
<1>2. /\ writer' = [v \in Writers |-> writer'[v]]
      /\ \A v \in Writers : writer'[v] = writer[v] \/ (v = w /\ writer'[v] = new)
  BY <1>1 DEF Spawned
<1>3. /\ new = [x \in WriterFields |-> new[x]] /\ new.pc = "begin" /\ new.obj = o
  BY DEF IdleWriter, WriterFields
<1> HIDE DEF new
<1>4. ASSUME NEW v \in Writers PROVE WriterOK(v, writer'[v], request', appended', clock', object')
  <2>1. CASE writer'[v] = writer[v]
    BY <1>1, <2>1, OneWriterStays
  <2>2. CASE v = w /\ writer'[v] = new
    BY <1>3, <2>2 DEF WriterOK, Saving
  <2>3. QED
    BY <1>2, <2>1, <2>2
<1>5. WriterInv'
  BY <1>2, <1>4 DEF WriterInv
<1>6. \A v \in Writers : writer'[v].pc \in Saving => writer'[v] = writer[v]
  BY <1>2, <1>3 DEF Saving
<1>7. \A v \in Writers : writer'[v].pc \in {"begin", "element"} =>
        writer[v].pc \in {"begin", "element"} \/ ~ Started(v, request)
  BY <1>2
<1>8. FileInv'
  BY <1>6, <1>7, FilesStay DEF SessionsInv
<1>9. QED
  BY <1>2, <1>3, <1>5, <1>8

LEMMA CountedIs ==
  ASSUME NEW req, NEW app, NEW now, NEW s, Good(s, req, app, now)
  PROVE  /\ Good(Counted(s), req, app, now) /\ Counted(s).key = s.key
         /\ Counted(s).messages = s.messages /\ Counted(s).turns = s.turns + 1
         /\ \A d : Partial(d, s, req, app) => Partial(d, Counted(s), req, app)
<1> DEFINE t == Counted(s)
<1>1. s = [y \in SessionFields |-> s[y]] /\ s.turns \in Nat
  BY DEF Good
<1>2. /\ t = [y \in SessionFields |-> t[y]] /\ t.key = s.key /\ t.summary = s.summary
      /\ t.messages = s.messages /\ t.turns = s.turns + 1 /\ t.updated = s.updated
  BY <1>1 DEF Counted, SessionFields
<1> HIDE DEF t
<1>3. Good(t, req, app, now)
  BY <1>1, <1>2 DEF Good
<1>4. \A d : Partial(d, s, req, app) => Partial(d, t, req, app)
  BY <1>2 DEF Partial
<1>5. QED
  BY <1>2, <1>3, <1>4 DEF t

LEMMA TurnStep ==
  ASSUME SessionsInv, NEW r \in Callers, Turn(r)
  PROVE  SessionsInv'
<1> DEFINE key == request[r].key
           o == sessions[key]
           q == Moved(request[r], "trim")
<1>0. request[r].pc = "turn" /\ RequestOK(request[r], request, object) /\ RequestInv /\ key \in DOMAIN sessions
  BY DEF SessionsInv, RequestInv, Turn, LockInv, Locked
<1>1. /\ lock = r /\ lock' = lock
      /\ object' = [object EXCEPT ![o] = Counted(@)]
      /\ clock' = clock /\ writer' = writer
      /\ dataDir' = dataDir /\ sessions' = sessions /\ path' = path /\ tmp' = tmp /\ inode' = inode
      /\ appended' = appended /\ loaded' = loaded /\ To(r, "trim")
  BY DEF Turn, Append2, locals
<1>2. /\ o \in Objects /\ o # None /\ Good(object[o], request, appended, clock) /\ object[o].key = key
  BY <1>0, InTheMap
<1>3. object = [p \in Objects |-> object[p]]
  BY DEF SessionsInv, MapInv
<1>4. clock \in Nat /\ clock' \in Nat /\ clock <= clock'
  BY <1>1 DEF SessionsInv, MapInv
<1>5. request' = [request EXCEPT ![r] = q]
  BY <1>0, <1>1, MovesOn
<1>6. /\ q = [y \in RequestFields |-> q[y]] /\ q.pc = "trim" /\ q.sess = request[r].sess
      /\ q.key = request[r].key /\ q.msgs = request[r].msgs /\ q.batch = request[r].batch
      /\ q.prefix = request[r].prefix /\ q.current = request[r].current
  BY <1>0, MovedIs DEF RequestOK
<1> HIDE DEF q, o
<1>7. Onward(request[r], q)
  BY <1>0, <1>6 DEF Onward, Stored, Locked
<1>8. /\ Forth(request, request', appended, appended', clock, clock') /\ AppendedInv'
      /\ request' = [p \in Callers |-> request'[p]] /\ request'[r] = q
      /\ \A p \in Callers \ {r} : request'[p] = request[p]
  BY <1>0, <1>1, <1>4, <1>5, <1>7, Alone DEF SessionsInv
<1>9. object'[o] = Counted(object[o]) /\ object' = [p \in Objects |-> object'[p]] /\ \A p \in Objects \ {o} : object'[p] = object[p]
  BY <1>1, <1>2, <1>3
<1>10. Good(object[o], request', appended', clock') /\ Good(object'[o], request', appended', clock')
  BY <1>2, <1>8, <1>9, CountedIs, GoodStays
<1>11. \A p \in Objects : object'[p].key = object[p].key
  <2>1. object[o] = [y \in SessionFields |-> object[o][y]]
    BY <1>2 DEF Good
  <2>2. Counted(object[o]).key = object[o].key
    BY <2>1 DEF Counted, SessionFields
  <2>3. QED
    BY <1>9, <2>2
<1>12. RequestInv'
  <2>1. RequestOK(request[r], request', object)
    BY <1>0, <1>8, RequestStays
  <2>2. request[r].sess = None
    BY <1>0 DEF RequestOK
  <2>3. RequestOK(q, request', object')
    BY <1>0, <1>6, <2>1, <2>2 DEF RequestOK, Keyed, Stored, Locked
  <2>4. \A p \in Pointers \ {None} : object'[p].key = object[p].key
    BY <1>11 DEF SessionsInv, HeapInv, Referenced
  <2>5. QED
    BY <1>0, <1>8, <2>3, <2>4, OthersStay
<1>13. LockInv'
  BY <1>0, <1>1, <1>6, <1>8 DEF SessionsInv, LockInv, Locked
<1>14. MapInv'
  BY <1>1, <1>4, <1>9, <1>11 DEF SessionsInv, MapInv
<1>15. WriterInv'
  <2>1. ASSUME NEW w \in Writers, writer[w].pc = "element"
        PROVE  \/ object'[writer[w].obj] = object[writer[w].obj]
               \/ Partial(writer[w].data, object'[writer[w].obj], request', appended')
    <3>1. WriterOK(w, writer[w], request, appended, clock, object)
      BY DEF SessionsInv, WriterInv
    <3>2. writer[w].obj # None /\ Partial(writer[w].data, object[writer[w].obj], request, appended)
      BY <2>1, <3>1 DEF WriterOK
    <3>3. writer[w].obj \in Objects
      BY <3>2 DEF SessionsInv, HeapInv, Referenced
    <3>4. CASE writer[w].obj = o
      <4>1. Partial(writer[w].data, object[o], request', appended')
        BY <1>2, <1>8, <3>2, <3>4, PartialStays
      <4>2. QED
        BY <1>9, <1>10, <3>4, <4>1, CountedIs
    <3>5. QED
      BY <1>9, <3>3, <3>4
  <2>2. QED
    BY <1>1, <1>8, <2>1, WritersStay DEF SessionsInv
<1>16. HeapInv'
  <2>1. Referenced' \subseteq Referenced \cup {None}
    <3>1. \A p \in Callers : request'[p].sess = request[p].sess
      BY <1>6, <1>8
    <3>2. QED
      BY <1>1, <3>1 DEF Referenced, Pointers
  <2>2. \A p \in Referenced \ {None} : p \in Objects
    BY DEF SessionsInv, HeapInv
  <2>3. QED
    BY <1>8, <1>9, <1>10, <2>1, <2>2, HeapStays DEF SessionsInv
<1>17. FileInv'
  BY <1>1, <1>8, FilesStay DEF SessionsInv
<1>18. QED
  BY <1>8, <1>12, <1>13, <1>14, <1>15, <1>16, <1>17 DEF SessionsInv

LEMMA TrimStep ==
  ASSUME SessionsInv, NEW r \in Callers, Trim(r)
  PROVE  SessionsInv'
<1> DEFINE key == request[r].key
           o == sessions[key]
           q == Moved(request[r], "count")
           w == <<r, "append">>
<1>0. request[r].pc = "trim" /\ RequestOK(request[r], request, object) /\ RequestInv /\ key \in DOMAIN sessions
  BY DEF SessionsInv, RequestInv, Trim, LockInv, Locked
<1>1. /\ lock = r /\ lock' = None
      /\ object' = [object EXCEPT ![o].updated = clock + 1, ![o].messages = Trimmed(@)]
      /\ clock' = clock + 1
      /\ writer' = Spawned(w, o)
      /\ dataDir' = dataDir /\ sessions' = sessions /\ path' = path /\ tmp' = tmp /\ inode' = inode
      /\ appended' = appended /\ loaded' = loaded /\ To(r, "count")
  BY DEF Trim, Append3, locals
<1>2. /\ o \in Objects /\ o # None /\ Good(object[o], request, appended, clock) /\ object[o].key = key
  BY <1>0, InTheMap
<1>3. object' = [object EXCEPT ![o] = Cut(object[o], clock')] /\ object = [p \in Objects |-> object[p]]
  BY <1>1, <1>2 DEF SessionsInv, MapInv, Cut
<1>4. clock \in Nat /\ clock' \in Nat /\ clock <= clock'
  <2>1. clock \in Nat /\ clock' = clock + 1
    BY <1>1 DEF SessionsInv, MapInv
  <2>2. QED
    BY <2>1
<1>5. request' = [request EXCEPT ![r] = q]
  BY <1>0, <1>1, MovesOn
<1>6. /\ q = [y \in RequestFields |-> q[y]] /\ q.pc = "count" /\ q.sess = request[r].sess
      /\ q.key = request[r].key /\ q.msgs = request[r].msgs /\ q.batch = request[r].batch
      /\ q.prefix = request[r].prefix /\ q.current = request[r].current
  BY <1>0, MovedIs DEF RequestOK
<1> HIDE DEF q, o
<1>7. Onward(request[r], q)
  BY <1>0, <1>6 DEF Onward, Stored, Locked
<1>8. /\ Forth(request, request', appended, appended', clock, clock') /\ AppendedInv'
      /\ request' = [p \in Callers |-> request'[p]] /\ request'[r] = q
      /\ \A p \in Callers \ {r} : request'[p] = request[p]
  BY <1>0, <1>1, <1>4, <1>5, <1>7, Alone DEF SessionsInv
<1>9. object'[o] = Cut(object[o], clock') /\ object' = [p \in Objects |-> object'[p]] /\ \A p \in Objects \ {o} : object'[p] = object[p]
  BY <1>2, <1>3
<1>10. Good(object'[o], request', appended', clock')
  <2>1. Good(object[o], request', appended', clock')
    BY <1>2, <1>8, GoodStays
  <2>2. QED
    BY <1>4, <1>9, <2>1, GoodCut
<1>11. \A p \in Objects : object'[p].key = object[p].key
  <2>1. Cut(object[o], clock').key = object[o].key
    BY <1>2, CutIs DEF Good
  <2>2. QED
    BY <1>9, <2>1
<1>12. RequestInv'
  <2>1. RequestOK(request[r], request', object)
    BY <1>0, <1>8, RequestStays
  <2>2. request[r].sess = None
    BY <1>0 DEF RequestOK
  <2>3. RequestOK(q, request', object')
    BY <1>0, <1>6, <2>1, <2>2 DEF RequestOK, Keyed, Stored, Locked
  <2>4. \A p \in Pointers \ {None} : object'[p].key = object[p].key
    BY <1>11 DEF SessionsInv, HeapInv, Referenced
  <2>5. QED
    BY <1>0, <1>8, <2>3, <2>4, OthersStay
<1>13. LockInv'
  <2>1. \A p \in Callers : request'[p].pc \notin Locked
    BY <1>0, <1>1, <1>6, <1>8 DEF SessionsInv, LockInv, Locked
  <2>2. QED
    BY <1>1, <2>1, StoreAssumption DEF LockInv, Locked
<1>14. MapInv'
  BY <1>1, <1>4, <1>9, <1>11 DEF SessionsInv, MapInv
<1>15. /\ WriterInv' /\ FileInv'
       /\ \A v \in Writers : writer'[v].obj \in {writer[v].obj, o}
  <2>1. w \in Writers /\ ~ Started(w, request) /\ Started(w, request')
    BY <1>0, <1>6, <1>8 DEF Writers, Started, Stored, Locked
  <2>2. ASSUME NEW v \in Writers, writer[v].pc = "element"
        PROVE  \/ object'[writer[v].obj] = object[writer[v].obj]
               \/ Partial(writer[v].data, object'[writer[v].obj], request', appended')
    <3>1. WriterOK(v, writer[v], request, appended, clock, object)
      BY DEF SessionsInv, WriterInv
    <3>2. writer[v].obj # None /\ Partial(writer[v].data, object[writer[v].obj], request, appended)
      BY <2>2, <3>1 DEF WriterOK
    <3>3. writer[v].obj \in Objects
      BY <3>2 DEF SessionsInv, HeapInv, Referenced
    <3>4. CASE writer[v].obj = o
      <4>1. Partial(writer[v].data, object[o], request, appended)
        BY <3>2, <3>4
      <4>2. Good(object[o], request', appended', clock') /\ Partial(writer[v].data, object[o], request', appended')
        BY <1>2, <1>8, <4>1, GoodStays, PartialStays
      <4>3. Partial(writer[v].data, Cut(object[o], clock'), request', appended')
        BY <1>4, <4>2, PartialCut
      <4>4. QED
        BY <1>9, <3>4, <4>3
    <3>5. QED
      BY <1>9, <3>3, <3>4
  <2>3. QED
    BY <1>1, <1>2, <1>8, <2>1, <2>2, Spawns
<1>16. HeapInv'
  <2>1. Referenced' \subseteq Referenced \cup {o}
    <3>1. \A p \in Callers : request'[p].sess = request[p].sess
      BY <1>6, <1>8
    <3>2. QED
      BY <1>1, <1>15, <3>1 DEF Referenced, Pointers
  <2>2. \A p \in Referenced \ {None} : p \in Objects
    BY DEF SessionsInv, HeapInv
  <2>3. QED
    BY <1>2, <1>8, <1>9, <1>10, <2>1, <2>2, HeapStays DEF SessionsInv
<1>17. QED
  BY <1>8, <1>12, <1>13, <1>14, <1>15, <1>16 DEF SessionsInv

Told(s, summary, now) == [s EXCEPT !.summary = summary, !.updated = now]

LEMMA GoodTold ==
  ASSUME NEW req, NEW app, NEW now \in Nat, NEW s, Good(s, req, app, now), NEW summary, OfKey(summary, s.key, req)
  PROVE  /\ Good(Told(s, summary, now), req, app, now) /\ Told(s, summary, now).key = s.key
         /\ \A d : Partial(d, s, req, app) => Partial(d, Told(s, summary, now), req, app)
<1> DEFINE t == Told(s, summary, now)
<1>1. s = [y \in SessionFields |-> s[y]]
  BY DEF Good
<1>2. /\ t = [y \in SessionFields |-> t[y]] /\ t.key = s.key /\ t.summary = summary
      /\ t.messages = s.messages /\ t.turns = s.turns /\ t.updated = now
  BY <1>1 DEF Told, SessionFields
<1> HIDE DEF t
<1>3. t.updated \in 0 .. now
  BY <1>2
<1>4. Good(t, req, app, now)
  BY <1>2, <1>3 DEF Good
<1>5. \A d : Partial(d, s, req, app) => Partial(d, t, req, app)
  BY <1>2 DEF Partial
<1>6. QED
  BY <1>2, <1>4, <1>5 DEF t

LEMMA SummariseStep ==
  ASSUME SessionsInv, NEW r \in Callers, Summarise(r)
  PROVE  SessionsInv'
<1> DEFINE key == request[r].key
           o == sessions[key]
           q == Moved(request[r], "done")
           w == <<r, "summary">>
           told == NewSummary(r)
<1>0. /\ request[r].pc = "summarise" /\ RequestOK(request[r], request, object) /\ RequestInv
      /\ To(r, "done") /\ UNCHANGED locals
  BY DEF SessionsInv, RequestInv, Summarise
<1>1. CASE UNCHANGED storeVars
  BY <1>0, <1>1, MovesQuietly
<1>2. CASE ~ Absent(sessions, key) /\ SetSummary(r, key, told)
  <2>1. /\ lock = None /\ lock' = lock /\ key \in DOMAIN sessions
        /\ object' = [object EXCEPT ![o].summary = told, ![o].updated = clock + 1]
        /\ clock' = clock + 1 /\ writer' = Spawned(w, o)
        /\ dataDir' = dataDir /\ sessions' = sessions /\ path' = path /\ tmp' = tmp /\ inode' = inode
    BY <1>2 DEF SetSummary, Absent
  <2>2. appended' = appended /\ loaded' = loaded
    BY <1>0 DEF locals
  <2>3. /\ o \in Objects /\ o # None /\ Good(object[o], request, appended, clock) /\ object[o].key = key
    BY <2>1, InTheMap
  <2>4. object' = [object EXCEPT ![o] = Told(object[o], told, clock')] /\ object = [p \in Objects |-> object[p]]
    BY <2>1, <2>3 DEF SessionsInv, MapInv, Told
  <2>5. clock \in Nat /\ clock' \in Nat /\ clock <= clock'
    <3>1. clock \in Nat /\ clock' = clock + 1
      BY <2>1 DEF SessionsInv, MapInv
    <3>2. QED
      BY <3>1
  <2>6. OfKey(told, key, request)
    BY <1>0 DEF RequestOK, OfKey, NewSummary
  <2>7. request' = [request EXCEPT ![r] = q]
    BY <1>0, MovesOn
  <2>8. /\ q = [y \in RequestFields |-> q[y]] /\ q.pc = "done" /\ q.sess = None
        /\ q.key = request[r].key /\ q.msgs = request[r].msgs /\ q.batch = request[r].batch
        /\ q.prefix = request[r].prefix /\ q.current = request[r].current
    BY <1>0, MovedIs DEF RequestOK
  <2> HIDE DEF q, o, told
  <2>9. Onward(request[r], q)
    BY <1>0, <2>8 DEF Onward, Stored, Locked
  <2>10. /\ Forth(request, request', appended, appended', clock, clock') /\ AppendedInv'
         /\ request' = [p \in Callers |-> request'[p]] /\ request'[r] = q
         /\ \A p \in Callers \ {r} : request'[p] = request[p]
    BY <1>0, <2>2, <2>5, <2>7, <2>9, Alone DEF SessionsInv
  <2>11. /\ object'[o] = Told(object[o], told, clock') /\ object' = [p \in Objects |-> object'[p]]
         /\ \A p \in Objects \ {o} : object'[p] = object[p]
    BY <2>3, <2>4
  <2>12. Good(object[o], request', appended', clock') /\ OfKey(told, object[o].key, request')
    <3>1. key # NoKey
      BY <1>0 DEF RequestOK, Keyed
    <3>2. OfKey(told, key, request')
      BY <2>6, <2>10, <3>1, OfKeyStays
    <3>3. QED
      BY <2>3, <2>10, <3>2, GoodStays
  <2>13. /\ Good(Told(object[o], told, clock'), request', appended', clock')
         /\ Told(object[o], told, clock').key = object[o].key
         /\ \A d : Partial(d, object[o], request', appended')
                     => Partial(d, Told(object[o], told, clock'), request', appended')
    BY <2>5, <2>12, GoodTold
  <2>14. \A p \in Objects : object'[p].key = object[p].key
    BY <2>11, <2>13
  <2>15. RequestInv'
    <3>1. RequestOK(request[r], request', object)
      BY <1>0, <2>10, RequestStays
    <3>2. RequestOK(q, request', object')
      BY <2>8, <3>1 DEF RequestOK, Keyed, Stored, Locked
    <3>3. \A p \in Pointers \ {None} : object'[p].key = object[p].key
      BY <2>14 DEF SessionsInv, HeapInv, Referenced
    <3>4. QED
      BY <1>0, <2>10, <3>2, <3>3, OthersStay
  <2>16. LockInv'
    <3>1. \A p \in Callers : request'[p].pc \notin Locked
      BY <2>1, <2>8, <2>10, StoreAssumption DEF SessionsInv, LockInv, Locked
    <3>2. QED
      BY <2>1, <3>1, StoreAssumption DEF LockInv, Locked
  <2>17. MapInv'
    BY <2>1, <2>2, <2>5, <2>11, <2>14 DEF SessionsInv, MapInv
  <2>18. /\ WriterInv' /\ FileInv'
         /\ \A v \in Writers : writer'[v].obj \in {writer[v].obj, o}
    <3>1. w \in Writers /\ ~ Started(w, request) /\ Started(w, request')
      BY <1>0, <2>8, <2>10 DEF Writers, Started, Stored, Locked
    <3>2. ASSUME NEW v \in Writers, writer[v].pc = "element"
          PROVE  \/ object'[writer[v].obj] = object[writer[v].obj]
                 \/ Partial(writer[v].data, object'[writer[v].obj], request', appended')
      <4>1. WriterOK(v, writer[v], request, appended, clock, object)
        BY DEF SessionsInv, WriterInv
      <4>2. writer[v].obj # None /\ Partial(writer[v].data, object[writer[v].obj], request, appended)
        BY <3>2, <4>1 DEF WriterOK
      <4>3. writer[v].obj \in Objects
        BY <4>2 DEF SessionsInv, HeapInv, Referenced
      <4>4. CASE writer[v].obj = o
        <5>1. Partial(writer[v].data, object[o], request, appended)
          BY <4>2, <4>4
        <5>2. Partial(writer[v].data, object[o], request', appended')
          BY <2>3, <2>10, <5>1, PartialStays
        <5>3. QED
          BY <2>11, <2>13, <4>4, <5>2
      <4>5. QED
        BY <2>11, <4>3, <4>4
    <3>3. QED
      BY <2>1, <2>3, <2>10, <3>1, <3>2, Spawns
  <2>19. HeapInv'
    <3>1. Referenced' \subseteq Referenced \cup {o, None}
      <4>1. \A p \in Callers : request'[p].sess \in {None, request[p].sess}
        BY <2>8, <2>10
      <4>2. QED
        BY <2>1, <2>18, <4>1 DEF Referenced, Pointers
    <3>2. \A p \in Referenced \ {None} : p \in Objects
      BY DEF SessionsInv, HeapInv
    <3>3. QED
      BY <2>3, <2>10, <2>11, <2>13, <3>1, <3>2, HeapStays DEF SessionsInv
  <2>20. QED
    BY <2>10, <2>15, <2>16, <2>17, <2>18, <2>19 DEF SessionsInv
<1>3. QED
  BY <1>0, <1>1, <1>2 DEF Summarise, SetSummary, Absent

-----------------------------------------------------------------------------
\* A step of a saving goroutine: the requests and the sessions stay.
Elsewhere == <<dataDir, sessions, object, lock, clock, request, appended, loaded>>

LEMMA OneSaves ==
  ASSUME SessionsInv, UNCHANGED Elsewhere, NEW w \in Writers, NEW v, writer' = [writer EXCEPT ![w] = v],
         WriterOK(w, v, request, appended, clock, object), v.obj \in {None, writer[w].obj}
  PROVE  /\ Forth(request, request', appended, appended', clock, clock')
         /\ FileInv' => SessionsInv'
         /\ writer'[w] = v /\ \A x \in Writers \ {w} : writer'[x] = writer[x]
<1>1. /\ dataDir' = dataDir /\ sessions' = sessions /\ object' = object /\ lock' = lock
      /\ clock' = clock /\ request' = request /\ appended' = appended /\ loaded' = loaded
  BY DEF Elsewhere
<1>2. clock \in Nat /\ clock' \in Nat /\ clock <= clock'
  BY <1>1 DEF SessionsInv, MapInv
<1>3. Forth(request, request', appended, appended', clock, clock') /\ AppendedInv'
  <2>1. \A r \in Callers : Onward(request[r], request'[r])
    BY <1>1 DEF Onward
  <2>2. \A r \in Callers : request[r].pc \in Stored => request'[r].pc \in Stored
    BY <1>1
  <2>3. QED
    BY <1>1, <1>2, <2>1, <2>2, NothingStored DEF SessionsInv
<1>4. /\ writer' = [x \in Writers |-> writer'[x]] /\ writer'[w] = v
      /\ \A x \in Writers \ {w} : writer'[x] = writer[x]
  BY DEF SessionsInv, WriterInv
<1>5. WriterInv'
  <2>1. ASSUME NEW x \in Writers PROVE WriterOK(x, writer'[x], request', appended', clock', object')
    <3>1. CASE x = w
      BY <1>1, <1>4, <3>1
    <3>2. CASE x # w
      BY <1>1, <1>4, <3>2 DEF SessionsInv, WriterInv
    <3>3. QED
      BY <3>1, <3>2
  <2>2. QED
    BY <1>4, <2>1 DEF WriterInv
<1>6. HeapInv'
  <2>1. Referenced' \subseteq Referenced \cup {None}
    <3>1. \A x \in Writers : writer'[x].obj \in {None, writer[x].obj}
      BY <1>4
    <3>2. QED
      BY <1>1, <3>1 DEF Referenced, Pointers
  <2>2. QED
    BY <1>1, <1>3, <2>1, HeapStays DEF SessionsInv
<1>7. RequestInv' /\ LockInv' /\ MapInv'
  <2>1. RequestInv'
    BY <1>1 DEF SessionsInv, RequestInv
  <2>2. LockInv'
    BY <1>1 DEF SessionsInv, LockInv, Locked
  <2>3. MapInv'
    BY <1>1 DEF SessionsInv, MapInv
  <2>4. QED
    BY <2>1, <2>2, <2>3
<1>8. QED
  BY <1>3, <1>4, <1>5, <1>6, <1>7 DEF SessionsInv

\* What a goroutine that saves reads.
LEMMA ReadBy ==
  ASSUME SessionsInv, NEW w \in Writers, writer[w].pc # "idle"
  PROVE  /\ WriterOK(w, writer[w], request, appended, clock, object)
         /\ writer[w].obj # None /\ Good(object[writer[w].obj], request, appended, clock)
         /\ Started(w, request)
<1>1. WriterOK(w, writer[w], request, appended, clock, object)
  BY DEF SessionsInv, WriterInv
<1>2. writer[w].obj # None /\ Started(w, request)
  BY <1>1 DEF WriterOK
<1>3. QED
  BY <1>1, <1>2 DEF SessionsInv, HeapInv, Referenced

LEMMA IdleIs ==
  ASSUME NEW w \in Writers
  PROVE  WriterOK(w, IdleWriter, request, appended, clock, object) /\ IdleWriter.obj = None /\ IdleWriter.pc = "idle"
BY DEF IdleWriter, WriterOK, WriterFields, Saving

LEMMA BeginStep ==
  ASSUME SessionsInv, NEW w \in Writers, Begin(w), UNCHANGED <<request, locals>>
  PROVE  SessionsInv'
<1> DEFINE live == object[writer[w].obj]
           d == [live EXCEPT !.messages = <<>>]
           v == [writer[w] EXCEPT !.pc = "element", !.count = Len(live.messages), !.data = d]
<1>1. writer[w].pc = "begin" /\ UNCHANGED <<path, tmp, inode>> /\ UNCHANGED Elsewhere
  BY DEF Begin, locals, Elsewhere
<1>2. writer' = [writer EXCEPT ![w] = v]
  BY DEF Begin, SessionsInv, WriterInv
<1>3. /\ WriterOK(w, writer[w], request, appended, clock, object)
      /\ writer[w].obj # None /\ Good(live, request, appended, clock) /\ Started(w, request)
  BY <1>1, ReadBy
<1>4. Partial(d, live, request, appended)
  <2> HIDE DEF live
  <2>1. live = [x \in SessionFields |-> live[x]]
    BY <1>3 DEF Good
  <2>2. /\ d = [x \in SessionFields |-> d[x]] /\ d.key = live.key /\ d.summary = live.summary /\ d.messages = <<>>
    BY <2>1 DEF SessionFields
  <2> HIDE DEF d
  <2>9. d.messages = <<>>
    BY <2>2
  <2>3. d.messages \in Seq(Unit) /\ DOMAIN d.messages = {}
    BY <2>9, EmptySeq
  <2>4. Ordered(d.messages, UnitsUnder(appended, d.key))
    BY <2>3 DEF Ordered
  <2>5. QED
    BY <1>3, <2>2, <2>3, <2>4 DEF Partial, Good
<1> HIDE DEF d, live
<1>5. /\ v = [x \in WriterFields |-> v[x]] /\ v.pc = "element" /\ v.obj = writer[w].obj /\ v.data = d
  BY <1>3 DEF WriterOK, WriterFields
<1> HIDE DEF v
<1>6. WriterOK(w, v, request, appended, clock, object)
  BY <1>3, <1>4, <1>5 DEF WriterOK, Saving, live
<1>7. /\ Forth(request, request', appended, appended', clock, clock')
      /\ FileInv' => SessionsInv'
      /\ writer'[w] = v /\ \A x \in Writers \ {w} : writer'[x] = writer[x]
  BY <1>1, <1>2, <1>5, <1>6, OneSaves
<1>8. FileInv'
  <2>1. \A x \in Writers : writer'[x].pc \in Saving => writer'[x] = writer[x]
    BY <1>5, <1>7 DEF Saving
  <2>2. \A x \in Writers : writer'[x].pc \in {"begin", "element"} =>
          writer[x].pc \in {"begin", "element"} \/ ~ Started(x, request)
    BY <1>1, <1>7
  <2>3. QED
    BY <1>1, <1>7, <2>1, <2>2, FilesStay DEF SessionsInv
<1>9. QED
  BY <1>7, <1>8

LEMMA AppendedIs ==
  ASSUME NEW m \in Seq(Unit), NEW x \in Unit
  PROVE  /\ Append(m, x) \in Seq(Unit) /\ Len(Append(m, x)) = Len(m) + 1
         /\ DOMAIN Append(m, x) = 1 .. Len(m) + 1 /\ Append(m, x)[Len(m) + 1] = x
         /\ \A i \in DOMAIN m : Append(m, x)[i] = m[i]
OBVIOUS

\* One more element read is the next of what the session holds.
LEMMA PartialReads ==
  ASSUME NEW req, NEW app, NEW now, NEW s, Good(s, req, app, now), NEW d, Partial(d, s, req, app),
         Len(d.messages) + 1 <= Len(s.messages)
  PROVE  Partial([d EXCEPT !.messages = Append(@, s.messages[Len(d.messages) + 1])], s, req, app)
<1> DEFINE n == Len(d.messages) + 1
           e == [d EXCEPT !.messages = Append(@, s.messages[n])]
           u == UnitsUnder(app, d.key)
<1>1. /\ d = [x \in SessionFields |-> d[x]] /\ d.messages \in Seq(Unit) /\ s.messages \in Seq(Unit) /\ d.key = s.key
      /\ Ordered(d.messages, u) /\ Ordered(s.messages, u)
      /\ \A i \in DOMAIN d.messages, j \in DOMAIN s.messages :
           j > Len(d.messages) => Precedes(d.messages[i], s.messages[j], u)
  BY DEF Good, Partial
<1> HIDE DEF u
<1>2. /\ e = [x \in SessionFields |-> e[x]] /\ e.key = d.key /\ e.summary = d.summary
      /\ e.messages = Append(d.messages, s.messages[n])
  BY <1>1 DEF SessionFields
<1> HIDE DEF e
<1>3. Len(d.messages) \in Nat /\ n \in DOMAIN s.messages /\ DOMAIN d.messages = 1 .. Len(d.messages)
  BY <1>1
<1>4. s.messages[n] \in Unit
  BY <1>1, <1>3
<1>5. /\ e.messages \in Seq(Unit) /\ Len(e.messages) = n /\ DOMAIN e.messages = 1 .. n
      /\ e.messages[n] = s.messages[n] /\ \A i \in DOMAIN d.messages : e.messages[i] = d.messages[i]
  <2>1. /\ Append(d.messages, s.messages[n]) \in Seq(Unit) /\ Len(Append(d.messages, s.messages[n])) = n
        /\ DOMAIN Append(d.messages, s.messages[n]) = 1 .. n
        /\ Append(d.messages, s.messages[n])[n] = s.messages[n]
        /\ \A i \in DOMAIN d.messages : Append(d.messages, s.messages[n])[i] = d.messages[i]
    BY <1>1, <1>4, AppendedIs
  <2>2. QED
    BY <1>2, <2>1
<1>6. n = Len(d.messages) + 1
  OBVIOUS
<1> HIDE DEF n
<1>7. \A i \in DOMAIN e.messages : (i \in DOMAIN d.messages /\ i < n) \/ i = n
  BY <1>3, <1>5, <1>6
<1>8. Ordered(e.messages, u)
  <2>1. ASSUME NEW i \in DOMAIN e.messages PROVE Within(e.messages[i], u)
    BY <1>1, <1>3, <1>5, <1>7 DEF Ordered
  <2>2. ASSUME NEW i \in DOMAIN e.messages, NEW j \in DOMAIN e.messages, i < j
        PROVE  Precedes(e.messages[i], e.messages[j], u)
    <3>1. i \in DOMAIN d.messages
      BY <1>3, <1>5, <1>6, <2>2
    <3>2. CASE j = n
      <4>1. n > Len(d.messages)
        BY <1>3, <1>6
      <4>2. QED
        BY <1>1, <1>3, <1>5, <3>1, <3>2, <4>1
    <3>3. CASE j \in DOMAIN d.messages
      BY <1>1, <1>5, <2>2, <3>1, <3>3 DEF Ordered
    <3>4. QED
      BY <1>7, <3>2, <3>3
  <2>3. QED
    BY <2>1, <2>2 DEF Ordered
<1>9. \A i \in DOMAIN e.messages, j \in DOMAIN s.messages :
        j > Len(e.messages) => Precedes(e.messages[i], s.messages[j], u)
  <2> TAKE i \in DOMAIN e.messages
  <2> TAKE j \in DOMAIN s.messages
  <2> SUFFICES ASSUME j > Len(e.messages) PROVE Precedes(e.messages[i], s.messages[j], u)
    OBVIOUS
  <2>1. j > n /\ j > Len(d.messages)
    BY <1>1, <1>3, <1>5, <1>6
  <2>2. CASE i = n
    <3>1. n < j
      BY <1>1, <1>3, <2>1
    <3>2. Precedes(s.messages[n], s.messages[j], u)
      BY <1>1, <1>3, <3>1 DEF Ordered
    <3>3. QED
      BY <1>5, <2>2, <3>2
  <2>3. CASE i \in DOMAIN d.messages
    BY <1>1, <1>5, <2>1, <2>3
  <2>4. QED
    BY <1>7, <2>2, <2>3
<1>10. Partial(e, s, req, app)
  BY <1>1, <1>2, <1>5, <1>8, <1>9 DEF Partial, u
<1>11. QED
  BY <1>10 DEF e, n

LEMMA ElementStep ==
  ASSUME SessionsInv, NEW w \in Writers, Element(w), UNCHANGED <<request, locals>>
  PROVE  SessionsInv'
<1> DEFINE live == object[writer[w].obj]
           d == writer[w].data
           n == Len(d.messages) + 1
           e == [d EXCEPT !.messages = Append(@, live.messages[Len(d.messages) + 1])]
           v == IF n > Len(live.messages) THEN IdleWriter ELSE [writer[w] EXCEPT !.data = e]
<1>1. writer[w].pc = "element" /\ UNCHANGED <<path, tmp, inode>> /\ UNCHANGED Elsewhere
  BY DEF Element, locals, Elsewhere
<1>2. writer' = [writer EXCEPT ![w] = v]
  BY DEF Element, SessionsInv, WriterInv
<1>3. /\ WriterOK(w, writer[w], request, appended, clock, object)
      /\ writer[w].obj # None /\ Good(live, request, appended, clock) /\ Started(w, request)
  BY <1>1, ReadBy
<1>4. Partial(d, live, request, appended)
  BY <1>1, <1>3 DEF WriterOK
<1> HIDE DEF live, d
<1>5. Len(d.messages) \in Nat /\ Len(live.messages) \in Nat
  <2>1. d.messages \in Seq(Unit) /\ live.messages \in Seq(Unit)
    BY <1>3, <1>4 DEF Partial, Good
  <2>2. QED
    BY <2>1, LenProperties
<1>6. n <= Len(live.messages) => Partial(e, live, request, appended)
  BY <1>3, <1>4, PartialReads
<1> HIDE DEF e
<1>7. /\ WriterOK(w, v, request, appended, clock, object) /\ v.obj \in {None, writer[w].obj}
      /\ v.pc \in {"idle", "element"}
  <2>1. CASE n > Len(live.messages)
    <3>1. v = IdleWriter
      BY <2>1
    <3> HIDE DEF v
    <3>2. QED
      BY <3>1, IdleIs
  <2>2. CASE ~ (n > Len(live.messages))
    <3>1. /\ v = [x \in WriterFields |-> v[x]] /\ v.pc = "element" /\ v.obj = writer[w].obj /\ v.data = e
      BY <1>1, <1>3, <2>2 DEF WriterOK, WriterFields
    <3>2. Partial(e, live, request, appended)
      BY <1>5, <1>6, <2>2
    <3> HIDE DEF v
    <3>3. QED
      BY <1>3, <3>1, <3>2 DEF WriterOK, Saving, live
  <2>3. QED
    BY <2>1, <2>2
<1> HIDE DEF v
<1>8. /\ Forth(request, request', appended, appended', clock, clock')
      /\ FileInv' => SessionsInv'
      /\ writer'[w] = v /\ \A x \in Writers \ {w} : writer'[x] = writer[x]
  BY <1>1, <1>2, <1>7, OneSaves
<1>9. FileInv'
  <2>1. \A x \in Writers : writer'[x].pc \in Saving => writer'[x] = writer[x]
    BY <1>7, <1>8 DEF Saving
  <2>2. \A x \in Writers : writer'[x].pc \in {"begin", "element"} =>
          writer[x].pc \in {"begin", "element"} \/ ~ Started(x, request)
    BY <1>1, <1>8
  <2>3. QED
    BY <1>1, <1>8, <2>1, <2>2, FilesStay DEF SessionsInv
<1>10. QED
  BY <1>8, <1>9

\* What is written of a session: what was read of it, and the turns it counts now.
LEMMA MarshalledIsGood ==
  ASSUME NEW req, NEW app, NEW now, NEW s, Good(s, req, app, now), NEW d, Partial(d, s, req, app)
  PROVE  Good(Marshalled(d, s), req, app, now) /\ Marshalled(d, s).key = d.key
<1> DEFINE m == Marshalled(d, s)
<1>1. d = [x \in SessionFields |-> d[x]] /\ d.messages \in Seq(Unit) /\ d.key = s.key
  BY DEF Partial
<1>2. /\ m = [x \in SessionFields |-> m[x]] /\ m.key = d.key /\ m.summary = d.summary
      /\ m.messages = d.messages /\ m.turns = s.turns /\ m.updated = s.updated
  BY <1>1 DEF Marshalled, SessionFields
<1> HIDE DEF m
<1>3. QED
  BY <1>1, <1>2 DEF Good, Partial, m

LEMMA Unreadable == ~ Readable(Empty) /\ ~ Readable(Torn)
BY DEF Readable

LEMMA OpenStep ==
  ASSUME SessionsInv, NEW w \in Writers, Open(w), UNCHANGED <<request, locals>>
  PROVE  SessionsInv'
<1> DEFINE live == object[writer[w].obj]
           d == writer[w].data
           key == d.key
           i == IF Absent(tmp, key) THEN w ELSE tmp[key]
           m == Marshalled(d, live)
           v == [writer[w] EXCEPT !.pc = "write", !.inode = i, !.data = m]
<1>1. /\ writer[w].pc = "element" /\ path' = path /\ UNCHANGED Elsewhere
      /\ tmp' = Set(tmp, key, i) /\ inode' = [inode EXCEPT ![i] = Empty]
  BY DEF Open, locals, Elsewhere
<1>2. writer' = [writer EXCEPT ![w] = v]
  BY DEF Open, SessionsInv, WriterInv
<1>3. /\ WriterOK(w, writer[w], request, appended, clock, object)
      /\ writer[w].obj # None /\ Good(live, request, appended, clock) /\ Started(w, request)
  BY <1>1, ReadBy
<1>4. Partial(d, live, request, appended)
  BY <1>1, <1>3 DEF WriterOK
<1>5. i \in Inodes
  BY DEF SessionsInv, FileInv, Absent, Inodes
<1> HIDE DEF live, i
<1>6. Good(m, request, appended, clock) /\ m.key = key /\ key \in KeysOf(request)
  <2>1. Good(m, request, appended, clock) /\ m.key = key
    BY <1>3, <1>4, MarshalledIsGood
  <2>2. QED
    BY <2>1 DEF Good
<1> HIDE DEF m
<1>7. /\ v = [x \in WriterFields |-> v[x]] /\ v.pc = "write" /\ v.obj = writer[w].obj
      /\ v.data = m /\ v.inode = i
  BY <1>3 DEF WriterOK, WriterFields
<1> HIDE DEF v, d, key
<1>8. WriterOK(w, v, request, appended, clock, object)
  BY <1>3, <1>5, <1>6, <1>7 DEF WriterOK, Saving
<1>9. /\ Forth(request, request', appended, appended', clock, clock')
      /\ FileInv' => SessionsInv'
      /\ writer'[w] = v /\ \A x \in Writers \ {w} : writer'[x] = writer[x]
  BY <1>1, <1>2, <1>7, <1>8, OneSaves
<1>10. request' = request /\ appended' = appended /\ clock' = clock
  BY <1>1 DEF Elsewhere
<1>11. FileInv
  BY DEF SessionsInv
<1>12. /\ DOMAIN tmp' = DOMAIN tmp \cup {key} /\ tmp'[key] = i
       /\ \A k \in DOMAIN tmp \ {key} : tmp'[k] = tmp[k]
  BY <1>1 DEF Set
<1>13. \A j, k : Uses(j, k)' => Uses(j, k) \/ (j = i /\ k = key)
  <2> TAKE j, k
  <2> SUFFICES ASSUME Uses(j, k)' PROVE Uses(j, k) \/ (j = i /\ k = key)
    OBVIOUS
  <2>1. CASE k \in DOMAIN path' /\ path'[k] = j
    BY <1>1, <2>1 DEF Uses
  <2>2. CASE k \in DOMAIN tmp' /\ tmp'[k] = j
    BY <1>12, <2>2 DEF Uses
  <2>3. CASE \E x \in Writers : writer'[x].pc \in Saving /\ writer'[x].inode = j /\ writer'[x].data.key = k
    <3>1. PICK x \in Writers : writer'[x].pc \in Saving /\ writer'[x].inode = j /\ writer'[x].data.key = k
      BY <2>3
    <3>2. CASE x = w
      BY <1>6, <1>7, <1>9, <3>1, <3>2
    <3>3. CASE x # w
      BY <1>9, <3>1, <3>3 DEF Uses
    <3>4. QED
      BY <3>2, <3>3
  <2>4. QED
    BY <2>1, <2>2, <2>3 DEF Uses
\* The inode is the temporary file's, or new.
<1>14. (\A k : Uses(i, k) => k = key) /\ Started(i, request) /\ (i = w \/ writer[i].pc \notin {"begin", "element"})
  <2>1. CASE Absent(tmp, key)
    <3>1. i = w
      BY <2>1 DEF i
    <3>2. \A k : ~ Uses(w, k)
      BY <1>1, <1>5, <1>11, <3>1 DEF FileInv
    <3>3. QED
      BY <1>3, <3>1, <3>2
  <2>2. CASE ~ Absent(tmp, key)
    <3>1. Uses(i, key)
      BY <2>2 DEF i, Uses, Absent
    <3>2. QED
      BY <1>5, <1>11, <3>1 DEF FileInv
  <2>3. QED
    BY <2>1, <2>2
<1>15. inode' = [j \in Inodes |-> inode'[j]] /\ inode'[i] = Empty /\ \A j \in Inodes \ {i} : inode'[j] = inode[j]
  BY <1>1, <1>5, <1>11 DEF FileInv
<1>16. ASSUME NEW j \in Inodes, NEW k, NEW l, Uses(j, k)', Uses(j, l)' PROVE k = l
  <2>1. CASE j = i
    BY <1>13, <1>14, <1>16, <2>1
  <2>2. CASE j # i
    BY <1>11, <1>13, <1>16, <2>2 DEF FileInv
  <2>3. QED
    BY <2>1, <2>2
<1>17. ASSUME NEW j \in Inodes, NEW k, Uses(j, k)'
       PROVE  /\ Readable(inode'[j]) => inode'[j].key = k
              /\ writer'[j].pc \notin {"begin", "element"} /\ Started(j, request')
  <2>1. Inodes = Writers
    BY DEF Inodes
  <2>2. j = w => writer'[j].pc = "write"
    BY <1>7, <1>9
  <2>3. j # w => writer'[j] = writer[j]
    BY <1>9, <2>1
  <2>4. CASE j = i
    <3>1. ~ Readable(inode'[j])
      BY <1>15, <2>4, Unreadable
    <3>2. QED
      BY <1>10, <1>14, <2>2, <2>3, <2>4, <3>1
  <2>5. CASE j # i
    <3>1. Uses(j, k)
      BY <1>13, <1>17, <2>5
    <3>2. QED
      BY <1>10, <1>11, <1>15, <2>2, <2>3, <2>5, <3>1 DEF FileInv
  <2>6. QED
    BY <2>4, <2>5
<1>18. \A j \in Inodes : Readable(inode'[j]) => Good(inode'[j], request', appended', clock')
  <2> TAKE j \in Inodes
  <2>1. CASE j = i
    BY <1>15, <2>1, Unreadable
  <2>2. CASE j # i
    BY <1>10, <1>11, <1>15, <2>2 DEF FileInv
  <2>3. QED
    BY <2>1, <2>2
<1>19. /\ DOMAIN path' \subseteq KeysOf(request') /\ DOMAIN tmp' \subseteq KeysOf(request')
       /\ IsFiniteSet(DOMAIN path')
       /\ \A k \in DOMAIN path' : path'[k] \in Inodes
  BY <1>1, <1>6, <1>10, <1>11, <1>12 DEF FileInv
<1>20. \A k \in DOMAIN tmp' : tmp'[k] \in Inodes
  BY <1>5, <1>11, <1>12 DEF FileInv
<1>21. FileInv'
  BY <1>15, <1>16, <1>17, <1>18, <1>19, <1>20 DEF FileInv
<1>22. QED
  BY <1>9, <1>21

LEMMA WriteStep ==
  ASSUME SessionsInv, NEW w \in Writers, Write(w), UNCHANGED <<request, locals>>
  PROVE  SessionsInv'
<1> DEFINE i == writer[w].inode
           m == writer[w].data
<1>1. /\ writer[w].pc = "write" /\ path' = path /\ tmp' = tmp /\ UNCHANGED Elsewhere
  BY DEF Write, locals, Elsewhere
<1>2. /\ WriterOK(w, writer[w], request, appended, clock, object)
      /\ writer[w].obj # None /\ Started(w, request)
  BY <1>1, ReadBy
<1>3. i \in Inodes /\ Good(m, request, appended, clock)
  BY <1>1, <1>2 DEF WriterOK, Saving
<1>4. PICK new \in {m, Torn}, v \in {IdleWriter, [writer[w] EXCEPT !.pc = "rename"]} :
        inode' = [inode EXCEPT ![i] = new] /\ writer' = [writer EXCEPT ![w] = v]
  <2>1. CASE /\ \E new \in Overwritten(inode[i], m) : inode' = [inode EXCEPT ![i] = new]
             /\ writer' = [writer EXCEPT ![w].pc = "rename"]
    <3>1. PICK new \in Overwritten(inode[i], m) : inode' = [inode EXCEPT ![i] = new]
      BY <2>1
    <3>2. new \in {m, Torn}
      BY <3>1 DEF Overwritten
    <3>3. writer' = [writer EXCEPT ![w] = [writer[w] EXCEPT !.pc = "rename"]]
      BY <2>1 DEF SessionsInv, WriterInv
    <3>4. QED
      BY <3>1, <3>2, <3>3
  <2>2. CASE inode' = [inode EXCEPT ![i] = Torn] /\ writer' = [writer EXCEPT ![w] = IdleWriter]
    BY <2>2
  <2>3. QED
    BY <2>1, <2>2 DEF Write
<1> HIDE DEF i, m
<1>5. /\ WriterOK(w, v, request, appended, clock, object) /\ v.obj \in {None, writer[w].obj}
      /\ v.pc \in {"idle", "rename"} /\ (v.pc = "rename" => v.inode = i /\ v.data = m)
  <2>1. CASE v = IdleWriter
    BY <2>1, IdleIs
  <2>2. CASE v = [writer[w] EXCEPT !.pc = "rename"]
    <3>1. /\ v = [x \in WriterFields |-> v[x]] /\ v.pc = "rename" /\ v.obj = writer[w].obj
          /\ v.data = m /\ v.inode = i
      BY <1>2, <2>2 DEF WriterOK, WriterFields, i, m
    <3> HIDE <2>2
    <3>2. QED
      BY <1>2, <1>3, <3>1 DEF WriterOK, Saving
  <2>3. QED
    BY <1>4, <2>1, <2>2
<1>6. /\ Forth(request, request', appended, appended', clock, clock')
      /\ FileInv' => SessionsInv'
      /\ writer'[w] = v /\ \A x \in Writers \ {w} : writer'[x] = writer[x]
  BY <1>1, <1>4, <1>5, OneSaves
<1>7. request' = request /\ appended' = appended /\ clock' = clock /\ FileInv
  BY <1>1 DEF Elsewhere, SessionsInv
<1>8. Uses(i, m.key)
  BY <1>1 DEF Uses, Saving, i, m
<1>9. \A j, k : Uses(j, k)' => Uses(j, k)
  <2> TAKE j, k
  <2> SUFFICES ASSUME Uses(j, k)' PROVE Uses(j, k)
    OBVIOUS
  <2>1. CASE \E x \in Writers : writer'[x].pc \in Saving /\ writer'[x].inode = j /\ writer'[x].data.key = k
    <3>1. PICK x \in Writers : writer'[x].pc \in Saving /\ writer'[x].inode = j /\ writer'[x].data.key = k
      BY <2>1
    <3>2. CASE x = w
      BY <1>5, <1>6, <1>8, <3>1, <3>2 DEF Saving
    <3>3. CASE x # w
      BY <1>6, <3>1, <3>3 DEF Uses
    <3>4. QED
      BY <3>2, <3>3
  <2>2. QED
    BY <1>1, <2>1 DEF Uses
<1>10. inode' = [j \in Inodes |-> inode'[j]] /\ inode'[i] = new /\ \A j \in Inodes \ {i} : inode'[j] = inode[j]
  BY <1>3, <1>4, <1>7 DEF FileInv
<1>11. ASSUME NEW j \in Inodes, NEW k, NEW l, Uses(j, k)', Uses(j, l)' PROVE k = l
  BY <1>7, <1>9, <1>11 DEF FileInv
<1>12. ASSUME NEW j \in Inodes, NEW k, Uses(j, k)'
       PROVE  /\ Readable(inode'[j]) => inode'[j].key = k
              /\ writer'[j].pc \notin {"begin", "element"} /\ Started(j, request')
  <2>1. Uses(j, k)
    BY <1>9, <1>12
  <2>2. Started(j, request') /\ writer[j].pc \notin {"begin", "element"} /\ (Readable(inode[j]) => inode[j].key = k)
    BY <1>7, <2>1 DEF FileInv
  <2>3. writer'[j].pc \notin {"begin", "element"}
    <3>1. j \in Writers
      BY DEF Inodes
    <3>2. QED
      BY <1>5, <1>6, <2>2, <3>1
  <2>4. Readable(inode'[j]) => inode'[j].key = k
    <3>1. CASE j = i
      <4>1. k = m.key
        BY <1>3, <1>7, <1>8, <2>1, <3>1 DEF FileInv
      <4>2. QED
        BY <1>4, <1>10, <3>1, <4>1, Unreadable
    <3>2. CASE j # i
      BY <1>10, <2>2, <3>2
    <3>3. QED
      BY <3>1, <3>2
  <2>5. QED
    BY <2>2, <2>3, <2>4
<1>13. \A j \in Inodes : Readable(inode'[j]) => Good(inode'[j], request', appended', clock')
  <2> TAKE j \in Inodes
  <2>1. CASE j = i
    BY <1>3, <1>4, <1>7, <1>10, <2>1, Unreadable
  <2>2. CASE j # i
    BY <1>7, <1>10, <2>2 DEF FileInv
  <2>3. QED
    BY <2>1, <2>2
<1>14. /\ DOMAIN path' \subseteq KeysOf(request') /\ DOMAIN tmp' \subseteq KeysOf(request')
       /\ IsFiniteSet(DOMAIN path')
       /\ \A k \in DOMAIN path' : path'[k] \in Inodes
       /\ \A k \in DOMAIN tmp' : tmp'[k] \in Inodes
  BY <1>1, <1>7 DEF FileInv
<1>15. FileInv'
  BY <1>10, <1>11, <1>12, <1>13, <1>14 DEF FileInv
<1>16. QED
  BY <1>6, <1>15

LEMMA RenameStep ==
  ASSUME SessionsInv, NEW w \in Writers, Rename(w), UNCHANGED <<request, locals>>
  PROVE  SessionsInv'
<1> DEFINE key == writer[w].data.key
<1>1. /\ writer[w].pc = "rename" /\ inode' = inode /\ UNCHANGED Elsewhere
      /\ writer' = [writer EXCEPT ![w] = IdleWriter]
  BY DEF Rename, locals, Elsewhere
<1>2. WriterOK(w, IdleWriter, request, appended, clock, object) /\ IdleWriter.obj = None /\ IdleWriter.pc = "idle"
  BY IdleIs
<1>3. /\ Forth(request, request', appended, appended', clock, clock')
      /\ FileInv' => SessionsInv'
      /\ writer'[w] = IdleWriter /\ \A x \in Writers \ {w} : writer'[x] = writer[x]
  BY <1>1, <1>2, OneSaves
<1>4. request' = request /\ appended' = appended /\ clock' = clock /\ FileInv
  BY <1>1 DEF Elsewhere, SessionsInv
<1>5. \/ path' = path /\ tmp' = tmp
      \/ key \in DOMAIN tmp /\ path' = Set(path, key, tmp[key]) /\ tmp' = Unset(tmp, key)
  BY DEF Rename, Absent
<1> HIDE DEF key
<1>6. /\ DOMAIN tmp' \subseteq DOMAIN tmp /\ \A k \in DOMAIN tmp' : tmp'[k] = tmp[k]
      /\ \A k \in DOMAIN path' : \/ k \in DOMAIN path /\ path'[k] = path[k]
                                 \/ k \in DOMAIN tmp /\ path'[k] = tmp[k]
  BY <1>5 DEF Set, Unset
<1>7. IsFiniteSet(DOMAIN path')
  <2>1. DOMAIN path' = DOMAIN path \/ DOMAIN path' = DOMAIN path \cup {key}
    BY <1>5 DEF Set
  <2>2. QED
    BY <1>4, <2>1, FS_AddElement DEF FileInv
<1>8. \A j, k : Uses(j, k)' => Uses(j, k)
  <2> TAKE j, k
  <2> SUFFICES ASSUME Uses(j, k)' PROVE Uses(j, k)
    OBVIOUS
  <2>1. CASE k \in DOMAIN path' /\ path'[k] = j
    BY <1>6, <2>1 DEF Uses
  <2>2. CASE k \in DOMAIN tmp' /\ tmp'[k] = j
    BY <1>6, <2>2 DEF Uses
  <2>3. CASE \E x \in Writers : writer'[x].pc \in Saving /\ writer'[x].inode = j /\ writer'[x].data.key = k
    <3>1. PICK x \in Writers : writer'[x].pc \in Saving /\ writer'[x].inode = j /\ writer'[x].data.key = k
      BY <2>3
    <3>2. x # w
      BY <1>2, <1>3, <3>1 DEF Saving
    <3>3. QED
      BY <1>3, <3>1, <3>2 DEF Uses
  <2>4. QED
    BY <2>1, <2>2, <2>3 DEF Uses
<1>9. ASSUME NEW j \in Inodes, NEW k, NEW l, Uses(j, k)', Uses(j, l)' PROVE k = l
  BY <1>4, <1>8, <1>9 DEF FileInv
<1>10. ASSUME NEW j \in Inodes, NEW k, Uses(j, k)'
       PROVE  /\ Readable(inode'[j]) => inode'[j].key = k
              /\ writer'[j].pc \notin {"begin", "element"} /\ Started(j, request')
  <2>1. /\ Readable(inode[j]) => inode[j].key = k
        /\ writer[j].pc \notin {"begin", "element"} /\ Started(j, request)
    BY <1>4, <1>8, <1>10 DEF FileInv
  <2>2. j \in Writers
    BY DEF Inodes
  <2>3. QED
    BY <1>1, <1>2, <1>3, <1>4, <2>1, <2>2
<1>11. /\ DOMAIN path' \subseteq KeysOf(request') /\ DOMAIN tmp' \subseteq KeysOf(request')
       /\ \A k \in DOMAIN path' : path'[k] \in Inodes
       /\ \A k \in DOMAIN tmp' : tmp'[k] \in Inodes
  BY <1>4, <1>6 DEF FileInv
<1>12. /\ inode' = [j \in Inodes |-> inode'[j]]
       /\ \A j \in Inodes : Readable(inode'[j]) => Good(inode'[j], request', appended', clock')
  BY <1>1, <1>4 DEF FileInv
<1>13. FileInv'
  BY <1>7, <1>9, <1>10, <1>11, <1>12 DEF FileInv
<1>14. QED
  BY <1>3, <1>13

-----------------------------------------------------------------------------
\* A restart has what the files hold, each under its own key.
LEMMA DieStep ==
  ASSUME SessionsInv, Die
  PROVE  SessionsInv'
<1> DEFINE place == CHOOSE f \in Injection(Loaded, Objects) : TRUE
           Owners(o) == {k \in Loaded : place[k] = o}
           Ended(q) == [q EXCEPT !.pc = "done", !.sess = None]
<1>1. /\ sessions' = place /\ lock' = None /\ writer' = [w \in Writers |-> IdleWriter]
      /\ object' = [o \in Objects |->
           IF Owners(o) = {} THEN None ELSE inode[path[CHOOSE k \in Owners(o) : TRUE]]]
      /\ dataDir' = dataDir /\ clock' = clock /\ path' = path /\ tmp' = tmp /\ inode' = inode
      /\ appended' = appended /\ loaded' = Cardinality(Loaded)
      /\ request' = [r \in Callers |-> IF request[r].pc = "idle" THEN Idle ELSE Ended(request[r])]
  BY DEF Die, Restart
<1>2. place \in Injection(Loaded, Objects)
  <2>1. Injection(Loaded, Objects) # {}
    BY DEF Die, Restart, ExistsInjection
  <2>2. QED
    BY <2>1
<1> HIDE DEF place
<1>3. /\ DOMAIN place = Loaded /\ \A k \in Loaded : place[k] \in Objects
      /\ \A k, l \in Loaded : place[k] = place[l] => k = l
  BY <1>2 DEF Injection, IsInjective
<1>4. clock \in Nat /\ FileInv /\ AppendedInv /\ RequestInv /\ Loaded \subseteq DOMAIN path /\ IsFiniteSet(DOMAIN path)
  BY DEF SessionsInv, MapInv, FileInv, Loaded
<1>5. ASSUME NEW r \in Callers
      PROVE  /\ request'[r].pc \in {"idle", "done"} /\ request'[r].sess = None
             /\ request'[r] = [x \in RequestFields |-> request'[r][x]]
             /\ Onward(request[r], request'[r])
             /\ request[r].pc \in Stored => request'[r].pc \in Stored
  <2>1. RequestOK(request[r], request, object)
    BY <1>4 DEF RequestInv
  <2>2. CASE request[r].pc = "idle"
    <3>1. request'[r] = Idle
      BY <1>1, <2>2
    <3>2. request[r].key = NoKey
      BY <2>1, <2>2 DEF RequestOK
    <3>3. Idle = [x \in RequestFields |-> Idle[x]] /\ Idle.pc = "idle" /\ Idle.sess = None
      BY DEF Idle, RequestFields
    <3>4. QED
      BY <2>2, <3>1, <3>2, <3>3 DEF Onward, Stored, Locked
  <2>3. CASE request[r].pc # "idle"
    <3>1. request'[r] = Ended(request[r])
      BY <1>1, <2>3
    <3>2. /\ Ended(request[r]) = [x \in RequestFields |-> Ended(request[r])[x]]
          /\ Ended(request[r]).pc = "done" /\ Ended(request[r]).sess = None
          /\ Ended(request[r]).key = request[r].key
      BY <2>1 DEF RequestOK, RequestFields
    <3>3. QED
      BY <3>1, <3>2 DEF Onward, Stored, Locked
  <2>4. QED
    BY <2>2, <2>3
<1>6. Forth(request, request', appended, appended', clock, clock') /\ AppendedInv'
  <2>1. clock' = clock /\ appended' = appended
    BY <1>1
  <2>2. clock' \in Nat /\ clock <= clock'
    BY <1>4, <2>1
  <2>3. QED
    BY <1>4, <1>5, <2>1, <2>2, NothingStored
<1>7. RequestInv'
  <2>1. ASSUME NEW r \in Callers PROVE RequestOK(request'[r], request', object')
    <3>1. RequestOK(request[r], request, object)
      BY <1>4 DEF RequestInv
    <3>2. CASE request[r].pc = "idle"
      <4>1. request'[r] = Idle
        BY <1>1, <3>2
      <4>2. /\ Idle.pc = "idle" /\ Idle.sess = None /\ Idle.key = NoKey /\ Idle.msgs = <<>>
            /\ Idle.prefix = {} /\ Idle.current = {} /\ Idle.batch = 0
            /\ Idle = [x \in RequestFields |-> Idle[x]]
        BY DEF Idle, RequestFields
      <4>3. <<>> \in Seq(Message)
        BY EmptySeq
      <4>4. RequestOK(Idle, request', object')
        BY <4>2, <4>3 DEF RequestOK, OfKey, Keyed, Stored, Locked
      <4>5. QED
        BY <4>1, <4>4
    <3>3. CASE request[r].pc # "idle"
      <4> DEFINE q == Ended(request[r])
      <4>1. request'[r] = q
        BY <1>1, <3>3
      <4>2. /\ q = [x \in RequestFields |-> q[x]] /\ q.pc = "done" /\ q.sess = None
            /\ q.key = request[r].key /\ q.msgs = request[r].msgs /\ q.batch = request[r].batch
            /\ q.prefix = request[r].prefix /\ q.current = request[r].current
        BY <3>1 DEF RequestOK, RequestFields
      <4>3. RequestOK(request[r], request', object)
        BY <1>6, <3>1, RequestStays
      <4> HIDE DEF q
      <4>4. RequestOK(q, request', object')
        BY <4>2, <4>3 DEF RequestOK, Keyed, Stored, Locked
      <4>5. QED
        BY <4>1, <4>4
    <3>4. QED
      BY <3>2, <3>3
  <2>2. request' = [r \in Callers |-> request'[r]]
    BY <1>1
  <2>3. QED
    BY <2>1, <2>2 DEF RequestInv
\* What is loaded.
<1>8. ASSUME NEW k \in Loaded
      PROVE  /\ object'[place[k]] = inode[path[k]] /\ inode[path[k]].key = k
             /\ Good(inode[path[k]], request, appended, clock)
  <2>1. k \in DOMAIN path /\ Readable(inode[path[k]]) /\ path[k] \in Inodes
    BY <1>4 DEF Loaded, FileInv
  <2>2. Uses(path[k], k)
    BY <2>1 DEF Uses
  <2>3. inode[path[k]].key = k /\ Good(inode[path[k]], request, appended, clock)
    BY <1>4, <2>1, <2>2 DEF FileInv
  <2>4. Owners(place[k]) = {k}
    BY <1>3
  <2>5. (CHOOSE l \in Owners(place[k]) : TRUE) = k
    BY <2>4
  <2>6. object'[place[k]] = inode[path[k]]
    BY <1>1, <1>3, <2>4, <2>5
  <2>7. QED
    BY <2>3, <2>6
<1>9. LockInv'
  BY <1>1, <1>5, StoreAssumption DEF LockInv, Locked
<1>10. MapInv'
  <2>1. IsFiniteSet(Loaded) /\ Cardinality(Loaded) \in Nat
    BY <1>4, FS_Subset, FS_CardinalityType
  <2>2. object' = [o \in Objects |-> object'[o]]
    <3> DEFINE held(o) == IF Owners(o) = {} THEN None ELSE inode[path[CHOOSE k \in Owners(o) : TRUE]]
    <3>1. object' = [o \in Objects |-> held(o)]
      BY <1>1
    <3> HIDE DEF held
    <3>2. QED
      BY <3>1
  <2>3. IsFiniteSet(DOMAIN sessions') /\ Cardinality(DOMAIN sessions') <= loaded' /\ loaded' \in Nat
    <3>1. DOMAIN sessions' = Loaded /\ loaded' = Cardinality(Loaded)
      BY <1>1, <1>3
    <3>2. QED
      BY <2>1, <3>1
  <2>4. ASSUME NEW k \in DOMAIN sessions'
        PROVE  sessions'[k] \in Objects /\ object'[sessions'[k]].key = k
    <3>1. k \in Loaded /\ sessions'[k] = place[k] /\ place[k] \in Objects
      BY <1>1, <1>3
    <3>2. object'[place[k]] = inode[path[k]] /\ inode[path[k]].key = k
      BY <1>8, <3>1
    <3>3. QED
      BY <3>1, <3>2
  <2>5. dataDir' \in DataDirs /\ clock' \in Nat
    BY <1>1, <1>4 DEF SessionsInv, MapInv
  <2>6. QED
    BY <2>2, <2>3, <2>4, <2>5 DEF MapInv
<1>11. HeapInv'
  <2>1. ASSUME NEW o \in Referenced' \ {None}
        PROVE  o \in Objects /\ Good(object'[o], request', appended', clock')
    <3>1. \A w \in Writers : writer'[w].obj = None
      BY <1>1 DEF IdleWriter
    <3>2. o \in {sessions'[k] : k \in DOMAIN sessions'}
      BY <1>5, <2>1, <3>1 DEF Referenced, Pointers
    <3>3. PICK k \in Loaded : o = place[k]
      BY <1>1, <1>3, <3>2
    <3>4. QED
      BY <1>3, <1>6, <1>8, <3>3, GoodStays
  <2>2. QED
    BY <2>1 DEF HeapInv
<1>12. WriterInv' /\ FileInv'
  <2>1. \A w \in Writers : writer'[w] = IdleWriter
    BY <1>1
  <2>2. \A w \in Writers : WriterOK(w, writer'[w], request', appended', clock', object')
    BY <2>1 DEF IdleWriter, WriterOK, WriterFields, Saving
  <2>3. WriterInv'
    BY <1>1, <2>2 DEF WriterInv
  <2>4. \A w \in Writers : writer'[w].pc = "idle"
    BY <2>1 DEF IdleWriter
  <2>5. FileInv'
    BY <1>1, <1>4, <1>6, <2>4, FilesStay DEF Saving
  <2>6. QED
    BY <2>3, <2>5
<1>13. QED
  BY <1>6, <1>7, <1>9, <1>10, <1>11, <1>12 DEF SessionsInv

-----------------------------------------------------------------------------
LEMMA SessionsStart == Init => SessionsInv
<1> SUFFICES ASSUME Init PROVE SessionsInv
  OBVIOUS
<1>1. /\ dataDir \in DataDirs /\ sessions = <<>> /\ object = [o \in Objects |-> None]
      /\ lock = None /\ clock = 0 /\ writer = [w \in Writers |-> IdleWriter]
      /\ path = <<>> /\ tmp = <<>> /\ inode = [i \in Inodes |-> Empty]
      /\ request = [r \in Callers |-> Idle] /\ appended = <<>> /\ loaded = 0
  BY DEF Init, StoreInit
<1>2. DOMAIN sessions = {} /\ DOMAIN path = {} /\ DOMAIN tmp = {} /\ DOMAIN appended = {}
  <2>1. <<>> \in Seq(Nat) /\ DOMAIN <<>> = {}
    BY EmptySeq
  <2>2. QED
    BY <1>1, <2>1
<1>3. IsFiniteSet(DOMAIN sessions) /\ Cardinality(DOMAIN sessions) = 0 /\ IsFiniteSet(DOMAIN path)
  BY <1>2, FS_EmptySet
<1>4. /\ Idle.pc = "idle" /\ Idle.sess = None /\ Idle.key = NoKey /\ Idle.msgs = <<>>
      /\ Idle.prefix = {} /\ Idle.current = {} /\ Idle.batch = 0
      /\ Idle = [x \in RequestFields |-> Idle[x]]
  BY DEF Idle, RequestFields
<1>5. RequestInv
  <2>1. RequestOK(Idle, request, object)
    <3>1. <<>> \in Seq(Message)
      BY EmptySeq
    <3>2. QED
      BY <1>4, <3>1 DEF RequestOK, OfKey, Keyed, Stored, Locked
  <2>2. QED
    BY <1>1, <2>1 DEF RequestInv
<1>6. LockInv
  <2>1. \A r \in Callers : request[r].pc = "idle"
    BY <1>1, <1>4
  <2>2. QED
    BY <1>1, <2>1, StoreAssumption DEF LockInv, Locked
<1>7. MapInv
  BY <1>1, <1>2, <1>3, StoreAssumption DEF MapInv
<1>8. \A w \in Writers : writer[w] = IdleWriter /\ writer[w].obj = None /\ writer[w].pc = "idle"
  BY <1>1 DEF IdleWriter
<1>9. HeapInv
  <2>1. \A r \in Callers : request[r].sess = None
    BY <1>1, <1>4
  <2>2. Referenced \subseteq {None}
    BY <1>2, <1>8, <2>1 DEF Referenced, Pointers
  <2>3. QED
    BY <2>2 DEF HeapInv
<1>10. WriterInv
  <2>1. \A w \in Writers : WriterOK(w, writer[w], request, appended, clock, object)
    BY <1>8, IdleIs
  <2>2. QED
    BY <1>1, <2>1 DEF WriterInv
<1>11. FileInv
  <2>1. \A i, k : ~ Uses(i, k)
    BY <1>2, <1>8 DEF Uses, Saving
  <2>2. \A i \in Inodes : ~ Readable(inode[i])
    BY <1>1, Unreadable
  <2>3. QED
    BY <1>1, <1>2, <1>3, <2>1, <2>2 DEF FileInv
<1>12. AppendedInv
  BY <1>2 DEF AppendedInv
<1>13. QED
  BY <1>5, <1>6, <1>7, <1>9, <1>10, <1>11, <1>12 DEF SessionsInv

LEMMA SessionsStep == SessionsInv /\ [Next]_vars => SessionsInv'
<1> SUFFICES ASSUME SessionsInv, [Next]_vars PROVE SessionsInv'
  OBVIOUS
<1>1. ASSUME NEW r \in Callers, Resolve(r) PROVE SessionsInv'
  BY <1>1, ResolveStep
<1>2. ASSUME NEW r \in Callers, CreateSession(r) PROVE SessionsInv'
  BY <1>2, CreateStep
<1>3. ASSUME NEW r \in Callers, Prompt(r) PROVE SessionsInv'
  BY <1>3, PromptStep
<1>4. ASSUME NEW r \in Callers, Store(r) PROVE SessionsInv'
  BY <1>4, StoreStep
<1>5. ASSUME NEW r \in Callers, Turn(r) \/ Trim(r) PROVE SessionsInv'
  BY <1>5, TurnStep, TrimStep
<1>6. ASSUME NEW r \in Callers, Count(r) PROVE SessionsInv'
  BY <1>6, CountStep
<1>7. ASSUME NEW r \in Callers, Due(r) PROVE SessionsInv'
  BY <1>7, DueStep
<1>8. ASSUME NEW r \in Callers, Summarise(r) PROVE SessionsInv'
  BY <1>8, SummariseStep
<1>9. ASSUME NEW w \in Writers, Write1(w) PROVE SessionsInv'
  <2>1. UNCHANGED <<request, locals>>
    BY <1>9 DEF Write1
  <2>2. CASE Begin(w)
    BY <2>1, <2>2, BeginStep
  <2>3. CASE Element(w)
    BY <2>1, <2>3, ElementStep
  <2>4. CASE Open(w)
    BY <2>1, <2>4, OpenStep
  <2>5. CASE Write(w)
    BY <2>1, <2>5, WriteStep
  <2>6. CASE Rename(w)
    BY <2>1, <2>6, RenameStep
  <2>7. QED
    BY <1>9, <2>2, <2>3, <2>4, <2>5, <2>6 DEF Write1, Persist
<1>10. CASE Die
  BY <1>10, DieStep
<1>11. CASE UNCHANGED vars
  <2>1. /\ dataDir' = dataDir /\ sessions' = sessions /\ object' = object /\ lock' = lock
        /\ clock' = clock /\ writer' = writer /\ path' = path /\ tmp' = tmp /\ inode' = inode
        /\ request' = request /\ appended' = appended /\ loaded' = loaded
    BY <1>11 DEF vars, storeVars
  <2>2. RequestInv' /\ LockInv' /\ AppendedInv'
    BY <2>1 DEF SessionsInv, RequestInv, LockInv, Locked, AppendedInv
  <2>3. MapInv' /\ WriterInv'
    BY <2>1 DEF SessionsInv, MapInv, WriterInv
  <2>4. HeapInv'
    BY <2>1 DEF SessionsInv, HeapInv, Referenced, Pointers
  <2>5. \A i, k : Uses(i, k)' <=> Uses(i, k)
    BY <2>1 DEF Uses
  <2>6. FileInv'
    BY <2>1, <2>5 DEF SessionsInv, FileInv
  <2>7. QED
    BY <2>2, <2>3, <2>4, <2>6 DEF SessionsInv
<1>12. QED
  BY <1>1, <1>2, <1>3, <1>4, <1>5, <1>6, <1>7, <1>8, <1>9, <1>10, <1>11 DEF Next

LEMMA SessionsAlways == Spec => []SessionsInv
<1>1. Init => SessionsInv
  BY SessionsStart
<1>2. SessionsInv /\ [Next]_vars => SessionsInv'
  BY SessionsStep
<1>3. QED
  BY <1>1, <1>2, PTL DEF Spec

\* Every session in memory or that a restart would load is as it should be.
LEMMA AllGood ==
  ASSUME SessionsInv, NEW s \in Live \cup Saved
  PROVE  Good(s, request, appended, clock)
<1>1. CASE s \in Live
  BY <1>1, InTheMap DEF Live
<1>2. CASE s \in Saved
  BY <1>2 DEF Saved, Loaded, SessionsInv, FileInv
<1>3. QED
  BY <1>1, <1>2

-----------------------------------------------------------------------------
\* For any number of callers, sessions, messages and restarts the state keeps
\* its types, and there are never more sessions than the limit or, after a
\* start, than it loaded (store.go:166-170, 222-250).
THEOREM SessionsTyped == Spec => []TypeOK
<1>1. SessionsInv => TypeOK
  <2> SUFFICES ASSUME SessionsInv PROVE TypeOK
    OBVIOUS
  <2>1. Cardinality(DOMAIN sessions) <= Max({maxSessions, loaded})
    <3> DEFINE most == Max({maxSessions, loaded})
    <3>1. maxSessions \in Nat /\ loaded \in Nat
      BY StoreAssumption DEF SessionsInv, MapInv
    <3>2. most \in {maxSessions, loaded} /\ \A y \in {maxSessions, loaded} : most >= y
      <4>1. \E x \in {maxSessions, loaded} : \A y \in {maxSessions, loaded} : x >= y
        BY <3>1
      <4>2. QED
        BY <4>1 DEF Max
    <3>3. Cardinality(DOMAIN sessions) \in Nat
      BY FS_CardinalityType DEF SessionsInv, MapInv
    <3>4. Cardinality(DOMAIN sessions) <= maxSessions \/ Cardinality(DOMAIN sessions) <= loaded
      BY DEF SessionsInv, MapInv
    <3> HIDE DEF most
    <3>5. Cardinality(DOMAIN sessions) <= most
      BY <3>1, <3>2, <3>3, <3>4
    <3>6. QED
      BY <3>5 DEF most
  <2>2. \A k \in DOMAIN sessions : sessions[k] \in Objects
    BY DEF SessionsInv, MapInv
  <2>3. ASSUME NEW s \in Live \cup Saved
        PROVE  /\ s.summary \subseteq Callers /\ s.turns \in Nat /\ s.updated \in 0 .. clock
               /\ \A i \in DOMAIN s.messages : s.messages[i] \in Callers \X Nat
    <3>1. Good(s, request, appended, clock)
      BY AllGood
    <3>2. s.messages \in Seq(Unit)
      BY <3>1 DEF Good
    <3>3. \A i \in DOMAIN s.messages : s.messages[i] \in Unit
      BY <3>2
    <3>4. QED
      BY <3>1, <3>3 DEF Good, OfKey, Unit
  <2>4. lock \in Callers \cup {None}
    BY DEF SessionsInv, LockInv, Locked
  <2>5. DOMAIN tmp \cup DOMAIN path \subseteq {request[r].key : r \in Callers}
    BY DEF SessionsInv, FileInv, KeysOf
  <2>6. QED
    BY <2>1, <2>2, <2>3, <2>4, <2>5 DEF TypeOK
<1>2. QED
  BY <1>1, SessionsAlways, PTL

\* Whatever is appended and trimmed while goroutines save, and whichever of them
\* writes last, a session in memory or on disk holds messages stored under its
\* own key, in the order they were stored in, none twice (store.go:106-121
\* against 180-213).
THEOREM NothingOutOfOrder == Spec => []StoredInOrder
<1>1. SessionsInv => StoredInOrder
  <2> SUFFICES ASSUME SessionsInv, NEW s \in Live \cup Saved
               PROVE  /\ \A i \in DOMAIN s.messages : \E n \in DOMAIN Units_(s.key) :
                           Units_(s.key)[n] = s.messages[i]
                      /\ \A i, j \in DOMAIN s.messages : i < j =>
                           Position(s.key, s.messages[i]) < Position(s.key, s.messages[j])
    BY DEF StoredInOrder
  <2> DEFINE u == Units_(s.key)
  <2>1. Ordered(s.messages, u)
    BY AllGood DEF Good, UnitsUnder, Units_
  <2> HIDE DEF u
  <2>2. \A i \in DOMAIN s.messages : \E n \in DOMAIN u : u[n] = s.messages[i]
    BY <2>1 DEF Ordered, Within
  <2>3. ASSUME NEW i \in DOMAIN s.messages, NEW j \in DOMAIN s.messages, i < j
        PROVE  Position(s.key, s.messages[i]) < Position(s.key, s.messages[j])
    <3> DEFINE a == CHOOSE n \in DOMAIN u : u[n] = s.messages[i]
               b == CHOOSE n \in DOMAIN u : u[n] = s.messages[j]
    <3>1. a \in DOMAIN u /\ u[a] = s.messages[i]
      BY <2>2
    <3>2. b \in DOMAIN u /\ u[b] = s.messages[j]
      BY <2>2
    <3>3. Precedes(s.messages[i], s.messages[j], u)
      BY <2>1, <2>3 DEF Ordered
    <3>4. a < b
      BY <3>1, <3>2, <3>3 DEF Precedes
    <3>5. QED
      BY <3>4 DEF Position, u
  <2>4. QED
    BY <2>2, <2>3 DEF u
<1>2. QED
  BY <1>1, SessionsAlways, PTL

-----------------------------------------------------------------------------
\* What is counted of the turns of a session: all of what it holds, and of what
\* a goroutine has read of it, but the turn being appended and one for each
\* start, which was saved before it was counted.
Pending(o) == \E r \in Callers : request[r].pc = "turn" /\ sessions[request[r].key] = o
Lag(o) == restarts + IF Pending(o) THEN 1 ELSE 0
Count1(some, turns, lag) == Cardinality(some) <= turns + lag
ReadOf(w) == TurnsOf(writer[w].data.messages) \cup TurnsOf(object[writer[w].obj].messages)

CountInv ==
  /\ restarts \in Nat
  /\ \A o \in Referenced \ {None} : Count1(TurnsOf(object[o].messages), object[o].turns, Lag(o))
  /\ \A w \in Writers : writer[w].pc = "element" =>
       Count1(ReadOf(w), object[writer[w].obj].turns, Lag(writer[w].obj))
  /\ \A w \in Writers : writer[w].pc \in Saving =>
       Count1(TurnsOf(writer[w].data.messages), writer[w].data.turns, restarts + 1)
  /\ \A i \in Inodes : Readable(inode[i]) =>
       Count1(TurnsOf(inode[i].messages), inode[i].turns, restarts + 1)

\* Fewer turns, and more time to count them.
LEMMA CountLess ==
  ASSUME NEW A, IsFiniteSet(A), NEW B, B \subseteq A, NEW n \in Nat, NEW lag \in Nat, Count1(A, n, lag),
         NEW m \in Nat, n <= m, NEW more \in Nat, lag <= more
  PROVE  Count1(B, m, more)
<1>1. IsFiniteSet(B) /\ Cardinality(B) <= Cardinality(A)
  BY FS_Subset
<1>2. Cardinality(A) \in Nat /\ Cardinality(B) \in Nat
  BY <1>1, FS_CardinalityType
<1>3. QED
  BY <1>1, <1>2 DEF Count1

LEMMA CountMore ==
  ASSUME NEW A, IsFiniteSet(A), NEW r, NEW B, B \subseteq A \cup {r}, NEW n \in Nat, NEW lag \in Nat, Count1(A, n, lag)
  PROVE  Count1(B, n, lag + 1)
<1>1. n + lag \in Nat /\ Cardinality(A) <= n + lag
  BY DEF Count1
<1>2. Cardinality(B) <= (n + lag) + 1
  BY <1>1, OneMoreTurn
<1>3. QED
  BY <1>2 DEF Count1

\* The session in memory a lag is of.
LEMMA LagIs ==
  ASSUME restarts \in Nat
  PROVE  /\ \A o : Lag(o) \in {restarts, restarts + 1} /\ Lag(o) \in Nat
         /\ (\A r \in Callers : request[r].pc # "turn") => \A o : Lag(o) = restarts
<1>1. \A o : Lag(o) \in {restarts, restarts + 1}
  BY DEF Lag
<1>2. (\A r \in Callers : request[r].pc # "turn") => \A o : Lag(o) = restarts
  BY DEF Lag, Pending
<1>3. QED
  BY <1>1, <1>2

\* Of what is held and read of a session there are finitely many turns.
LEMMA HeldIs ==
  ASSUME SessionsInv
  PROVE  /\ \A o \in Referenced \ {None} : object[o].messages \in Seq(Unit) /\ object[o].turns \in Nat
         /\ \A w \in Writers : writer[w].pc = "element" =>
              writer[w].data.messages \in Seq(Unit) /\ writer[w].obj \in Referenced \ {None}
<1>1. \A o \in Referenced \ {None} : object[o].messages \in Seq(Unit) /\ object[o].turns \in Nat
  BY DEF SessionsInv, HeapInv, Good
<1>2. ASSUME NEW w \in Writers, writer[w].pc = "element"
      PROVE  writer[w].data.messages \in Seq(Unit) /\ writer[w].obj \in Referenced \ {None}
  <2>1. WriterOK(w, writer[w], request, appended, clock, object)
    BY DEF SessionsInv, WriterInv
  <2>2. writer[w].obj # None /\ Partial(writer[w].data, object[writer[w].obj], request, appended)
    BY <1>2, <2>1 DEF WriterOK
  <2>3. QED
    BY <2>2 DEF Partial, Referenced
<1>3. QED
  BY <1>1, <1>2

\* What leaves a session's messages and count as they are, and the appends to it.
SameCount(o) ==
  object'[o].messages = object[o].messages /\ object'[o].turns = object[o].turns /\ Lag(o)' = Lag(o)

LEMMA CountsStay ==
  ASSUME CountInv, restarts' = restarts, inode' = inode,
         \A o \in Referenced' \ {None} :
           \/ o \in Referenced /\ SameCount(o)
           \/ Count1(TurnsOf(object[o].messages), object[o].turns, Lag(o))',
         \A w \in Writers : writer'[w].pc = "element" =>
           /\ writer'[w] = writer[w]
           /\ SameCount(writer[w].obj) \/ Count1(ReadOf(w), object[writer[w].obj].turns, Lag(writer[w].obj))',
         \A w \in Writers : writer'[w].pc \in Saving => writer'[w] = writer[w]
  PROVE  CountInv'
<1>1. ASSUME NEW o \in Referenced' \ {None}
      PROVE  Count1(TurnsOf(object[o].messages), object[o].turns, Lag(o))'
  BY <1>1 DEF CountInv, SameCount
<1>2. ASSUME NEW w \in Writers, writer'[w].pc = "element"
      PROVE  Count1(ReadOf(w), object[writer[w].obj].turns, Lag(writer[w].obj))'
  <2>1. CASE SameCount(writer[w].obj)
    <3>1. writer'[w] = writer[w] /\ Count1(ReadOf(w), object[writer[w].obj].turns, Lag(writer[w].obj))
      BY <1>2 DEF CountInv
    <3>2. ReadOf(w)' = ReadOf(w)
      BY <2>1, <3>1 DEF ReadOf, SameCount
    <3>3. QED
      BY <2>1, <3>1, <3>2 DEF SameCount
  <2>2. QED
    BY <1>2, <2>1
<1>3. \A w \in Writers : writer'[w].pc \in Saving =>
        Count1(TurnsOf(writer'[w].data.messages), writer'[w].data.turns, restarts' + 1)
  BY DEF CountInv
<1>4. \A i \in Inodes : Readable(inode'[i]) => Count1(TurnsOf(inode'[i].messages), inode'[i].turns, restarts' + 1)
  BY DEF CountInv
<1>5. restarts' \in Nat
  BY DEF CountInv
<1>6. QED
  BY <1>1, <1>2, <1>3, <1>4, <1>5 DEF CountInv

\* A step of a request that appends nothing, and makes no session.
LEMMA NoAppendCounts ==
  ASSUME SessionsInv, CountInv, restarts' = restarts, inode' = inode, sessions' = sessions,
         \A p \in Callers : request'[p].pc = "turn" <=> request[p].pc = "turn",
         \A p \in Callers : request[p].pc = "turn" => request'[p] = request[p],
         \A p \in Callers : request'[p].sess \in {None, request[p].sess} \cup {sessions[k] : k \in DOMAIN sessions},
         \A o \in Referenced \ {None} : object'[o].messages = object[o].messages /\ object'[o].turns = object[o].turns,
         \A w \in Writers : \/ writer'[w] = writer[w]
                            \/ writer'[w].pc = "begin" /\ writer'[w].obj \in Referenced
  PROVE  CountInv'
<1>1. \A o : Lag(o)' = Lag(o)
  BY DEF Lag, Pending
<1>2. Referenced' \subseteq Referenced \cup {None}
  <2>1. \A w \in Writers : writer[w].obj \in Referenced /\ writer'[w].obj \in Referenced
    BY DEF Referenced
  <2>2. \A p \in Callers : request'[p].sess \in Referenced \cup {None}
    BY DEF Referenced, Pointers
  <2>3. \A k \in DOMAIN sessions' : sessions'[k] \in Referenced
    BY DEF Referenced
  <2>4. QED
    BY <2>1, <2>2, <2>3 DEF Referenced, Pointers
<1>3. \A o \in Referenced \ {None} : SameCount(o)
  BY <1>1 DEF SameCount
<1>4. \A w \in Writers : writer'[w].pc = "element" => writer'[w] = writer[w] /\ SameCount(writer[w].obj)
  BY <1>3, HeldIs
<1>5. \A w \in Writers : writer'[w].pc \in Saving => writer'[w] = writer[w]
  BY DEF Saving
<1>6. QED
  BY <1>2, <1>3, <1>4, <1>5, CountsStay

\* An append is of the one session its key has.
LEMMA AppendIsOf ==
  ASSUME SessionsInv, NEW r \in Callers, NEW k \in DOMAIN sessions, request[r].pc = "turn",
         sessions[request[r].key] = sessions[k]
  PROVE  request[r].key = k
<1>1. request[r].key \in DOMAIN sessions
  BY DEF SessionsInv, LockInv, Locked
<1>2. QED
  BY <1>1 DEF SessionsInv, MapInv

\* A request that goes on other than by an append, and points at what it did or
\* at what is in the map.
LEMMA OneGoesOn ==
  ASSUME SessionsInv, NEW r \in Callers, NEW q, request' = [request EXCEPT ![r] = q],
         request[r].pc # "turn", q.pc # "turn",
         q.sess \in {None, request[r].sess} \cup {sessions[k] : k \in DOMAIN sessions}
  PROVE  \A p \in Callers :
           /\ request'[p].pc = "turn" <=> request[p].pc = "turn"
           /\ request[p].pc = "turn" => request'[p] = request[p]
           /\ request'[p].sess \in {None, request[p].sess} \cup {sessions[k] : k \in DOMAIN sessions}
<1>1. request'[r] = q /\ \A p \in Callers \ {r} : request'[p] = request[p]
  BY DEF SessionsInv, RequestInv
<1>2. QED
  BY <1>1

LEMMA QuietCounts ==
  ASSUME SessionsInv, CountInv, UNCHANGED <<storeVars, locals>>,
         NEW r \in Callers, NEW q, request' = [request EXCEPT ![r] = q],
         request[r].pc # "turn", q.pc # "turn",
         q.sess \in {None, request[r].sess} \cup {sessions[k] : k \in DOMAIN sessions}
  PROVE  CountInv'
<1>1. /\ restarts' = restarts /\ inode' = inode /\ sessions' = sessions /\ object' = object /\ writer' = writer
  BY DEF storeVars, locals
<1>2. \A p \in Callers :
        /\ request'[p].pc = "turn" <=> request[p].pc = "turn"
        /\ request[p].pc = "turn" => request'[p] = request[p]
        /\ request'[p].sess \in {None, request[p].sess} \cup {sessions[k] : k \in DOMAIN sessions}
  BY OneGoesOn
<1>3. QED
  BY <1>1, <1>2, NoAppendCounts

LEMMA ResolveCounts ==
  ASSUME SessionsInv, CountInv, NEW r \in Callers, Resolve(r)
  PROVE  CountInv'
<1>1. PICK msgs \in Conversations[dataDir] :
        LET shaped == Shaped(msgs, contextWindow)
            key == HashMessages(shaped, Model)
            found == key # NoKey /\ ~Absent(sessions, key)
        IN request' = [request EXCEPT ![r] =
             [Idle EXCEPT !.asked = msgs, !.msgs = shaped, !.key = key,
                !.sess = IF found THEN sessions[key] ELSE None,
                !.pc = IF key = NoKey \/ found THEN "prompt" ELSE "create"]]
  BY DEF Resolve
<1> DEFINE shaped == Shaped(msgs, contextWindow)
           key == HashMessages(shaped, Model)
           found == key # NoKey /\ ~Absent(sessions, key)
           q == [Idle EXCEPT !.asked = msgs, !.msgs = shaped, !.key = key,
                   !.sess = IF found THEN sessions[key] ELSE None,
                   !.pc = IF key = NoKey \/ found THEN "prompt" ELSE "create"]
<1>2. request' = [request EXCEPT ![r] = q] /\ request[r].pc = "idle" /\ UNCHANGED <<storeVars, locals>>
  BY <1>1 DEF Resolve
<1> HIDE DEF key
<1>3. /\ q.pc = (IF key = NoKey \/ found THEN "prompt" ELSE "create")
      /\ q.sess = (IF found THEN sessions[key] ELSE None)
  BY DEF Idle
<1>4. found => sessions[key] \in {sessions[k] : k \in DOMAIN sessions}
  BY DEF Absent
<1> HIDE DEF found, q
<1>5. QED
  BY <1>2, <1>3, <1>4, QuietCounts

LEMMA PromptCounts ==
  ASSUME SessionsInv, CountInv, NEW r \in Callers, Prompt(r)
  PROVE  CountInv'
<1>0. RequestOK(request[r], request, object) /\ request[r].pc = "prompt" /\ UNCHANGED <<storeVars, locals>>
  BY DEF SessionsInv, RequestInv, Prompt
<1>1. \E q : request' = [request EXCEPT ![r] = q] /\ q.pc # "turn" /\ q.sess = None
  <2>1. CASE request[r].sess = None
    <3> DEFINE q == Moved(request[r], "done")
    <3>1. request' = [request EXCEPT ![r] = q]
      BY <2>1, MovesOn DEF Prompt, SessionsInv
    <3>2. q.pc = "done" /\ q.sess = None
      BY <1>0, MovedIs DEF RequestOK
    <3>3. QED
      BY <3>1, <3>2
  <2>2. CASE request[r].sess # None
    <3> DEFINE told == SummaryRead(r)
               units == Len(MessagesFromOpenAI(request[r].msgs)) + IF r \in Streaming THEN 0 ELSE 1
    <3>1. PICK outcome \in {"failed", "answered"} :
            request' = [request EXCEPT ![r].prefix = told,
                                       ![r].pc = IF outcome = "failed" THEN "done" ELSE "append",
                                       ![r].sess = None, ![r].batch = units]
      BY <2>2 DEF Prompt
    <3> DEFINE q == [request[r] EXCEPT !.prefix = told, !.pc = IF outcome = "failed" THEN "done" ELSE "append",
                                       !.sess = None, !.batch = units]
    <3>2. request' = [request EXCEPT ![r] = q]
      BY <3>1 DEF SessionsInv, RequestInv
    <3> HIDE DEF told, units
    <3>3. q.pc \in {"append", "done"} /\ q.sess = None
      BY <1>0 DEF RequestOK, RequestFields
    <3>4. QED
      BY <3>2, <3>3
  <2>3. QED
    BY <2>1, <2>2
<1>2. QED
  BY <1>0, <1>1, QuietCounts

\* The steps that only look at the store.
LEMMA MovesCount ==
  ASSUME SessionsInv, CountInv, UNCHANGED <<storeVars, locals>>, NEW r \in Callers, NEW pc, To(r, pc),
         request[r].pc # "turn", pc # "turn"
  PROVE  CountInv'
<1> DEFINE q == Moved(request[r], pc)
<1>1. RequestOK(request[r], request, object) /\ RequestInv
  BY DEF SessionsInv, RequestInv
<1>2. request' = [request EXCEPT ![r] = q]
  BY <1>1, MovesOn
<1>3. q.pc = pc /\ q.sess = (IF pc = "done" THEN None ELSE request[r].sess)
  BY <1>1, MovedIs DEF RequestOK
<1> HIDE DEF q
<1>4. QED
  BY <1>2, <1>3, QuietCounts

LEMMA LooksCount ==
  ASSUME SessionsInv, CountInv, NEW r \in Callers, Count(r) \/ Due(r)
  PROVE  CountInv'
<1>1. CASE Count(r)
  <2> DEFINE pc == IF SummaryDue(GetTurnCount(request[r].key)) THEN "due" ELSE "done"
  <2>1. To(r, pc) /\ request[r].pc = "count" /\ UNCHANGED <<storeVars, locals>> /\ pc # "turn"
    BY <1>1 DEF Count
  <2> HIDE DEF pc
  <2>2. QED
    BY <2>1, MovesCount
<1>2. CASE Due(r)
  <2> DEFINE told == GetSummary(request[r].key)
             q == [request[r] EXCEPT !.pc = "summarise", !.current = told]
  <2>1. RequestOK(request[r], request, object) /\ request[r].pc = "due" /\ UNCHANGED <<storeVars, locals>>
    BY <1>2 DEF SessionsInv, RequestInv, Due
  <2>2. request' = [request EXCEPT ![r] = q]
    BY <1>2 DEF Due, SessionsInv, RequestInv
  <2> HIDE DEF told
  <2>3. q.pc = "summarise" /\ q.sess = request[r].sess
    BY <2>1 DEF RequestOK, RequestFields
  <2> HIDE DEF q
  <2>4. QED
    BY <2>1, <2>2, <2>3, QuietCounts
<1>3. QED
  BY <1>1, <1>2

\* A new session holds nothing, and nobody appends while it is made.
LEMMA CreateCounts ==
  ASSUME SessionsInv, CountInv, NEW r \in Callers, CreateSession(r)
  PROVE  CountInv'
<1>0. PICK o : o = Fresh(Pointers)
  OBVIOUS
<1> DEFINE key == request[r].key
           q == [request[r] EXCEPT !.pc = "prompt", !.sess = o]
<1>1. /\ request[r].pc = "create" /\ lock = None
      /\ sessions' = Set(Room(sessions), key, o)
      /\ object' = [object EXCEPT ![o] = NewSession(key, clock + 1)]
      /\ writer' = writer /\ inode' = inode /\ restarts' = restarts
      /\ request' = [request EXCEPT ![r].pc = "prompt", ![r].sess = o]
  BY <1>0 DEF CreateSession, Create, locals
<1>2. o \in Objects \ Referenced /\ o # None
  BY <1>0, FreshIs, StoreAssumption DEF CreateSession, Create
<1>3. RequestOK(request[r], request, object) /\ request' = [request EXCEPT ![r] = q]
  BY <1>1 DEF SessionsInv, RequestInv
<1>4. q.pc = "prompt" /\ q.sess = o
  BY <1>3 DEF RequestOK, RequestFields
<1> HIDE DEF q
<1>5. request'[r] = q /\ \A p \in Callers \ {r} : request'[p] = request[p]
  BY <1>3 DEF SessionsInv, RequestInv
<1>6. \A p \in Callers : request[p].pc # "turn" /\ request'[p].pc # "turn"
  BY <1>1, <1>4, <1>5, StoreAssumption DEF SessionsInv, LockInv, Locked
<1>7. restarts \in Nat /\ \A x : Lag(x) = restarts /\ Lag(x)' = restarts
  <2>1. \A x : ~ Pending(x) /\ ~ Pending(x)'
    BY <1>6 DEF Pending
  <2>2. restarts \in Nat
    BY DEF CountInv
  <2>3. QED
    BY <1>1, <2>1, <2>2 DEF Lag
<1>8. object'[o] = NewSession(key, clock + 1) /\ \A p \in Referenced : object'[p] = object[p]
  BY <1>1, <1>2 DEF SessionsInv, MapInv
<1>9. /\ sessions'[key] = o
      /\ \A k \in DOMAIN sessions' \ {key} : k \in DOMAIN sessions /\ sessions'[k] = sessions[k]
  <2>1. /\ DOMAIN sessions' \subseteq DOMAIN sessions \cup {key} /\ sessions'[key] = o
        /\ \A k \in DOMAIN sessions' \ {key} : sessions'[k] = sessions[k]
    BY <1>1, RoomFor
  <2>2. QED
    BY <2>1
<1>10. Referenced' \subseteq Referenced \cup {o, None}
  <2>1. \A p \in Callers : request'[p].sess \in Referenced \cup {o}
    <3> TAKE p \in Callers
    <3>1. p # r => request'[p].sess = request[p].sess /\ request[p].sess \in Pointers
      BY <1>5 DEF Pointers
    <3>2. QED
      BY <1>4, <1>5, <3>1 DEF Referenced
  <2>2. \A k \in DOMAIN sessions' : sessions'[k] \in Referenced \cup {o}
    BY <1>9 DEF Referenced
  <2>3. \A w \in Writers : writer'[w].obj \in Referenced
    BY <1>1 DEF Referenced
  <2>4. QED
    BY <2>1, <2>2, <2>3 DEF Referenced, Pointers
<1>11. \A p \in Referenced : SameCount(p)
  BY <1>7, <1>8 DEF SameCount
<1>12. Count1(TurnsOf(object[o].messages), object[o].turns, Lag(o))'
  <2>1. object'[o].messages = <<>> /\ object'[o].turns = 0
    BY <1>8 DEF NewSession
  <2>2. TurnsOf(object'[o].messages) = {}
    BY <2>1, EmptySeq DEF TurnsOf
  <2>3. Cardinality({}) = 0
    BY FS_EmptySet
  <2>4. restarts \in Nat /\ Lag(o)' = restarts
    BY <1>7
  <2>5. Cardinality(TurnsOf(object'[o].messages)) = 0
    BY <2>2, <2>3
  <2>6. 0 <= object'[o].turns + Lag(o)'
    <3>1. object'[o].turns = 0
      BY <2>1
    <3>2. QED
      BY <2>4, <3>1
  <2>7. QED
    BY <2>5, <2>6 DEF Count1
<1>13. \A w \in Writers : writer'[w].pc = "element" => writer'[w] = writer[w] /\ SameCount(writer[w].obj)
  BY <1>1, <1>11 DEF Referenced
<1>14. \A p \in Referenced' \ {None} :
         \/ p \in Referenced /\ SameCount(p)
         \/ Count1(TurnsOf(object[p].messages), object[p].turns, Lag(p))'
  BY <1>10, <1>11, <1>12
<1>15. QED
  BY <1>1, <1>13, <1>14, CountsStay

\* A step that changes what one session of the map holds or counts.
LEMMA OneCounts ==
  ASSUME SessionsInv, CountInv, restarts' = restarts, inode' = inode, sessions' = sessions,
         NEW r \in Callers, NEW q, request' = [request EXCEPT ![r] = q], q.sess = request[r].sess,
         NEW o \in Referenced \ {None}, NEW s, object' = [object EXCEPT ![o] = s],
         \A p \in Referenced \ {None, o} : Lag(p)' = Lag(p),
         Count1(TurnsOf(s.messages), s.turns, Lag(o)'),
         \A w \in Writers : writer[w].pc = "element" /\ writer[w].obj = o =>
           Count1(TurnsOf(writer[w].data.messages) \cup TurnsOf(s.messages), s.turns, Lag(o)'),
         \A w \in Writers : \/ writer'[w] = writer[w]
                            \/ writer'[w].pc = "begin" /\ writer'[w].obj \in Referenced
  PROVE  CountInv'
<1>1. o \in Objects
  BY DEF SessionsInv, HeapInv
<1>2. object'[o] = s /\ \A p \in Referenced \ {None, o} : object'[p] = object[p]
  BY <1>1 DEF SessionsInv, MapInv
<1>3. \A p \in Referenced \ {None, o} : SameCount(p)
  BY <1>2 DEF SameCount
<1>4. Referenced' \subseteq Referenced
  <2>1. request'[r] = q /\ \A p \in Callers \ {r} : request'[p] = request[p]
    BY DEF SessionsInv, RequestInv
  <2>2. \A p \in Callers : request'[p].sess \in Referenced
    BY <2>1 DEF Referenced, Pointers
  <2>3. \A w \in Writers : writer'[w].obj \in Referenced
    <3>1. \A w \in Writers : writer[w].obj \in Referenced
      BY DEF Referenced
    <3>2. QED
      BY <3>1
  <2>4. \A k \in DOMAIN sessions' : sessions'[k] \in Referenced
    BY DEF Referenced
  <2>5. QED
    BY <2>2, <2>3, <2>4 DEF Referenced, Pointers
<1>5. \A p \in Referenced' \ {None} :
        \/ p \in Referenced /\ SameCount(p)
        \/ Count1(TurnsOf(object[p].messages), object[p].turns, Lag(p))'
  <2> TAKE p \in Referenced' \ {None}
  <2>1. CASE p = o
    BY <1>2, <2>1
  <2>2. CASE p # o
    BY <1>3, <1>4, <2>2
  <2>3. QED
    BY <2>1, <2>2
<1>6. ASSUME NEW w \in Writers, writer'[w].pc = "element"
      PROVE  /\ writer'[w] = writer[w]
             /\ SameCount(writer[w].obj) \/ Count1(ReadOf(w), object[writer[w].obj].turns, Lag(writer[w].obj))'
  <2>1. writer'[w] = writer[w] /\ writer[w].pc = "element"
    BY <1>6
  <2>2. writer[w].obj \in Referenced \ {None}
    BY <2>1, HeldIs
  <2>3. CASE writer[w].obj = o
    <3>1. ReadOf(w)' = TurnsOf(writer[w].data.messages) \cup TurnsOf(s.messages)
      BY <1>2, <2>1, <2>3 DEF ReadOf
    <3>2. Count1(ReadOf(w)', object'[o].turns, Lag(o)')
      BY <1>2, <2>1, <2>3, <3>1
    <3>3. writer'[w].obj = o
      BY <2>1, <2>3
    <3>4. QED
      BY <2>1, <3>2, <3>3
  <2>4. CASE writer[w].obj # o
    BY <1>3, <2>1, <2>2, <2>4
  <2>5. QED
    BY <2>3, <2>4
<1>7. \A w \in Writers : writer'[w].pc \in Saving => writer'[w] = writer[w]
  BY DEF Saving
<1>8. QED
  BY <1>5, <1>6, <1>7, CountsStay

\* What is read and held of a session is of finitely many turns.
LEMMA ReadFinite ==
  ASSUME SessionsInv
  PROVE  /\ \A o \in Referenced \ {None} : IsFiniteSet(TurnsOf(object[o].messages)) /\ object[o].turns \in Nat
         /\ \A w \in Writers : writer[w].pc = "element" => IsFiniteSet(ReadOf(w))
<1>1. \A o \in Referenced \ {None} : IsFiniteSet(TurnsOf(object[o].messages)) /\ object[o].turns \in Nat
  BY HeldIs, TurnsFinite
<1>2. ASSUME NEW w \in Writers, writer[w].pc = "element" PROVE IsFiniteSet(ReadOf(w))
  <2>1. IsFiniteSet(TurnsOf(writer[w].data.messages)) /\ IsFiniteSet(TurnsOf(object[writer[w].obj].messages))
    BY <1>1, <1>2, HeldIs, TurnsFinite
  <2>2. QED
    BY <2>1, FS_Union DEF ReadOf
<1>3. QED
  BY <1>1, <1>2

\* The messages of a turn are held before they are counted.
LEMMA StoreCounts ==
  ASSUME SessionsInv, CountInv, NEW r \in Callers, Store(r)
  PROVE  CountInv'
<1> DEFINE key == request[r].key
           x == Units(r)
           q == Moved(request[r], "turn")
<1>0. request[r].pc = "append" /\ RequestOK(request[r], request, object) /\ RequestInv
  BY DEF SessionsInv, RequestInv, Store
<1>1. CASE Absent(sessions, key)
  <2>1. To(r, "count") /\ UNCHANGED <<storeVars, locals>>
    BY <1>1 DEF Store, locals
  <2>2. QED
    BY <1>0, <2>1, MovesCount
<1>2. CASE ~ Absent(sessions, key)
  <2>0. PICK o : o = sessions[key]
    OBVIOUS
  <2>1. /\ lock = None /\ key \in DOMAIN sessions
        /\ object' = [object EXCEPT ![o].messages = @ \o x]
        /\ sessions' = sessions /\ writer' = writer /\ inode' = inode /\ restarts' = restarts
        /\ To(r, "turn")
    BY <1>2, <2>0 DEF Store, Append1, Absent
  <2>2. o \in Objects /\ o # None /\ o \in Referenced /\ Good(object[o], request, appended, clock)
    BY <2>0, <2>1, InTheMap DEF Referenced
  <2>3. object' = [object EXCEPT ![o] = Lengthened(object[o], x)]
    BY <2>1, <2>2 DEF SessionsInv, MapInv, Lengthened
  <2>4. request' = [request EXCEPT ![r] = q]
    BY <1>0, <2>1, MovesOn
  <2>5. q.pc = "turn" /\ q.sess = request[r].sess /\ q.key = key
    BY <1>0, MovedIs DEF RequestOK
  <2> HIDE DEF q
  <2>6. request'[r] = q /\ \A p \in Callers \ {r} : request'[p] = request[p]
    BY <2>4 DEF SessionsInv, RequestInv
  <2>7. \A p \in Callers : request[p].pc # "turn"
    BY <2>1, StoreAssumption DEF SessionsInv, LockInv, Locked
  <2>8. \A p : ~ Pending(p) /\ (Pending(p)' <=> p = o)
    BY <2>0, <2>1, <2>5, <2>6, <2>7 DEF Pending
  <2>9. restarts \in Nat /\ \A p : Lag(p) = restarts /\ Lag(p)' = restarts + IF p = o THEN 1 ELSE 0
    <3>1. restarts \in Nat
      BY DEF CountInv
    <3>2. QED
      BY <2>1, <2>8, <3>1 DEF Lag
  <2> DEFINE s == Lengthened(object[o], x)
  <2>10. s.messages = object[o].messages \o x /\ s.turns = object[o].turns
    BY <2>2, LengthenedIs DEF Good
  <2>11. x \in Seq(Unit) /\ \A i \in DOMAIN x : x[i][1] = r
    <3>1. request[r].batch \in Nat
      BY <1>0 DEF RequestOK
    <3>2. QED
      BY <3>1 DEF Units, Unit
  <2>12. TurnsOf(s.messages) \subseteq TurnsOf(object[o].messages) \cup {r}
    BY <2>2, <2>10, <2>11, TurnsJoined DEF Good
  <2> HIDE DEF s, x
  <2>13. Count1(TurnsOf(s.messages), s.turns, Lag(o)')
    <3>1. IsFiniteSet(TurnsOf(object[o].messages)) /\ object[o].turns \in Nat
      BY <2>2, ReadFinite
    <3>2. Count1(TurnsOf(object[o].messages), object[o].turns, restarts)
      BY <2>2, <2>9 DEF CountInv
    <3>3. Count1(TurnsOf(s.messages), object[o].turns, restarts + 1)
      BY <2>9, <2>12, <3>1, <3>2, CountMore
    <3>4. QED
      BY <2>9, <2>10, <3>3
  <2>14. ASSUME NEW w \in Writers, writer[w].pc = "element", writer[w].obj = o
         PROVE  Count1(TurnsOf(writer[w].data.messages) \cup TurnsOf(s.messages), s.turns, Lag(o)')
    <3>1. IsFiniteSet(ReadOf(w)) /\ object[o].turns \in Nat
      BY <2>2, <2>14, ReadFinite
    <3>2. Count1(ReadOf(w), object[o].turns, restarts)
      BY <2>9, <2>14 DEF CountInv
    <3>3. TurnsOf(writer[w].data.messages) \cup TurnsOf(s.messages) \subseteq ReadOf(w) \cup {r}
      BY <2>12, <2>14 DEF ReadOf
    <3>4. Count1(TurnsOf(writer[w].data.messages) \cup TurnsOf(s.messages), object[o].turns, restarts + 1)
      BY <2>9, <3>1, <3>2, <3>3, CountMore
    <3>5. QED
      BY <2>9, <2>10, <3>4
  <2>15. object' = [object EXCEPT ![o] = s]
    BY <2>3 DEF s
  <2>16. \A p \in Referenced \ {None, o} : Lag(p)' = Lag(p)
    BY <2>9
  <2>17. QED
    BY <2>1, <2>2, <2>4, <2>5, <2>13, <2>14, <2>15, <2>16, OneCounts
<1>3. QED
  BY <1>1, <1>2

\* Then they are counted.
LEMMA TurnCounts ==
  ASSUME SessionsInv, CountInv, NEW r \in Callers, Turn(r)
  PROVE  CountInv'
<1> DEFINE key == request[r].key
           q == Moved(request[r], "trim")
<1>0. request[r].pc = "turn" /\ RequestOK(request[r], request, object) /\ RequestInv /\ key \in DOMAIN sessions
  BY DEF SessionsInv, RequestInv, Turn, LockInv, Locked
<1>1. PICK o : o = sessions[key]
  OBVIOUS
<1>2. /\ lock = r /\ object' = [object EXCEPT ![o] = Counted(@)] /\ writer' = writer
      /\ sessions' = sessions /\ inode' = inode /\ restarts' = restarts /\ To(r, "trim")
  BY <1>1 DEF Turn, Append2, locals
<1>3. o \in Objects /\ o # None /\ o \in Referenced /\ Good(object[o], request, appended, clock)
  BY <1>0, <1>1, InTheMap DEF Referenced
<1>4. object' = [object EXCEPT ![o] = Counted(object[o])]
  BY <1>2, <1>3 DEF SessionsInv, MapInv
<1>5. request' = [request EXCEPT ![r] = q]
  BY <1>0, <1>2, MovesOn
<1>6. q.pc = "trim" /\ q.sess = request[r].sess
  BY <1>0, MovedIs DEF RequestOK
<1> HIDE DEF q
<1>7. request'[r] = q /\ \A p \in Callers \ {r} : request'[p] = request[p]
  BY <1>5 DEF SessionsInv, RequestInv
<1>8. \A p \in Callers \ {r} : request[p].pc # "turn"
  BY <1>2 DEF SessionsInv, LockInv, Locked
<1>9. \A p : (Pending(p) <=> p = o) /\ ~ Pending(p)'
  BY <1>0, <1>1, <1>6, <1>7, <1>8 DEF Pending
<1>10. restarts \in Nat /\ \A p : (Lag(p) = restarts + IF p = o THEN 1 ELSE 0) /\ Lag(p)' = restarts
  <2>1. restarts \in Nat
    BY DEF CountInv
  <2>2. QED
    BY <1>2, <1>9, <2>1 DEF Lag
<1> DEFINE s == Counted(object[o])
<1>11. s.messages = object[o].messages /\ s.turns = object[o].turns + 1
  <2>1. object[o] = [y \in SessionFields |-> object[o][y]]
    BY <1>3 DEF Good
  <2>2. QED
    BY <2>1 DEF Counted, SessionFields
<1> HIDE DEF s
<1>12. object[o].turns \in Nat /\ IsFiniteSet(TurnsOf(object[o].messages))
  BY <1>3, ReadFinite
<1>13. ASSUME NEW A, IsFiniteSet(A), Count1(A, object[o].turns, Lag(o))
       PROVE  Count1(A, s.turns, Lag(o)')
  <2>1. Cardinality(A) \in Nat /\ Cardinality(A) <= object[o].turns + (restarts + 1)
    BY <1>10, <1>13, FS_CardinalityType DEF Count1
  <2>2. Cardinality(A) <= (object[o].turns + 1) + restarts
    BY <1>10, <1>12, <2>1
  <2>3. QED
    BY <1>10, <1>11, <2>2 DEF Count1
<1>14. Count1(TurnsOf(s.messages), s.turns, Lag(o)')
  <2>1. Count1(TurnsOf(object[o].messages), object[o].turns, Lag(o))
    BY <1>3 DEF CountInv
  <2>2. QED
    BY <1>11, <1>12, <1>13, <2>1
<1>15. ASSUME NEW w \in Writers, writer[w].pc = "element", writer[w].obj = o
       PROVE  Count1(TurnsOf(writer[w].data.messages) \cup TurnsOf(s.messages), s.turns, Lag(o)')
  <2>1. Count1(ReadOf(w), object[o].turns, Lag(o)) /\ IsFiniteSet(ReadOf(w))
    BY <1>15, ReadFinite DEF CountInv
  <2>2. ReadOf(w) = TurnsOf(writer[w].data.messages) \cup TurnsOf(s.messages)
    BY <1>11, <1>15 DEF ReadOf
  <2>3. QED
    BY <1>13, <2>1, <2>2
<1>16. object' = [object EXCEPT ![o] = s]
  BY <1>4 DEF s
<1>17. \A p \in Referenced \ {None, o} : Lag(p)' = Lag(p)
  BY <1>10
<1>18. QED
  BY <1>2, <1>3, <1>5, <1>6, <1>14, <1>15, <1>16, <1>17, OneCounts

LEMMA SpawnedIs ==
  ASSUME SessionsInv, NEW w \in Writers, NEW o, writer' = Spawned(w, o)
  PROVE  \A v \in Writers : \/ writer'[v] = writer[v]
                            \/ writer'[v].pc = "begin" /\ writer'[v].obj = o
<1> DEFINE new == [IdleWriter EXCEPT !.pc = "begin", !.obj = o]
<1>1. \A v \in Writers : writer'[v] = writer[v] \/ writer'[v] = new
  BY DEF Spawned, SessionsInv, WriterInv
<1>2. new.pc = "begin" /\ new.obj = o
  BY DEF IdleWriter
<1>3. QED
  BY <1>1, <1>2

\* The oldest messages go, what is counted stays.
LEMMA TrimCounts ==
  ASSUME SessionsInv, CountInv, NEW r \in Callers, Trim(r)
  PROVE  CountInv'
<1> DEFINE key == request[r].key
           q == Moved(request[r], "count")
           w == <<r, "append">>
<1>0. request[r].pc = "trim" /\ RequestOK(request[r], request, object) /\ RequestInv /\ key \in DOMAIN sessions
  BY DEF SessionsInv, RequestInv, Trim, LockInv, Locked
<1>1. PICK o : o = sessions[key]
  OBVIOUS
<1>2. /\ lock = r
      /\ object' = [object EXCEPT ![o].updated = clock + 1, ![o].messages = Trimmed(@)]
      /\ writer' = Spawned(w, o)
      /\ sessions' = sessions /\ inode' = inode /\ restarts' = restarts /\ To(r, "count")
  BY <1>1 DEF Trim, Append3, locals
<1>3. o \in Objects /\ o # None /\ o \in Referenced /\ Good(object[o], request, appended, clock)
  BY <1>0, <1>1, InTheMap DEF Referenced
<1>4. object' = [object EXCEPT ![o] = Cut(object[o], clock + 1)]
  BY <1>2, <1>3 DEF SessionsInv, MapInv, Cut
<1>5. request' = [request EXCEPT ![r] = q]
  BY <1>0, <1>2, MovesOn
<1>6. q.pc = "count" /\ q.sess = request[r].sess
  BY <1>0, MovedIs DEF RequestOK
<1> HIDE DEF q
<1>7. request'[r] = q /\ \A p \in Callers \ {r} : request'[p] = request[p]
  BY <1>5 DEF SessionsInv, RequestInv
<1>8. \A p \in Callers \ {r} : request[p].pc # "turn"
  BY <1>2 DEF SessionsInv, LockInv, Locked
<1>9. \A p : ~ Pending(p) /\ ~ Pending(p)'
  BY <1>0, <1>6, <1>7, <1>8 DEF Pending
<1>10. restarts \in Nat /\ \A p : Lag(p) = restarts /\ Lag(p)' = restarts
  <2>1. restarts \in Nat
    BY DEF CountInv
  <2>2. QED
    BY <1>2, <1>9, <2>1 DEF Lag
<1> DEFINE s == Cut(object[o], clock + 1)
<1>11. s.messages = Trimmed(object[o].messages) /\ s.turns = object[o].turns
  BY <1>3, CutIs DEF Good
<1> HIDE DEF s
<1>12. TurnsOf(s.messages) \subseteq TurnsOf(object[o].messages)
  <2>1. object[o].messages \in Seq(Unit) /\ Ordered(object[o].messages, UnitsUnder(appended, object[o].key))
    BY <1>3 DEF Good
  <2>2. PICK n \in Nat : EndOf(Trimmed(object[o].messages), object[o].messages, n)
    BY <2>1, TrimmedIs
  <2>3. QED
    BY <1>11, <2>1, <2>2, EndOrdered
<1>13. ASSUME NEW A, IsFiniteSet(A), Count1(A, object[o].turns, Lag(o)), NEW B, B \subseteq A
       PROVE  Count1(B, s.turns, Lag(o)')
  <2>1. object[o].turns \in Nat
    BY <1>3, ReadFinite
  <2>2. Count1(B, object[o].turns, restarts)
    BY <1>10, <1>13, <2>1, CountLess
  <2>3. QED
    BY <1>10, <1>11, <2>2
<1>14. Count1(TurnsOf(s.messages), s.turns, Lag(o)')
  <2>1. Count1(TurnsOf(object[o].messages), object[o].turns, Lag(o)) /\ IsFiniteSet(TurnsOf(object[o].messages))
    BY <1>3, ReadFinite DEF CountInv
  <2>2. QED
    BY <1>12, <1>13, <2>1
<1>15. ASSUME NEW v \in Writers, writer[v].pc = "element", writer[v].obj = o
       PROVE  Count1(TurnsOf(writer[v].data.messages) \cup TurnsOf(s.messages), s.turns, Lag(o)')
  <2>1. Count1(ReadOf(v), object[o].turns, Lag(o)) /\ IsFiniteSet(ReadOf(v))
    BY <1>15, ReadFinite DEF CountInv
  <2>2. TurnsOf(writer[v].data.messages) \cup TurnsOf(s.messages) \subseteq ReadOf(v)
    BY <1>12, <1>15 DEF ReadOf
  <2>3. QED
    BY <1>13, <2>1, <2>2
<1>16. object' = [object EXCEPT ![o] = s]
  BY <1>4 DEF s
<1>17. \A p \in Referenced \ {None, o} : Lag(p)' = Lag(p)
  BY <1>10
<1>18. \A v \in Writers : \/ writer'[v] = writer[v]
                          \/ writer'[v].pc = "begin" /\ writer'[v].obj \in Referenced
  BY <1>2, <1>3, SpawnedIs DEF Writers
<1>19. QED
  BY <1>2, <1>3, <1>5, <1>6, <1>14, <1>15, <1>16, <1>17, <1>18, OneCounts

LEMMA SummariseCounts ==
  ASSUME SessionsInv, CountInv, NEW r \in Callers, Summarise(r)
  PROVE  CountInv'
<1> DEFINE key == request[r].key
           q == Moved(request[r], "done")
           w == <<r, "summary">>
           told == NewSummary(r)
<1>0. /\ request[r].pc = "summarise" /\ RequestOK(request[r], request, object) /\ RequestInv
      /\ To(r, "done") /\ UNCHANGED locals
  BY DEF SessionsInv, RequestInv, Summarise
<1>1. CASE UNCHANGED storeVars
  BY <1>0, <1>1, MovesCount
<1>2. CASE ~ Absent(sessions, key) /\ SetSummary(r, key, told)
  <2>0. PICK o : o = sessions[key]
    OBVIOUS
  <2>1. /\ key \in DOMAIN sessions
        /\ object' = [object EXCEPT ![o].summary = told, ![o].updated = clock + 1]
        /\ writer' = Spawned(w, o) /\ sessions' = sessions /\ inode' = inode /\ restarts' = restarts
    BY <1>0, <1>2, <2>0 DEF SetSummary, Absent, locals
  <2>2. o \in Objects /\ o # None /\ o \in Referenced /\ Good(object[o], request, appended, clock)
    BY <2>0, <2>1, InTheMap DEF Referenced
  <2>3. /\ object'[o].messages = object[o].messages /\ object'[o].turns = object[o].turns
        /\ \A p \in Referenced \ {None, o} : object'[p] = object[p]
    <3>1. object = [p \in Objects |-> object[p]] /\ \A p \in Referenced \ {None} : p \in Objects
      BY DEF SessionsInv, MapInv, HeapInv
    <3>2. object[o] = [y \in SessionFields |-> object[o][y]]
      BY <2>2 DEF Good
    <3>3. object'[o] = [object[o] EXCEPT !.summary = told, !.updated = clock + 1]
      BY <2>1, <2>2, <3>1
    <3> HIDE DEF told
    <3>4. object'[o].messages = object[o].messages /\ object'[o].turns = object[o].turns
      BY <3>2, <3>3 DEF SessionFields
    <3>5. \A p \in Referenced \ {None, o} : object'[p] = object[p]
      BY <2>1, <3>1
    <3>6. QED
      BY <3>4, <3>5
  <2>4. request' = [request EXCEPT ![r] = q]
    BY <1>0, MovesOn
  <2>5. q.pc = "done" /\ q.sess = None
    BY <1>0, MovedIs DEF RequestOK
  <2> HIDE DEF q
  <2>6. \A p \in Callers :
          /\ request'[p].pc = "turn" <=> request[p].pc = "turn"
          /\ request[p].pc = "turn" => request'[p] = request[p]
          /\ request'[p].sess \in {None, request[p].sess} \cup {sessions[k] : k \in DOMAIN sessions}
    BY <1>0, <2>4, <2>5, OneGoesOn
  <2>7. \A v \in Writers : \/ writer'[v] = writer[v]
                           \/ writer'[v].pc = "begin" /\ writer'[v].obj \in Referenced
    BY <2>1, <2>2, SpawnedIs DEF Writers
  <2>8. QED
    BY <2>1, <2>3, <2>6, <2>7, NoAppendCounts
<1>3. QED
  BY <1>1, <1>2 DEF Summarise, SetSummary

\* What a goroutine reads of a session, it writes with the turns counted then.
LEMMA SavedCounts ==
  ASSUME SessionsInv, CountInv, UNCHANGED Elsewhere, restarts' = restarts,
         NEW w \in Writers, NEW v, writer' = [writer EXCEPT ![w] = v], v.obj \in {None, writer[w].obj},
         v.pc = "element" => Count1(TurnsOf(v.data.messages) \cup TurnsOf(object[v.obj].messages),
                                    object[v.obj].turns, Lag(v.obj)),
         v.pc \in Saving => Count1(TurnsOf(v.data.messages), v.data.turns, restarts + 1),
         \A i \in Inodes : Readable(inode'[i]) => Count1(TurnsOf(inode'[i].messages), inode'[i].turns, restarts + 1)
  PROVE  CountInv'
<1>1. /\ sessions' = sessions /\ object' = object /\ request' = request
      /\ writer'[w] = v /\ \A x \in Writers \ {w} : writer'[x] = writer[x]
  BY DEF Elsewhere, SessionsInv, WriterInv
<1>2. \A o : Lag(o)' = Lag(o)
  BY <1>1 DEF Lag, Pending
<1>3. Referenced' \subseteq Referenced \cup {None}
  <2>1. \A x \in Writers : writer'[x].obj \in {None, writer[x].obj}
    BY <1>1
  <2>2. QED
    BY <1>1, <2>1 DEF Referenced, Pointers
<1>4. \A o \in Referenced' \ {None} : Count1(TurnsOf(object'[o].messages), object'[o].turns, Lag(o)')
  BY <1>1, <1>2, <1>3 DEF CountInv
<1>5. ASSUME NEW x \in Writers, writer'[x].pc = "element"
      PROVE  Count1(ReadOf(x)', object'[writer'[x].obj].turns, Lag(writer[x].obj)')
  <2>1. PICK o : o = writer'[x].obj
    OBVIOUS
  <2>2. ReadOf(x)' = TurnsOf(writer'[x].data.messages) \cup TurnsOf(object[o].messages)
    BY <1>1, <2>1 DEF ReadOf
  <2>3. CASE x = w
    <3>1. Count1(ReadOf(x)', object[o].turns, Lag(o))
      BY <1>1, <1>5, <2>1, <2>2, <2>3
    <3>2. Count1(ReadOf(x)', object'[o].turns, Lag(o)')
      BY <1>1, <1>2, <3>1
    <3>3. QED
      BY <2>1, <3>2
  <2>4. CASE x # w
    <3>1. writer'[x] = writer[x] /\ writer[x].obj = o
      BY <1>1, <2>1, <2>4
    <3>2. Count1(ReadOf(x), object[o].turns, Lag(o))
      BY <1>5, <3>1 DEF CountInv
    <3>3. ReadOf(x)' = ReadOf(x)
      BY <2>2, <3>1 DEF ReadOf
    <3>4. Count1(ReadOf(x)', object'[o].turns, Lag(o)')
      BY <1>1, <1>2, <3>2, <3>3
    <3>5. QED
      BY <2>1, <3>4
  <2>5. QED
    BY <2>3, <2>4
<1>6. \A x \in Writers : writer'[x].pc \in Saving =>
        Count1(TurnsOf(writer'[x].data.messages), writer'[x].data.turns, restarts' + 1)
  BY <1>1 DEF CountInv
<1>7. QED
  BY <1>4, <1>5, <1>6 DEF CountInv

LEMMA ReadCounts ==
  ASSUME SessionsInv, CountInv, NEW w \in Writers, Begin(w) \/ Element(w), UNCHANGED <<request, locals>>
  PROVE  CountInv'
<1>0. PICK o : o = writer[w].obj
  OBVIOUS
<1>1. /\ writer[w].pc # "idle" /\ inode' = inode /\ restarts' = restarts /\ UNCHANGED Elsewhere
  BY DEF Begin, Element, locals, Elsewhere
<1>2. /\ WriterOK(w, writer[w], request, appended, clock, object)
      /\ o # None /\ Good(object[o], request, appended, clock) /\ o \in Referenced
  BY <1>0, <1>1, ReadBy DEF Referenced
<1>3. \A i \in Inodes : Readable(inode'[i]) => Count1(TurnsOf(inode'[i].messages), inode'[i].turns, restarts + 1)
  BY <1>1 DEF CountInv
<1>4. CASE Begin(w)
  <2> DEFINE live == object[o]
             d == [live EXCEPT !.messages = <<>>]
             v == [writer[w] EXCEPT !.pc = "element", !.count = Len(live.messages), !.data = d]
  <2>1. writer' = [writer EXCEPT ![w] = v]
    BY <1>0, <1>4 DEF Begin, SessionsInv, WriterInv
  <2> HIDE DEF live
  <2>2. live = [x \in SessionFields |-> live[x]]
    BY <1>2 DEF Good, live
  <2>3. d.messages = <<>>
    BY <2>2 DEF SessionFields
  <2> HIDE DEF d
  <2>4. v.pc = "element" /\ v.obj = o /\ v.data = d
    BY <1>0, <1>2 DEF WriterOK, WriterFields
  <2> HIDE DEF v
  <2>5. TurnsOf(d.messages) = {}
    BY <2>3, EmptySeq DEF TurnsOf
  <2>6. Count1(TurnsOf(object[o].messages), object[o].turns, Lag(o))
    BY <1>2 DEF CountInv
  <2>7. TurnsOf(v.data.messages) \cup TurnsOf(object[v.obj].messages) = TurnsOf(object[o].messages)
    BY <2>4, <2>5
  <2>8. Count1(TurnsOf(v.data.messages) \cup TurnsOf(object[v.obj].messages), object[v.obj].turns, Lag(v.obj))
    BY <2>4, <2>6, <2>7
  <2>9. v.pc \notin Saving /\ v.obj \in {None, writer[w].obj}
    BY <1>0, <2>4 DEF Saving
  <2>10. QED
    BY <1>1, <1>3, <2>1, <2>8, <2>9, SavedCounts
<1>5. CASE Element(w)
  <2> DEFINE live == object[o]
             d == writer[w].data
             n == Len(d.messages) + 1
             e == [d EXCEPT !.messages = Append(@, live.messages[Len(d.messages) + 1])]
             v == IF n > Len(live.messages) THEN IdleWriter ELSE [writer[w] EXCEPT !.data = e]
  <2>1. writer[w].pc = "element" /\ writer' = [writer EXCEPT ![w] = v]
    BY <1>0, <1>5 DEF Element, SessionsInv, WriterInv
  <2>2. Partial(d, live, request, appended)
    BY <1>0, <1>2, <2>1 DEF WriterOK
  <2> HIDE DEF live, d
  <2>3. /\ d = [x \in SessionFields |-> d[x]] /\ d.messages \in Seq(Unit) /\ live.messages \in Seq(Unit)
        /\ Len(d.messages) \in Nat /\ Len(live.messages) \in Nat
    <3>1. d.messages \in Seq(Unit) /\ live.messages \in Seq(Unit)
      BY <1>2, <2>2 DEF Partial, Good, live
    <3>2. QED
      BY <2>2, <3>1, LenProperties DEF Partial
  <2>4. Count1(TurnsOf(d.messages) \cup TurnsOf(live.messages), live.turns, Lag(o))
    BY <1>0, <2>1 DEF CountInv, ReadOf, d, live
  <2>5. CASE n > Len(live.messages)
    <3>1. v = IdleWriter
      BY <2>5
    <3>2. v.pc = "idle" /\ v.obj = None
      BY <3>1 DEF IdleWriter
    <3> HIDE DEF v
    <3>3. v.pc \notin Saving /\ v.pc # "element"
      BY <3>2 DEF Saving
    <3>4. QED
      BY <1>1, <1>3, <2>1, <3>2, <3>3, SavedCounts
  <2>6. CASE ~ (n > Len(live.messages))
    <3>1. e.messages = Append(d.messages, live.messages[n])
      BY <2>3 DEF SessionFields
    <3> HIDE DEF e
    <3>2. v = [writer[w] EXCEPT !.data = e]
      BY <2>6
    <3>3. v.pc = "element" /\ v.obj = o /\ v.data = e
      BY <1>0, <1>2, <2>1, <3>2 DEF WriterOK, WriterFields
    <3> HIDE DEF v
    <3>4. TurnsOf(e.messages) \subseteq TurnsOf(d.messages) \cup TurnsOf(live.messages)
      <4>1. n \in DOMAIN live.messages /\ live.messages[n] \in Unit
        BY <2>3, <2>6
      <4>2. /\ DOMAIN Append(d.messages, live.messages[n]) = 1 .. Len(d.messages) + 1
            /\ Append(d.messages, live.messages[n])[Len(d.messages) + 1] = live.messages[n]
            /\ \A i \in DOMAIN d.messages : Append(d.messages, live.messages[n])[i] = d.messages[i]
        BY <2>3, <4>1, AppendedIs
      <4>3. DOMAIN d.messages = 1 .. Len(d.messages)
        BY <2>3
      <4>4. ASSUME NEW i \in DOMAIN e.messages
            PROVE  e.messages[i][1] \in TurnsOf(d.messages) \cup TurnsOf(live.messages)
        <5>1. i \in DOMAIN d.messages \/ i = Len(d.messages) + 1
          BY <2>3, <3>1, <4>2, <4>3, <4>4
        <5>2. CASE i \in DOMAIN d.messages
          BY <3>1, <4>2, <5>2 DEF TurnsOf
        <5>3. CASE i = Len(d.messages) + 1
          BY <3>1, <4>1, <4>2, <5>3 DEF TurnsOf
        <5>4. QED
          BY <5>1, <5>2, <5>3
      <4>5. QED
        BY <4>4 DEF TurnsOf
    <3>5. TurnsOf(v.data.messages) \cup TurnsOf(object[v.obj].messages) = TurnsOf(e.messages) \cup TurnsOf(live.messages)
      BY <3>3 DEF live
    <3>6. IsFiniteSet(TurnsOf(d.messages) \cup TurnsOf(live.messages))
      BY <2>3, TurnsFinite, FS_Union
    <3>7. live.turns \in Nat /\ Lag(o) \in Nat
      BY <1>2, LagIs DEF Good, live, CountInv
    <3>8. TurnsOf(e.messages) \cup TurnsOf(live.messages) \subseteq TurnsOf(d.messages) \cup TurnsOf(live.messages)
      BY <3>4
    <3>9. Count1(TurnsOf(e.messages) \cup TurnsOf(live.messages), live.turns, Lag(o))
      <4> DEFINE A == TurnsOf(d.messages) \cup TurnsOf(live.messages)
                 B == TurnsOf(e.messages) \cup TurnsOf(live.messages)
                 lag == Lag(o)
      <4>1. /\ Count1(A, live.turns, lag) /\ IsFiniteSet(A) /\ B \subseteq A
            /\ live.turns \in Nat /\ lag \in Nat /\ live.turns <= live.turns /\ lag <= lag
        BY <2>4, <3>6, <3>7, <3>8
      <4> HIDE DEF A, B, lag
      <4>2. Count1(B, live.turns, lag)
        BY <4>1, CountLess
      <4>3. QED
        BY <4>2 DEF B, lag
    <3>10. Count1(TurnsOf(v.data.messages) \cup TurnsOf(object[v.obj].messages), object[v.obj].turns, Lag(v.obj))
      BY <3>3, <3>5, <3>9 DEF live
    <3>11. v.pc \notin Saving /\ v.obj \in {None, writer[w].obj}
      BY <1>0, <3>3 DEF Saving
    <3>12. QED
      BY <1>1, <1>3, <2>1, <3>10, <3>11, SavedCounts
  <2>7. QED
    BY <2>5, <2>6
<1>6. QED
  BY <1>4, <1>5

LEMMA OpenCounts ==
  ASSUME SessionsInv, CountInv, NEW w \in Writers, Open(w), UNCHANGED <<request, locals>>
  PROVE  CountInv'
<1>0. PICK o : o = writer[w].obj
  OBVIOUS
<1> DEFINE live == object[o]
           d == writer[w].data
           i == IF Absent(tmp, d.key) THEN w ELSE tmp[d.key]
           m == Marshalled(d, live)
           v == [writer[w] EXCEPT !.pc = "write", !.inode = i, !.data = m]
<1>1. /\ writer[w].pc = "element" /\ restarts' = restarts /\ UNCHANGED Elsewhere
      /\ inode' = [inode EXCEPT ![i] = Empty]
  BY DEF Open, locals, Elsewhere
<1>2. writer' = [writer EXCEPT ![w] = v]
  BY <1>0 DEF Open, SessionsInv, WriterInv
<1>3. /\ WriterOK(w, writer[w], request, appended, clock, object)
      /\ o # None /\ Good(live, request, appended, clock) /\ o \in Referenced
  BY <1>0, <1>1, ReadBy DEF Referenced
<1>4. d = [x \in SessionFields |-> d[x]]
  BY <1>0, <1>1, <1>3 DEF WriterOK, Partial
<1>5. Count1(TurnsOf(d.messages) \cup TurnsOf(live.messages), live.turns, Lag(o))
      /\ IsFiniteSet(TurnsOf(d.messages) \cup TurnsOf(live.messages))
  BY <1>0, <1>1, ReadFinite DEF CountInv, ReadOf
<1> HIDE DEF i, d, live
<1>6. m.messages = d.messages /\ m.turns = live.turns
  BY <1>4 DEF Marshalled, SessionFields
<1> HIDE DEF m
<1>7. v.pc = "write" /\ v.obj = o /\ v.data = m
  BY <1>0, <1>3 DEF WriterOK, WriterFields
<1> HIDE DEF v
<1>8. Count1(TurnsOf(v.data.messages), v.data.turns, restarts + 1)
  <2>1. restarts \in Nat /\ Lag(o) \in Nat /\ Lag(o) <= restarts + 1
    <3>1. restarts \in Nat
      BY DEF CountInv
    <3>2. Lag(o) \in {restarts, restarts + 1}
      BY <3>1, LagIs
    <3>3. QED
      BY <3>1, <3>2
  <2>2. live.turns \in Nat
    BY <1>3 DEF Good
  <2>3. Count1(TurnsOf(d.messages), live.turns, restarts + 1)
    <3> DEFINE A == TurnsOf(d.messages) \cup TurnsOf(live.messages)
               B == TurnsOf(d.messages)
               lag == Lag(o)
    <3>1. /\ Count1(A, live.turns, lag) /\ IsFiniteSet(A) /\ B \subseteq A
          /\ live.turns \in Nat /\ lag \in Nat /\ live.turns <= live.turns
          /\ restarts + 1 \in Nat /\ lag <= restarts + 1
      BY <1>5, <2>1, <2>2 DEF CountInv
    <3> HIDE DEF A, B, lag
    <3>2. Count1(B, live.turns, restarts + 1)
      BY <3>1, CountLess
    <3>3. QED
      BY <3>2 DEF B
  <2>4. QED
    BY <1>6, <1>7, <2>3
<1>9. \A x \in Inodes : Readable(inode'[x]) => Count1(TurnsOf(inode'[x].messages), inode'[x].turns, restarts + 1)
  <2>1. \A x \in Inodes : inode'[x] \in {inode[x], Empty}
    BY <1>1 DEF SessionsInv, FileInv
  <2>2. QED
    BY <2>1, Unreadable DEF CountInv
<1>10. v.pc # "element" /\ v.obj \in {None, writer[w].obj}
  BY <1>0, <1>7
<1>11. QED
  BY <1>1, <1>2, <1>8, <1>9, <1>10, SavedCounts

LEMMA WrittenCounts ==
  ASSUME SessionsInv, CountInv, NEW w \in Writers, Write(w) \/ Rename(w), UNCHANGED <<request, locals>>
  PROVE  CountInv'
<1> DEFINE i == writer[w].inode
           m == writer[w].data
<1>1. writer[w].pc \in Saving /\ restarts' = restarts /\ UNCHANGED Elsewhere
  BY DEF Write, Rename, Saving, locals, Elsewhere
<1>2. WriterOK(w, writer[w], request, appended, clock, object)
  BY DEF SessionsInv, WriterInv
<1>3. Count1(TurnsOf(m.messages), m.turns, restarts + 1)
  BY <1>1 DEF CountInv
<1>4. \E new \in {m, Torn} : \A x \in Inodes : inode'[x] \in {inode[x], new}
  <2>1. CASE Write(w)
    <3>1. \E new \in {m, Torn} : inode' = [inode EXCEPT ![i] = new]
      BY <2>1 DEF Write, Overwritten
    <3>2. QED
      BY <3>1 DEF SessionsInv, FileInv
  <2>2. CASE Rename(w)
    BY <2>2 DEF Rename
  <2>3. QED
    BY <2>1, <2>2
<1>5. PICK v \in {IdleWriter, [writer[w] EXCEPT !.pc = "rename"]} : writer' = [writer EXCEPT ![w] = v]
  <2>1. CASE Write(w)
    BY <2>1 DEF Write, SessionsInv, WriterInv
  <2>2. CASE Rename(w)
    BY <2>2 DEF Rename
  <2>3. QED
    BY <2>1, <2>2
<1> HIDE DEF i, m
<1>6. v.pc # "element" /\ v.obj \in {None, writer[w].obj} /\ (v.pc \in Saving => v.data = m)
  <2>1. CASE v = IdleWriter
    BY <2>1 DEF IdleWriter, Saving
  <2>2. CASE v = [writer[w] EXCEPT !.pc = "rename"]
    <3>1. v.pc = "rename" /\ v.obj = writer[w].obj /\ v.data = m
      BY <1>2, <2>2 DEF WriterOK, WriterFields, m
    <3>2. QED
      BY <3>1
  <2>3. QED
    BY <1>5, <2>1, <2>2
<1>7. v.pc \in Saving => Count1(TurnsOf(v.data.messages), v.data.turns, restarts + 1)
  BY <1>3, <1>6
<1>8. \A x \in Inodes : Readable(inode'[x]) => Count1(TurnsOf(inode'[x].messages), inode'[x].turns, restarts + 1)
  BY <1>3, <1>4, Unreadable DEF CountInv
<1>9. QED
  BY <1>1, <1>5, <1>6, <1>7, <1>8, SavedCounts

\* A start loads what was saved, with one more turn it may not have counted.
LEMMA DieCounts ==
  ASSUME SessionsInv, CountInv, Die
  PROVE  CountInv'
<1> DEFINE place == CHOOSE f \in Injection(Loaded, Objects) : TRUE
           Owners(o) == {k \in Loaded : place[k] = o}
<1>1. /\ sessions' = place /\ writer' = [w \in Writers |-> IdleWriter]
      /\ object' = [o \in Objects |->
           IF Owners(o) = {} THEN None ELSE inode[path[CHOOSE k \in Owners(o) : TRUE]]]
      /\ inode' = inode /\ restarts' = restarts + 1
      /\ request' = [r \in Callers |-> IF request[r].pc = "idle" THEN Idle
                                       ELSE [request[r] EXCEPT !.pc = "done", !.sess = None]]
  BY DEF Die, Restart
<1>2. place \in Injection(Loaded, Objects)
  <2>1. Injection(Loaded, Objects) # {}
    BY DEF Die, Restart, ExistsInjection
  <2>2. QED
    BY <2>1
<1> HIDE DEF place
<1>3. DOMAIN place = Loaded /\ \A k \in Loaded : place[k] \in Objects
  BY <1>2 DEF Injection
<1>4. \A r \in Callers : request'[r].sess = None /\ request'[r].pc # "turn"
  <2> TAKE r \in Callers
  <2>1. RequestOK(request[r], request, object)
    BY DEF SessionsInv, RequestInv
  <2>2. CASE request[r].pc = "idle"
    BY <1>1, <2>2 DEF Idle
  <2>3. CASE request[r].pc # "idle"
    <3>1. request'[r] = [request[r] EXCEPT !.pc = "done", !.sess = None]
      BY <1>1, <2>3
    <3>2. QED
      BY <2>1, <3>1 DEF RequestOK, RequestFields
  <2>4. QED
    BY <2>2, <2>3
<1>5. restarts \in Nat /\ restarts' \in Nat /\ \A o : Lag(o)' = restarts'
  <2>1. restarts \in Nat
    BY DEF CountInv
  <2>2. restarts' = restarts + 1
    BY <1>1
  <2>3. \A o : ~ Pending(o)'
    BY <1>4 DEF Pending
  <2>4. restarts' \in Nat
    BY <2>1, <2>2
  <2>5. ASSUME NEW o PROVE Lag(o)' = restarts'
    <3>1. Lag(o)' = restarts' + 0
      BY <2>3 DEF Lag
    <3>2. \A n \in Nat : n + 0 = n
      OBVIOUS
    <3>3. QED
      BY <2>4, <3>1, <3>2, Zenon
  <2>6. QED
    BY <2>1, <2>4, <2>5
<1>6. \A w \in Writers : writer'[w] = IdleWriter /\ writer'[w].obj = None /\ writer'[w].pc = "idle"
  BY <1>1 DEF IdleWriter
<1>7. ASSUME NEW o \in Referenced' \ {None}
      PROVE  Count1(TurnsOf(object'[o].messages), object'[o].turns, Lag(o)')
  <2>1. o \in {sessions'[k] : k \in DOMAIN sessions'}
    BY <1>4, <1>6, <1>7 DEF Referenced, Pointers
  <2>2. PICK k \in Loaded : o = place[k]
    BY <1>1, <1>3, <2>1
  <2>3. k \in Owners(o) /\ o \in Objects
    BY <1>3, <2>2
  <2> DEFINE l == CHOOSE x \in Owners(o) : TRUE
  <2>4. l \in Loaded
    BY <2>3
  <2>5. object'[o] = inode[path[l]]
    BY <1>1, <2>3
  <2> HIDE DEF l
  <2>6. path[l] \in Inodes /\ Readable(inode[path[l]])
    BY <2>4 DEF Loaded, SessionsInv, FileInv
  <2>7. Count1(TurnsOf(object'[o].messages), object'[o].turns, restarts + 1)
    BY <2>5, <2>6 DEF CountInv
  <2>8. QED
    BY <1>1, <1>5, <2>7
<1>8. ASSUME NEW i \in Inodes, Readable(inode'[i])
      PROVE  Count1(TurnsOf(inode'[i].messages), inode'[i].turns, restarts' + 1)
  <2>1. inode'[i] = inode[i]
    BY <1>1
  <2>2. Count1(TurnsOf(inode[i].messages), inode[i].turns, restarts + 1)
    BY <1>8, <2>1 DEF CountInv
  <2>3. Good(inode[i], request, appended, clock)
    BY <1>8, <2>1 DEF SessionsInv, FileInv
  <2>4. IsFiniteSet(TurnsOf(inode[i].messages)) /\ inode[i].turns \in Nat
    BY <2>3, TurnsFinite DEF Good
  <2> DEFINE A == TurnsOf(inode[i].messages)
             n == inode[i].turns
  <2>5. /\ Count1(A, n, restarts + 1) /\ IsFiniteSet(A) /\ A \subseteq A /\ n \in Nat /\ n <= n
        /\ restarts + 1 \in Nat /\ restarts' + 1 \in Nat /\ restarts + 1 <= restarts' + 1
    <3>1. restarts' = restarts + 1 /\ restarts \in Nat
      BY <1>1, <1>5
    <3>2. restarts + 1 \in Nat /\ restarts' + 1 \in Nat /\ restarts + 1 <= restarts' + 1
      BY <3>1
    <3>3. n <= n
      BY <2>4
    <3>4. QED
      BY <2>2, <2>4, <3>2, <3>3
  <2> HIDE DEF A, n
  <2>6. Count1(A, n, restarts' + 1)
    BY <2>5, CountLess
  <2>7. QED
    BY <2>1, <2>6 DEF A, n
<1>9. \A w \in Writers : writer'[w].pc # "element" /\ writer'[w].pc \notin Saving
  BY <1>6 DEF Saving
<1>10. QED
  BY <1>5, <1>7, <1>8, <1>9 DEF CountInv

LEMMA CountsStart == Init => CountInv
<1> SUFFICES ASSUME Init PROVE CountInv
  OBVIOUS
<1>1. /\ sessions = <<>> /\ writer = [w \in Writers |-> IdleWriter] /\ inode = [i \in Inodes |-> Empty]
      /\ request = [r \in Callers |-> Idle] /\ restarts = 0
  BY DEF Init, StoreInit
<1>2. DOMAIN sessions = {}
  <2>1. <<>> \in Seq(Nat) /\ DOMAIN <<>> = {}
    BY EmptySeq
  <2>2. QED
    BY <1>1, <2>1
<1>3. \A w \in Writers : writer[w].obj = None /\ writer[w].pc = "idle"
  BY <1>1 DEF IdleWriter
<1>4. Referenced \subseteq {None}
  <2>1. \A r \in Callers : request[r].sess = None
    BY <1>1 DEF Idle
  <2>2. QED
    BY <1>2, <1>3, <2>1 DEF Referenced, Pointers
<1>5. \A i \in Inodes : ~ Readable(inode[i])
  BY <1>1, Unreadable
<1>6. QED
  BY <1>1, <1>3, <1>4, <1>5 DEF CountInv, Saving

LEMMA CountsStep == SessionsInv /\ CountInv /\ [Next]_vars => CountInv'
<1> SUFFICES ASSUME SessionsInv, CountInv, [Next]_vars PROVE CountInv'
  OBVIOUS
<1>1. ASSUME NEW r \in Callers, Resolve(r) \/ CreateSession(r) \/ Prompt(r) PROVE CountInv'
  BY <1>1, ResolveCounts, CreateCounts, PromptCounts
<1>2. ASSUME NEW r \in Callers, Store(r) \/ Turn(r) \/ Trim(r) PROVE CountInv'
  BY <1>2, StoreCounts, TurnCounts, TrimCounts
<1>3. ASSUME NEW r \in Callers, Count(r) \/ Due(r) \/ Summarise(r) PROVE CountInv'
  BY <1>3, LooksCount, SummariseCounts
<1>4. ASSUME NEW w \in Writers, Write1(w) PROVE CountInv'
  BY <1>4, ReadCounts, OpenCounts, WrittenCounts DEF Write1, Persist
<1>5. CASE Die
  BY <1>5, DieCounts
<1>6. CASE UNCHANGED vars
  <2>1. /\ sessions' = sessions /\ object' = object /\ writer' = writer /\ inode' = inode
        /\ request' = request /\ restarts' = restarts
    BY <1>6 DEF vars, storeVars, locals
  <2>2. Referenced' = Referenced /\ \A o : Lag(o)' = Lag(o)
    BY <2>1 DEF Referenced, Pointers, Lag, Pending
  <2>3. \A w \in Writers : ReadOf(w)' = ReadOf(w)
    BY <2>1 DEF ReadOf
  <2>4. QED
    BY <2>1, <2>2, <2>3 DEF CountInv
<1>7. QED
  BY <1>1, <1>2, <1>3, <1>4, <1>5, <1>6 DEF Next

\* A session has counted every turn it holds messages of but the one that is
\* being appended, and one for each start: a goroutine may save a turn's
\* messages before they are counted, a start load them so, and no more is ever
\* lost, whatever is trimmed, evicted and replaced (store.go:113-117 against
\* 184-194).
THEOREM TurnsLagByOneAStart == Spec => []TurnsCounted
<1>1. SessionsInv /\ CountInv => TurnsCounted
  <2> SUFFICES ASSUME SessionsInv, CountInv PROVE TurnsCounted
    OBVIOUS
  <2>1. \A s : TurnsIn(s) = TurnsOf(s.messages)
    BY DEF TurnsIn, TurnsOf
  <2>2. ASSUME NEW k \in DOMAIN sessions
        PROVE  LET s == object[sessions[k]] IN
                 Cardinality(TurnsIn(s)) <= s.turns + restarts + IF Appending(k) THEN 1 ELSE 0
    <3> DEFINE o == sessions[k]
               n == Cardinality(TurnsOf(object[o].messages))
               turns == object[o].turns
    <3>1. o \in Referenced \ {None}
      BY InTheMap DEF Referenced
    <3>2. n <= turns + Lag(o)
      BY <3>1 DEF CountInv, Count1
    <3>3. restarts \in Nat /\ turns \in Nat /\ n \in Nat
      BY <3>1, HeldIs, TurnsFinite DEF CountInv
    <3>4. Pending(o) => Appending(k)
      BY AppendIsOf DEF Pending, Appending
    <3> HIDE DEF o, n, turns
    <3>5. n <= turns + restarts + IF Appending(k) THEN 1 ELSE 0
      BY <3>2, <3>3, <3>4 DEF Lag
    <3>6. QED
      BY <2>1, <3>5 DEF o, n, turns
  <2>3. ASSUME NEW s \in Saved PROVE Cardinality(TurnsIn(s)) <= s.turns + restarts + 1
    <3>1. PICK k \in Loaded : s = inode[path[k]]
      BY DEF Saved
    <3>2. path[k] \in Inodes /\ Readable(inode[path[k]])
      BY DEF Loaded, SessionsInv, FileInv
    <3>3. Cardinality(TurnsOf(s.messages)) <= s.turns + (restarts + 1)
      BY <3>1, <3>2 DEF CountInv, Count1
    <3>4. s.turns \in Nat /\ restarts \in Nat /\ Cardinality(TurnsOf(s.messages)) \in Nat
      BY AllGood, TurnsFinite DEF Good, CountInv
    <3>5. Cardinality(TurnsOf(s.messages)) <= s.turns + restarts + 1
      BY <3>3, <3>4
    <3>6. QED
      BY <2>1, <3>5
  <2>4. QED
    BY <2>2, <2>3 DEF TurnsCounted
<1>2. Init => CountInv
  BY CountsStart
<1>3. SessionsInv /\ CountInv /\ [Next]_vars => CountInv'
  BY CountsStep
<1>4. QED
  BY <1>1, <1>2, <1>3, SessionsAlways, PTL DEF Spec

\* The summary put before a prompt tells only of turns whose prior context has
\* the same hashed text, whatever is evicted, replaced, saved and loaded
\* meanwhile (hash.go:15-33).
THEOREM OnlyOwnSummaries == Spec => []SummaryOfSameText
<1>1. SessionsInv => SummaryOfSameText
  <2> SUFFICES ASSUME SessionsInv, NEW r \in Callers, NEW q \in request[r].prefix
               PROVE  HashedText(request[q].msgs) = HashedText(request[r].msgs)
    BY DEF SummaryOfSameText
  <2>1. RequestOK(request[r], request, object)
    BY DEF SessionsInv, RequestInv
  <2>2. q \in Callers /\ request[q].key = request[r].key /\ request[r].key # NoKey
    BY <2>1 DEF RequestOK, OfKey
  <2>3. ASSUME NEW p \in Callers, request[p].key # NoKey
        PROVE  request[p].key.text = HashedText(request[p].msgs)
    <3>1. request[p].key = HashMessages(request[p].msgs, Model)
      BY <2>3 DEF SessionsInv, RequestInv, RequestOK
    <3>2. request[p].key = [model |-> Model, text |-> HashedText(request[p].msgs)]
      BY <2>3, <3>1 DEF HashMessages
    <3>3. QED
      BY <3>2
  <2>4. QED
    BY <2>2, <2>3
<1>2. QED
  BY <1>1, SessionsAlways, PTL

=============================================================================
