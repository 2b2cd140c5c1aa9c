-------------------------- MODULE StreamPathProofs --------------------------
(***************************************************************************)
(* What a handler is given of a stream, for all bodies, endings, sizes of  *)
(* the buffers, channel capacities and keepalive intervals, and however    *)
(* the connection cuts the body into reads.                                *)
(*                                                                         *)
(* Flow: while the loop listens, what it has handed out, what the channel  *)
(* holds and what the reader is about to push are consecutive events of    *)
(* the stream, with nothing read but not accounted for.  Once the loop has *)
(* returned nothing is handed out any more.                                *)
(* Clock: the client or the upstream has been silent just as long as       *)
(* lastEmit is old, and that is bounded by where the ticker is.            *)
(* LookInv: what the look-ahead knows are the events of the lines it took. *)
(* EndInv: a failure is the last item pushed, and the end is pushed when   *)
(* every event has been.                                                   *)
(***************************************************************************)
EXTENDS StreamPath, Loops, SequenceTheorems, FiniteSetTheorems, TLAPS

Items == {stream[i] : i \in DOMAIN stream} \cup Failures

FlowTypes ==
  /\ next \in Nat
  /\ seen \in Seq(Items)
  /\ channel \in Seq(Items)
  /\ reader = "sending" => holding \in Items
  /\ reader \in {"reading", "sending", "gone"}

\* Nothing has run before the handler opens the stream.
IdleIsEmpty ==
  loop = "idle" => next = 0 /\ reader = "gone" /\ channel = << >> /\ seen = << >>

\* The channel holds the events after those handed out.
ChannelFollows ==
  loop = "select" =>
    \A i \in 1 .. Len(channel) :
      channel[i] \notin Failures =>
        Len(seen) + i \in DOMAIN stream /\ channel[i] = stream[Len(seen) + i]

\* The reader has read those and, while it is sending one, that one.
ReaderFollows ==
  loop = "select" =>
    /\ reader = "reading" => next = Len(seen) + Len(channel)
    /\ reader = "sending" /\ holding \notin Failures =>
         /\ next = Len(seen) + Len(channel) + 1
         /\ next \in DOMAIN stream /\ holding = stream[next]

Flow == FlowTypes /\ IdleIsEmpty /\ ChannelFollows /\ ReaderFollows /\ EventsInOrder

LEMMA FlowInit == Init => Flow
BY DEF Init, PacerInit, Flow, FlowTypes, IdleIsEmpty, ChannelFollows, ReaderFollows,
       EventsInOrder, Items, Failures

\* The handler opens the stream: from nothing to a reader that has read nothing.
LEMMA FlowOpen == Flow /\ Open => Flow'
<1> SUFFICES ASSUME Flow, Open PROVE Flow'
  OBVIOUS
<1> USE DEF Open, newStreamPacer
<1>1. next = 0 /\ channel = << >> /\ seen = << >>
  BY DEF Flow, IdleIsEmpty
<1>2. next' = 0 /\ channel' = << >> /\ seen' = << >> /\ reader' = "reading" /\ loop' = "select"
  BY <1>1 DEF clockVars
<1> QED
  BY <1>2 DEF Flow, FlowTypes, IdleIsEmpty, ChannelFollows, ReaderFollows, EventsInOrder

\* A step that leaves the flow of events alone, except that the loop may stop.
LEMMA FlowAside ==
  ASSUME Flow, UNCHANGED <<stream, next, reader, holding, channel, seen>>,
         loop' = loop \/ loop' \in {"returned", "closed"}
  PROVE  Flow'
BY DEF Flow, FlowTypes, IdleIsEmpty, ChannelFollows, ReaderFollows, EventsInOrder, Items

\* Next takes an event from the stream or finds its end.
LEMMA FlowRead == Flow /\ Read => Flow'
<1> SUFFICES ASSUME Flow, Read PROVE Flow'
  OBVIOUS
<1> USE DEF Read, loopVars, Flow, FlowTypes
<1>1. UNCHANGED <<stream, channel, seen, loop>> /\ reader' = "sending" /\ reader = "reading"
  OBVIOUS
<1>2. loop # "idle"
  BY <1>1 DEF IdleIsEmpty
<1>3. FlowTypes' /\ IdleIsEmpty' /\ EventsInOrder' /\ ChannelFollows'
  BY <1>1, <1>2 DEF IdleIsEmpty, EventsInOrder, ChannelFollows, Items, Failures
<1>4. ReaderFollows'
  <2> SUFFICES ASSUME loop = "select", holding' \notin Failures
               PROVE  /\ next' = Len(seen) + Len(channel) + 1
                      /\ next' \in DOMAIN stream /\ holding' = stream[next']
    BY <1>1 DEF ReaderFollows
  <2>1. next = Len(seen) + Len(channel)
    BY <1>1 DEF ReaderFollows
  <2>2. next + 1 \in DOMAIN stream /\ holding' = stream[next + 1] /\ next' = next + 1
    BY DEF Failures
  <2> QED
    BY <2>1, <2>2
<1> QED
  BY <1>3, <1>4

\* The channel grows by what the reader holds.
LEMMA FlowSend == Flow /\ Send => Flow'
<1> SUFFICES ASSUME Flow, Send PROVE Flow'
  OBVIOUS
<1> USE DEF Send, loopVars, Flow, FlowTypes, Pushed, AfterSending
<1>1. UNCHANGED <<stream, next, seen, loop>> /\ reader = "sending" /\ holding \in Items
  OBVIOUS
<1>2. channel' = Append(channel, holding) /\ channel' \in Seq(Items)
      /\ Len(channel') = Len(channel) + 1
  BY <1>1
<1>3. loop # "idle"
  BY <1>1 DEF IdleIsEmpty
<1>4. FlowTypes' /\ IdleIsEmpty' /\ EventsInOrder'
  BY <1>1, <1>2, <1>3 DEF IdleIsEmpty, EventsInOrder, Items
<1>5. ChannelFollows'
  <2> SUFFICES ASSUME loop = "select", NEW i \in 1 .. Len(channel) + 1,
                      channel'[i] \notin Failures
               PROVE  Len(seen) + i \in DOMAIN stream /\ channel'[i] = stream[Len(seen) + i]
    BY <1>1, <1>2 DEF ChannelFollows
  <2>1. CASE i \in 1 .. Len(channel)
    BY <2>1, <1>2 DEF ChannelFollows
  <2>2. CASE i = Len(channel) + 1
    <3>1. channel'[i] = holding
      BY <2>2, <1>2
    <3> QED
      BY <3>1, <2>2, <1>1 DEF ReaderFollows
  <2> QED
    BY <2>1, <2>2
<1>6. ReaderFollows'
  BY <1>1, <1>2 DEF ReaderFollows
<1> QED
  BY <1>4, <1>5, <1>6

\* The loop hands the head of the channel to the handler.
LEMMA FlowEvent == Flow /\ Event => Flow'
<1> SUFFICES ASSUME Flow, Event PROVE Flow'
  OBVIOUS
<1> USE DEF Flow, FlowTypes
<1>1. /\ UNCHANGED <<stream, next, reader, holding>> /\ loop = "select"
      /\ channel # << >> /\ Head(channel) \notin Failures /\ loop' \in {"select", "returned"}
      /\ channel' = Tail(channel) /\ seen' = Append(seen, Head(channel))
  BY DEF Event
<1>2. Head(channel) = channel[1] /\ Len(channel) \in Nat /\ Len(channel) >= 1
  BY <1>1
<1>3. Len(seen) + 1 \in DOMAIN stream /\ Head(channel) = stream[Len(seen) + 1]
  BY <1>1, <1>2 DEF ChannelFollows
<1>4. /\ channel' \in Seq(Items) /\ Len(channel') = Len(channel) - 1
      /\ \A i \in 1 .. Len(channel') : channel'[i] = channel[i + 1]
  BY <1>1, <1>2
<1>5. /\ seen' \in Seq(Items) /\ Len(seen') = Len(seen) + 1
      /\ seen'[Len(seen) + 1] = Head(channel)
      /\ \A i \in 1 .. Len(seen) : seen'[i] = seen[i]
  BY <1>1, <1>2
<1>6. FlowTypes' /\ IdleIsEmpty'
  BY <1>1, <1>4, <1>5 DEF IdleIsEmpty, Items
<1>7. EventsInOrder'
  <2> SUFFICES ASSUME NEW i \in 1 .. Len(seen) + 1
               PROVE  i \in DOMAIN stream /\ seen'[i] = stream[i]
    BY <1>1, <1>5 DEF EventsInOrder
  <2>1. CASE i \in 1 .. Len(seen)
    BY <2>1, <1>5 DEF EventsInOrder
  <2>2. CASE i = Len(seen) + 1
    BY <2>2, <1>3, <1>5
  <2> QED
    BY <2>1, <2>2
<1>8. ChannelFollows'
  <2> SUFFICES ASSUME NEW i \in 1 .. Len(channel'), channel'[i] \notin Failures
               PROVE  /\ Len(seen) + 1 + i \in DOMAIN stream
                      /\ channel'[i] = stream[Len(seen) + 1 + i]
    BY <1>1, <1>5 DEF ChannelFollows
  <2>1. i + 1 \in 1 .. Len(channel) /\ channel'[i] = channel[i + 1]
    BY <1>2, <1>4
  <2>2. Len(seen) + (i + 1) = Len(seen) + 1 + i
    BY <1>4
  <2> QED
    BY <2>1, <2>2, <1>1 DEF ChannelFollows
<1>9. ReaderFollows'
  <2>1. Len(seen) \in Nat /\ Len(seen') + Len(channel') = Len(seen) + Len(channel)
    BY <1>2, <1>4, <1>5
  <2> HIDE DEF Flow, FlowTypes
  <2>2. ReaderFollows
    BY DEF Flow
  <2> QED
    BY <1>1, <2>1, <2>2 DEF ReaderFollows
<1> QED
  BY <1>6, <1>7, <1>8, <1>9

\* An end or an error stops the loop for good.
LEMMA FlowReadFailed == Flow /\ ReadFailed => Flow'
<1> SUFFICES ASSUME Flow, ReadFailed PROVE Flow'
  OBVIOUS
<1>1. /\ UNCHANGED <<stream, next, reader, holding, seen>> /\ loop' = "returned"
      /\ channel # << >> /\ channel' = Tail(channel)
  BY DEF ReadFailed
<1>2. channel' \in Seq(Items)
  BY <1>1 DEF Flow, FlowTypes
<1> QED
  BY <1>1, <1>2 DEF Flow, FlowTypes, IdleIsEmpty, ChannelFollows, ReaderFollows,
                    EventsInOrder, Items

LEMMA FlowStep == Flow /\ [Next]_vars => Flow'
<1> SUFFICES ASSUME Flow, [Next]_vars PROVE Flow'
  OBVIOUS
<1>1. CASE UNCHANGED pacerVars \/ Abandon
  BY <1>1, FlowAside DEF Abandon, pacerVars, readerVars, loopVars
<1>2. CASE Open
  BY <1>2, FlowOpen
<1>3. CASE Read
  BY <1>3, FlowRead
<1>4. CASE Send
  BY <1>4, FlowSend
<1>5. CASE Event
  BY <1>5, FlowEvent
<1>6. CASE ReadFailed
  BY <1>6, FlowReadFailed
<1>7. CASE Cancelled \/ Ticked \/ Close \/ Leave \/ Tick
  BY <1>7, FlowAside DEF Cancelled, Ticked, Close, Leave, Tick, readerVars, loopVars
<1> QED
  BY <1>1, <1>2, <1>3, <1>4, <1>5, <1>6, <1>7
     DEF Next, PacerNext, ReaderStep, LoopStep, vars

\* stream_pacer.go:36-39: for every stream, channel capacity and interleaving of
\* the reader, the loop, the ticker and the client's leaving, the handler is
\* given the events of the stream in their order, none twice and none left out.
THEOREM InOrderAlways == Spec => []EventsInOrder
<1>1. Flow => EventsInOrder
  BY DEF Flow
<1> QED
  BY FlowInit, FlowStep, <1>1, PTL DEF Spec

-----------------------------------------------------------------------------
(***************************************************************************)
(* The keepalive.  While the loop listens, either the client has been      *)
(* without a byte for as long as lastEmit is old, or the upstream has been *)
(* silent for that long: an event, written or not, begins both anew.  What *)
(* lastEmit can have aged is bounded by where the ticker is.               *)
(***************************************************************************)
ClockTypes ==
  /\ since \in Nat /\ quiet \in Nat /\ pause \in Nat
  /\ phase \in 0 .. KeepAlive - 1 /\ due \in {0, 1}

ClockStopped ==
  loop = "idle" => since = 0 /\ quiet = 0 /\ pause = 0 /\ phase = 0 /\ due = 0

ClockBound ==
  loop = "select" =>
    /\ quiet = since \/ pause = since
    /\ due = 0 => since < KeepAlive + phase
    /\ due = 1 => phase = 0 /\ since < 2 * KeepAlive

Clock == ClockTypes /\ ClockStopped /\ ClockBound

LEMMA KeepAliveFact == KeepAlive \in Nat /\ KeepAlive >= 1
<1>1. KeepAlive \in Nat \ {0}
  BY PacerAssumption
<1> QED
  BY <1>1

LEMMA ClockInit == Init => Clock
BY KeepAliveFact DEF Init, PacerInit, Clock, ClockTypes, ClockStopped, ClockBound

LEMMA ClockStep == Clock /\ [Next]_vars => Clock'
<1> SUFFICES ASSUME Clock, [Next]_vars PROVE Clock'
  OBVIOUS
<1>0. KeepAlive \in Nat /\ KeepAlive >= 1
  BY KeepAliveFact
<1> USE DEF Clock, ClockTypes, ClockStopped, ClockBound
<1>1. CASE UNCHANGED pacerVars \/ Abandon
  BY <1>1 DEF Abandon, pacerVars, loopVars, clockVars
<1>2. CASE Open
  BY <1>0, <1>2 DEF Open, newStreamPacer, clockVars
<1>3. CASE Read \/ Send
  BY <1>3 DEF Read, Send, loopVars, clockVars
<1>4. CASE Event
  <2>1. /\ since' = 0 /\ pause' = 0 /\ UNCHANGED <<phase, due>> /\ loop = "select"
        /\ quiet' \in {0, quiet} /\ loop' \in {"select", "returned"}
    BY <1>4 DEF Event
  <2> QED
    BY <1>0, <2>1
<1>5. CASE Ticked
  <2>1. /\ loop = "select" /\ loop' = "select" /\ due = 1 /\ due' = 0
        /\ phase' = phase /\ pause' = pause
    BY <1>5 DEF Ticked, loopVars
  <2>2. CASE since >= KeepAlive
    <3>1. since' = 0 /\ quiet' = 0
      BY <1>5, <2>2 DEF Ticked, Overdue
    <3> QED
      BY <1>0, <2>1, <3>1
  <2>3. CASE ~(since >= KeepAlive)
    <3>1. since' = since /\ quiet' = quiet
      BY <1>5, <2>3 DEF Ticked, Overdue
    <3> QED
      BY <1>0, <2>1, <2>3, <3>1
  <2> QED
    BY <2>2, <2>3
<1>6. CASE Tick
  <2>1. /\ since' = since + 1 /\ quiet' = quiet + 1 /\ loop = "select" /\ loop' = "select"
        /\ pause' = (IF pause < 2 * KeepAlive THEN pause + 1 ELSE pause)
        /\ due = 0 /\ since < KeepAlive + phase
    BY <1>6 DEF Tick, loopVars
  <2>2. pause' \in Nat /\ (quiet' = since' \/ pause' = since')
    BY <1>0, <2>1
  <2>3. CASE phase + 1 = KeepAlive
    <3>1. phase' = 0 /\ due' = 1
      BY <1>6, <2>3 DEF Tick
    <3> QED
      BY <1>0, <2>1, <2>2, <2>3, <3>1
  <2>4. CASE phase + 1 # KeepAlive
    <3>1. phase' = phase + 1 /\ due' = 0
      BY <1>6, <2>4 DEF Tick
    <3> QED
      BY <1>0, <2>1, <2>2, <2>4, <3>1
  <2> QED
    BY <2>3, <2>4
<1>7. CASE Cancelled \/ ReadFailed \/ Close \/ Leave
  BY <1>7 DEF Cancelled, ReadFailed, Close, Leave, loopVars, clockVars
<1> QED
  BY <1>1, <1>2, <1>3, <1>4, <1>5, <1>6, <1>7
     DEF Next, PacerNext, ReaderStep, LoopStep, vars

\* stream_pacer.go:24 "or any phase where qwen.ai pauses output": whatever the handler
\* wrote for the events before, whatever the interval and wherever the ticker
\* stands, no pause of the upstream leaves the client without a byte for two
\* keepalive intervals.
THEOREM PausesAlwaysBridged == Spec => []PausesBridged
<1>1. Clock => PausesBridged
  <2> SUFFICES ASSUME Clock, loop = "select"
               PROVE  quiet < 2 * KeepAlive \/ pause < 2 * KeepAlive
    BY DEF PausesBridged
  <2> QED
    BY KeepAliveFact DEF Clock, ClockTypes, ClockBound
<1> QED
  BY ClockInit, ClockStep, <1>1, PTL DEF Spec

-----------------------------------------------------------------------------
(***************************************************************************)
(* The units of a body, and what a replay of a whole capture is.           *)
(***************************************************************************)
Line == [kind : Kinds, size : Nat \ {0}]

\* The units of the first lines, for any number of them.
LEMMA UntilIs ==
  ASSUME body \in Seq(Line)
  PROVE  /\ \A k \in 0 .. Len(body) : Until(k) \in Nat
         /\ Until(0) = 0
         /\ \A k \in 1 .. Len(body) : Until(k) = Until(k - 1) + body[k].size
<1> DEFINE n == Len(body)
           Round(u, i) == u + body[i].size
           Loop(f) == [i \in 0 .. n |-> IF i = 0 THEN 0 ELSE f[i - 1] + body[i].size]
           units == CHOOSE f : f = Loop(f)
           step == [i \in 1 .. n |-> [u \in Nat |-> Round(u, i)]]
<1>1. \A k : Until(k) = units[k]
  BY DEF Until
<1>2. n \in Nat /\ \A i \in 1 .. n : body[i].size \in Nat
  <2>1. \A i \in 1 .. n : body[i] \in Line
    OBVIOUS
  <2>2. QED
    BY <2>1 DEF Line
<1>3. step \in [1 .. n -> [Nat -> Nat]]
  BY <1>2
<1>4. \A i \in 1 .. n : \A u \in Nat : step[i][u] = Round(u, i)
  OBVIOUS
<1> HIDE DEF step, n
<1>5. PICK f : Results(f, n, step, 0, Nat)
  BY <1>2, <1>3, LoopRuns
<1>6. \A i \in 1 .. n : f[i] = Round(f[i - 1], i)
  <2> TAKE i \in 1 .. n
  <2>1. i - 1 \in 0 .. n
    BY <1>2
  <2>2. f[i - 1] \in Nat /\ f[i] = step[i][f[i - 1]]
    BY <1>5, <2>1 DEF Results
  <2>3. QED
    BY <1>4, <2>2
<1>7. \A i \in 0 .. n : i # 0 => i \in 1 .. n
  BY <1>2
<1>8. f = Loop(f)
  BY <1>5, <1>6, <1>7 DEF Results
<1>9. units = Loop(units)
  BY <1>8
<1> HIDE DEF units
<1>10. units[0] = 0 /\ \A i \in 1 .. n : units[i] = Round(units[i - 1], i)
  <2>1. 0 \in 0 .. n /\ \A i \in 1 .. n : i \in 0 .. n /\ i # 0
    BY <1>2
  <2>2. \A i \in 0 .. n : units[i] = IF i = 0 THEN 0 ELSE Round(units[i - 1], i)
    BY <1>9
  <2>3. QED
    BY <2>1, <2>2
<1>11. \A i \in 0 .. n : units[i] \in Nat
  <2> DEFINE P == {i \in 0 .. n : units[i] \in Nat}
  <2>1. 0 \in P
    BY <1>2, <1>10
  <2>2. ASSUME NEW k \in 1 .. n, k - 1 \in P PROVE k \in P
    <3>1. units[k - 1] \in Nat /\ body[k].size \in Nat /\ k \in 0 .. n
      BY <1>2, <2>2
    <3>2. units[k] = units[k - 1] + body[k].size
      BY <1>10
    <3>3. QED
      BY <3>1, <3>2
  <2> HIDE DEF P
  <2>3. \A i \in 0 .. n : i \in P
    BY <1>2, <2>1, <2>2, Climb
  <2>4. QED
    BY <2>3 DEF P
<1>12. QED
  BY <1>1, <1>10, <1>11 DEF n

\* A line has a size: more lines are more units.
LEMMA UntilGrows ==
  ASSUME body \in Seq(Line), NEW i \in 0 .. Len(body), NEW j \in 0 .. Len(body), i < j
  PROVE  Until(i) < Until(j)
<1> DEFINE n == Len(body)
           P == {k \in 0 .. n : i < k => Until(i) < Until(k)}
<1>1. n \in Nat /\ i \in 0 .. n /\ j \in 0 .. n
  OBVIOUS
<1>2. \A k \in 1 .. n : body[k].size \in Nat /\ body[k].size >= 1
  <2>1. \A k \in 1 .. n : body[k] \in Line
    OBVIOUS
  <2>2. QED
    BY <2>1 DEF Line
<1>3. /\ \A k \in 0 .. n : Until(k) \in Nat
      /\ \A k \in 1 .. n : Until(k) = Until(k - 1) + body[k].size
  BY UntilIs
<1> HIDE DEF n
<1>4. 0 \in P
  BY <1>1
<1>5. ASSUME NEW k \in 1 .. n, k - 1 \in P PROVE k \in P
  <2>1. k \in 0 .. n /\ k - 1 \in 0 .. n /\ k \in Nat
    BY <1>1
  <2>2. Until(k - 1) < Until(k) /\ Until(k - 1) \in Nat /\ Until(k) \in Nat
    BY <1>2, <1>3, <2>1
  <2>3. CASE i < k - 1
    <3>1. Until(i) < Until(k - 1) /\ Until(i) \in Nat
      BY <1>1, <1>3, <1>5, <2>3
    <3>2. Until(i) < Until(k)
      BY <2>2, <3>1
    <3>3. QED
      BY <2>1, <3>2
  <2>4. CASE i = k - 1
    BY <2>1, <2>2, <2>4
  <2>5. CASE i >= k
    BY <1>1, <2>1, <2>5
  <2>6. QED
    BY <1>1, <2>1, <2>3, <2>4, <2>5
<1>6. j \in P
  <2> HIDE DEF P
  <2>1. \A k \in 0 .. n : k \in P
    BY <1>1, <1>4, <1>5, Climb
  <2>2. QED
    BY <1>1, <2>1
<1>7. QED
  BY <1>6

\* The lines that end at or before a unit are the first ones.
LEMMA EndedIs ==
  ASSUME body \in Seq(Line), NEW u \in 0 .. Total
  PROVE  \E e \in 0 .. Len(body) :
           /\ Ended(u) = e /\ Until(e) <= u /\ (e < Len(body) => u < Until(e + 1))
           /\ Begun(u) = IF Until(e) = u THEN e ELSE e + 1
           /\ Until(e) # u => e < Len(body)
<1> DEFINE n == Len(body)
           past == {k \in 0 .. n : u < Until(k)}
<1>1. n \in Nat /\ u \in Nat /\ u <= Until(n) /\ Until(0) = 0 /\ \A k \in 0 .. n : Until(k) \in Nat
  BY UntilIs DEF Total
<1>2. \A i, j \in 0 .. n : i < j => Until(i) < Until(j)
  BY UntilGrows
<1> HIDE DEF n
<1>3. PICK e \in 0 .. n : Until(e) <= u /\ (e < n => u < Until(e + 1))
  <2>1. CASE past = {}
    <3>1. n \in 0 .. n /\ ~ (u < Until(n))
      BY <1>1, <2>1
    <3>2. Until(n) <= u /\ ~ (n < n)
      BY <1>1, <3>1
    <3>3. QED
      BY <3>1, <3>2
  <2>2. CASE past # {}
    <3>1. past \in SUBSET Nat
      BY <1>1
    <3>2. PICK m \in past : \A k \in past : m <= k
      BY <2>2, <3>1, LeastIs
    <3>3. m \in 0 .. n /\ u < Until(m) /\ m # 0
      BY <1>1, <3>2
    <3>4. m - 1 \in 0 .. n /\ (m - 1) + 1 = m /\ m \in Nat
      BY <1>1, <3>3
    <3>5. m - 1 \notin past
      BY <3>2, <3>4
    <3>6. Until(m - 1) <= u
      BY <1>1, <3>4, <3>5
    <3>7. QED
      BY <3>3, <3>4, <3>6
  <2>3. QED
    BY <2>1, <2>2
<1>4. \A i \in 1 .. n : Until(i) <= u <=> i <= e
  <2> SUFFICES ASSUME NEW i \in 1 .. n PROVE Until(i) <= u <=> i <= e
    OBVIOUS
  <2>1. i \in 0 .. n /\ e \in 0 .. n /\ Until(i) \in Nat /\ Until(e) \in Nat
    BY <1>1
  <2>2. i < e => Until(i) < Until(e)
    BY <1>2, <2>1
  <2>3. i > e => u < Until(i)
    <3>1. SUFFICES ASSUME i > e PROVE u < Until(i)
      OBVIOUS
    <3>2. e + 1 \in 0 .. n /\ e < n /\ (i = e + 1 \/ e + 1 < i)
      BY <1>1, <2>1, <3>1
    <3>3. u < Until(e + 1) /\ Until(e + 1) \in Nat
      BY <1>1, <1>3, <3>2
    <3>4. e + 1 < i => Until(e + 1) < Until(i)
      BY <1>2, <2>1, <3>2
    <3>5. QED
      BY <1>1, <2>1, <3>2, <3>3, <3>4
  <2>4. QED
    BY <1>1, <1>3, <2>1, <2>2, <2>3
<1>5. Ended(u) = e
  <2>1. {i \in 1 .. n : Until(i) <= u} = 1 .. e
    BY <1>1, <1>4
  <2>2. Cardinality(1 .. e) = e
    BY FS_Interval
  <2>3. QED
    BY <2>1, <2>2 DEF Ended, n
<1>6. \A i \in 1 .. n : Until(i - 1) < u <=> (i <= e \/ (i = e + 1 /\ Until(e) # u))
  <2> SUFFICES ASSUME NEW i \in 1 .. n
               PROVE  Until(i - 1) < u <=> (i <= e \/ (i = e + 1 /\ Until(e) # u))
    OBVIOUS
  <2>1. i - 1 \in 0 .. n /\ i \in 0 .. n /\ e \in 0 .. n /\ Until(i - 1) \in Nat /\ Until(e) \in Nat
    BY <1>1
  <2>2. i - 1 < e => Until(i - 1) < u
    BY <1>1, <1>2, <1>3, <2>1
  <2>3. i - 1 = e => (Until(i - 1) < u <=> Until(e) # u)
    BY <1>1, <1>3, <2>1
  <2>4. i - 1 > e => u < Until(i - 1)
    <3>1. SUFFICES ASSUME i - 1 > e PROVE u < Until(i - 1)
      OBVIOUS
    <3>2. i - 1 \in 1 .. n /\ ~ (i - 1 <= e)
      BY <2>1, <3>1
    <3>3. ~ (Until(i - 1) <= u)
      BY <1>4, <3>2
    <3>4. QED
      BY <1>1, <2>1, <3>3
  <2>5. QED
    BY <1>1, <2>1, <2>2, <2>3, <2>4
<1>7. Until(e) # u => e < n
  BY <1>1, <1>3
<1>8. Begun(u) = IF Until(e) = u THEN e ELSE e + 1
  <2> DEFINE b == IF Until(e) = u THEN e ELSE e + 1
  <2>1. b \in 0 .. n
    BY <1>1, <1>7
  <2>2. {i \in 1 .. n : Until(i - 1) < u} = 1 .. b
    BY <1>1, <1>6, <2>1
  <2>3. Cardinality(1 .. b) = b
    BY <2>1, FS_Interval
  <2> HIDE DEF b
  <2>4. Begun(u) = b
    BY <2>2, <2>3 DEF Begun, n
  <2>5. QED
    BY <2>4 DEF b
<1>9. QED
  BY <1>3, <1>5, <1>7, <1>8 DEF n

\* A replay of what was captured whole is the body.
LEMMA ReplayIsWhole ==
  ASSUME body \in Seq(Line), pos \in 0 .. Total, Captured = pos
  PROVE  Replayed = body
<1>1. PICK e \in 0 .. Len(body) :
        /\ Ended(pos) = e
        /\ Begun(pos) = IF Until(e) = pos THEN e ELSE e + 1
        /\ Until(e) # pos => e < Len(body)
  BY EndedIs
<1> DEFINE n == Len(body)
<1>2. n \in Nat /\ e \in 0 .. n
  OBVIOUS
<1>3. CASE Until(e) = pos
  <2>1. Replayed = SubSeq(body, 1, e) \o <<>> \o SubSeq(body, e + 1, n)
    <3>1. Ended(pos) = e /\ Begun(pos) = e /\ ~ (e > e)
      BY <1>1, <1>2, <1>3
    <3>2. QED
      BY <3>1 DEF Replayed
  <2>2. SubSeq(body, 1, e) \in Seq(Line)
    BY <1>2
  <2>3. SubSeq(body, 1, e) \o <<>> = SubSeq(body, 1, e)
    BY <2>2, ConcatEmptySeq
  <2>4. SubSeq(body, 1, e) \o SubSeq(body, e + 1, n) = body
    <3>1. 1 \in 1 .. n + 1 /\ e \in (1 - 1) .. n /\ n \in e .. n
      BY <1>2
    <3>2. SubSeq(body, 1, e) \o SubSeq(body, e + 1, n) = SubSeq(body, 1, n)
      BY <3>1, ConcatAdjacentSubSeq
    <3>3. QED
      BY <3>2, SubSeqFull
  <2>5. QED
    BY <2>1, <2>3, <2>4
<1>4. CASE Until(e) # pos
  <2>1. e < n /\ Begun(pos) = e + 1 /\ Begun(pos) > Ended(pos)
    BY <1>1, <1>2, <1>4
  <2>2. Replayed = SubSeq(body, 1, e) \o <<body[e + 1]>> \o SubSeq(body, (e + 1) + 1, n)
    BY <1>1, <2>1 DEF Replayed
  <2>3. SubSeq(body, 1, e) \o <<body[e + 1]>> = SubSeq(body, 1, e + 1)
    <3>1. SubSeq(body, 1, e + 1) = Append(SubSeq(body, 1, e), body[e + 1])
      <4> DEFINE a == SubSeq(body, 1, e + 1)
                 b == SubSeq(body, 1, e)
                 x == body[e + 1]
      <4>1. a \in Seq(Line) /\ b \in Seq(Line) /\ x \in Line /\ Len(a) = e + 1 /\ Len(b) = e
        BY <1>2, <2>1
      <4>2. \A i \in 1 .. e + 1 : a[i] = body[i]
        BY <1>2, <2>1
      <4>3. \A i \in 1 .. e : b[i] = body[i]
        BY <1>2, <2>1
      <4> HIDE DEF a, b, x
      <4>4. \A i \in 1 .. e + 1 : a[i] = Append(b, x)[i]
        BY <1>2, <4>1, <4>2, <4>3 DEF x
      <4>5. Append(b, x) \in Seq(Line) /\ Len(Append(b, x)) = e + 1
        BY <1>2, <4>1
      <4>6. a = Append(b, x)
        BY <4>1, <4>4, <4>5
      <4>7. QED
        BY <4>6 DEF a, b, x
    <3>2. SubSeq(body, 1, e) \in Seq(Line) /\ body[e + 1] \in Line
      BY <1>2, <2>1
    <3>3. \A s \in Seq(Line), x \in Line : s \o <<x>> = Append(s, x)
      OBVIOUS
    <3>4. QED
      BY <3>1, <3>2, <3>3
  <2>4. SubSeq(body, 1, e + 1) \o SubSeq(body, (e + 1) + 1, n) = body
    <3>1. 1 \in 1 .. n + 1 /\ e + 1 \in (1 - 1) .. n /\ n \in e + 1 .. n
      BY <1>2, <2>1
    <3>2. SubSeq(body, 1, e + 1) \o SubSeq(body, (e + 1) + 1, n) = SubSeq(body, 1, n)
      BY <3>1, ConcatAdjacentSubSeq
    <3>3. QED
      BY <3>2, SubSeqFull
  <2>5. QED
    BY <2>2, <2>3, <2>4
<1>5. QED
  BY <1>3, <1>4

-----------------------------------------------------------------------------
(***************************************************************************)
(* The look-ahead.  What it knows are the events of the lines it took, and *)
(* it stops where one of its reasons says so.                              *)
(***************************************************************************)
Looked == EventsOf(SubSeq(body, 1, taken))
ContentSeen == \E kind \in saw : IsContent(kind)

Settled ==
  \/ taken = Len(body)
  \/ events >= 1 /\ (events = MaxEvents \/ Captured = Cap \/ "done" \in saw \/ ContentSeen)

LookInv ==
  /\ PreflightTypeOK
  /\ Until(taken) <= pos
  /\ saw = Elements(Looked) /\ events = Len(Looked)
  /\ verdict = "looking" => events < MaxEvents /\ "done" \notin saw /\ ~ ContentSeen
  /\ verdict \in {"stopped", "empty"} => Settled
  /\ verdict = "empty" => LooksEmpty
  /\ verdict = "replay" => Settled /\ ~ LooksEmpty
  /\ verdict = "fresh" => pos = 0 /\ taken = 0

Sse == Kinds \ Skipped

LEMMA EventsOfMore ==
  ASSUME body \in Seq(Line), NEW t \in 0 .. Len(body) - 1
  PROVE  LET kind == body[t + 1].kind
         IN  EventsOf(SubSeq(body, 1, t + 1))
               = IF kind \in Skipped THEN EventsOf(SubSeq(body, 1, t))
                 ELSE Append(EventsOf(SubSeq(body, 1, t)), kind)
<1> DEFINE Of(k) == [i \in 1 .. Len(SubSeq(body, 1, k)) |-> SubSeq(body, 1, k)[i].kind]
           kind == body[t + 1].kind
<1>1. \A i \in 1 .. Len(body) : body[i] \in Line /\ body[i].kind \in Kinds
  <2>1. \A i \in 1 .. Len(body) : body[i] \in Line
    OBVIOUS
  <2>2. QED
    BY <2>1 DEF Line
<1>2. ASSUME NEW k \in 0 .. Len(body)
      PROVE  Of(k) \in Seq(Kinds) /\ Len(Of(k)) = k /\ \A i \in 1 .. k : Of(k)[i] = body[i].kind
  <2>1. Len(SubSeq(body, 1, k)) = k /\ \A i \in 1 .. k : SubSeq(body, 1, k)[i] = body[i]
    OBVIOUS
  <2>2. Of(k) = [i \in 1 .. k |-> body[i].kind]
    BY <2>1
  <2>3. \A i \in 1 .. k : body[i].kind \in Kinds
    BY <1>1
  <2> HIDE DEF Of
  <2>4. QED
    BY <2>2, <2>3
<1>3. Of(t + 1) = Append(Of(t), kind)
  <2>1. t \in 0 .. Len(body) /\ t + 1 \in 0 .. Len(body) /\ t + 1 \in 1 .. Len(body) /\ t \in Nat
    OBVIOUS
  <2>2. /\ Of(t) \in Seq(Kinds) /\ Len(Of(t)) = t /\ Of(t + 1) \in Seq(Kinds) /\ Len(Of(t + 1)) = t + 1
        /\ \A i \in 1 .. t : Of(t)[i] = body[i].kind
        /\ \A i \in 1 .. t + 1 : Of(t + 1)[i] = body[i].kind
    BY <1>2, <2>1
  <2>3. kind \in Kinds
    BY <1>1, <2>1
  <2> DEFINE a == Of(t)
             b == Of(t + 1)
  <2> HIDE DEF a, b
  <2>4. Append(a, kind) \in Seq(Kinds) /\ Len(Append(a, kind)) = t + 1
    BY <2>2, <2>3 DEF a
  <2>5. \A i \in 1 .. t + 1 : Append(a, kind)[i] = b[i]
    <3> TAKE i \in 1 .. t + 1
    <3>1. b[i] = body[i].kind
      BY <2>2 DEF b
    <3>2. CASE i \in 1 .. t
      BY <2>2, <2>3, <3>1, <3>2 DEF a
    <3>3. CASE i = t + 1
      BY <2>2, <2>3, <3>1, <3>3 DEF a
    <3>4. i \in 1 .. t \/ i = t + 1
      BY <2>1
    <3>5. QED
      BY <3>2, <3>3, <3>4
  <2>6. b \in Seq(Kinds) /\ Len(b) = t + 1
    BY <2>2 DEF b
  <2> HIDE DEF kind
  <2>7. b = Append(a, kind)
    BY <2>4, <2>5, <2>6
  <2>8. QED
    BY <2>7 DEF a, b
<1>4. Of(t) \in Seq(Kinds) /\ kind \in Kinds
  BY <1>1, <1>2
<1>5. EventsOf(SubSeq(body, 1, t)) = Only(Of(t), Sse) /\ EventsOf(SubSeq(body, 1, t + 1)) = Only(Of(t + 1), Sse)
  BY DEF EventsOf, Sse
<1> HIDE DEF Of, kind
<1>6. Only(Append(Of(t), kind), Sse) = IF kind \in Sse THEN Append(Only(Of(t), Sse), kind) ELSE Only(Of(t), Sse)
  BY <1>4, OnlyOneMore
<1>7. kind \in Sse <=> kind \notin Skipped
  BY <1>4 DEF Sse
<1>8. QED
  BY <1>3, <1>5, <1>6, <1>7 DEF kind

\* The events of the first lines begin those of all, and are what is in those lines.
LEMMA EventsOfSome ==
  ASSUME body \in Seq(Line), NEW t \in 0 .. Len(body)
  PROVE  LET some == EventsOf(SubSeq(body, 1, t))
         IN  /\ some \in Seq(Kinds) /\ Len(some) <= t /\ Extends(Sent, some) /\ Sent \in Seq(Kinds)
             /\ Elements(some) = {body[i].kind : i \in 1 .. t} \intersect Sse
<1> DEFINE kinds == [i \in 1 .. Len(body) |-> body[i].kind]
           some == EventsOf(SubSeq(body, 1, t))
           first == [i \in 1 .. t |-> body[i].kind]
<1>1. \A i \in 1 .. Len(body) : body[i].kind \in Kinds
  <2>1. \A i \in 1 .. Len(body) : body[i] \in Line
    OBVIOUS
  <2>2. QED
    BY <2>1 DEF Line
<1>2. kinds \in Seq(Kinds) /\ Len(kinds) = Len(body) /\ t \in 0 .. Len(kinds)
  BY <1>1
<1>3. first \in Seq(Kinds) /\ Len(first) = t
  <2>1. \A i \in 1 .. t : body[i].kind \in Kinds
    BY <1>1
  <2>2. QED
    BY <2>1
<1>4. some = Only(first, Sse)
  <2>1. Len(SubSeq(body, 1, t)) = t /\ \A i \in 1 .. t : SubSeq(body, 1, t)[i] = body[i]
    OBVIOUS
  <2>2. QED
    BY <2>1 DEF EventsOf, Sse
<1>5. first = SubSeq(kinds, 1, t)
  <2>1. /\ SubSeq(kinds, 1, t) \in Seq(Kinds) /\ Len(SubSeq(kinds, 1, t)) = t
        /\ \A i \in 1 .. t : SubSeq(kinds, 1, t)[i] = kinds[i]
    BY <1>2
  <2>2. \A i \in 1 .. t : kinds[i] = body[i].kind /\ first[i] = body[i].kind
    OBVIOUS
  <2> HIDE DEF kinds, first
  <2>3. QED
    BY <1>3, <2>1, <2>2
<1>6. Sent = Only(kinds, Sse)
  BY DEF Sent, EventsOf, Sse
<1>7. {first[i] : i \in 1 .. t} = {body[i].kind : i \in 1 .. t}
  OBVIOUS
<1> HIDE DEF kinds, first, some
<1>8. Extends(Sent, some)
  BY <1>2, <1>4, <1>5, <1>6, OnlyGrows
<1>9. some \in Seq(Kinds) /\ Len(some) <= t /\ Elements(some) = {body[i].kind : i \in 1 .. t} \intersect Sse
  <2>1. /\ Only(first, Sse) \in Seq(Kinds) /\ Len(Only(first, Sse)) <= Len(first)
        /\ Elements(Only(first, Sse)) = Elements(first) \intersect Sse
    BY <1>3, OnlyKeeps
  <2>2. Elements(first) = {body[i].kind : i \in 1 .. t}
    BY <1>3, <1>7 DEF Elements
  <2>3. QED
    BY <1>3, <1>4, <2>1, <2>2
<1>10. Sent \in Seq(Kinds)
  BY <1>2, <1>6, OnlyKeeps
<1>11. QED
  BY <1>8, <1>9, <1>10 DEF some

LEMMA BodyIs == body \in Bodies => body \in Seq(Line)
BY PreflightAssumption DEF Line

LEMMA PreflightNumbers ==
  /\ Cap \in Nat /\ Cap >= 1 /\ Buffer \in Nat /\ MaxEvents \in Nat /\ MaxEvents >= 1
<1>1. Cap \in Nat \ {0} /\ Buffer \in Nat \ {0} /\ MaxEvents \in Nat \ {0}
  BY PreflightAssumption
<1>2. QED
  BY <1>1

LEMMA LookInit == PreflightInit => LookInv
<1> SUFFICES ASSUME PreflightInit PROVE LookInv
  OBVIOUS
<1>1. /\ body \in Bodies /\ body \in Seq(Line) /\ ending \in Endings /\ pos = 0 /\ taken = 0 /\ base = 0
      /\ room = Buffer /\ saw = {} /\ events = 0 /\ verdict \in {"looking", "fresh"}
  BY BodyIs DEF PreflightInit
<1>2. Until(0) = 0 /\ Total \in Nat /\ Len(body) \in Nat
  BY <1>1, UntilIs DEF Total
<1>3. Looked \in Seq(Kinds) /\ Len(Looked) = 0
  <2>1. /\ EventsOf(SubSeq(body, 1, 0)) \in Seq(Kinds) /\ Len(EventsOf(SubSeq(body, 1, 0))) <= 0
    BY <1>1, <1>2, EventsOfSome
  <2>2. QED
    BY <1>1, <2>1 DEF Looked
<1>4. Elements(Looked) = {}
  BY <1>3 DEF Elements
<1>5. PreflightTypeOK
  BY <1>1, <1>2, PreflightNumbers DEF PreflightTypeOK
<1>6. QED
  BY <1>1, <1>2, <1>3, <1>4, <1>5, PreflightNumbers DEF LookInv, ContentSeen

\* The body stays, and with it the units of its lines.
LEMMA SameBody ==
  ASSUME body' = body
  PROVE  Total' = Total /\ (\A k : Until(k)' = Until(k)) /\ Sent' = Sent
BY DEF Total, Until, Sent

LEMMA LookReadMore ==
  ASSUME LookInv, ReadMore
  PROVE  LookInv'
<1>1. /\ verdict = "looking" /\ verdict' = verdict /\ body' = body /\ ending' = ending /\ taken' = taken
      /\ saw' = saw /\ events' = events /\ PreflightTypeOK /\ Until(taken) <= pos
      /\ events < MaxEvents /\ "done" \notin saw /\ ~ ContentSeen
      /\ saw = Elements(Looked) /\ events = Len(Looked)
  BY DEF ReadMore, LookInv
<1>2. /\ body \in Seq(Line) /\ pos \in 0 .. Total /\ taken \in 0 .. Len(body) /\ base \in 0 .. pos
      /\ room \in Nat /\ pos <= base + room
  BY <1>1, BodyIs DEF PreflightTypeOK
<1>3. Total \in Nat /\ Len(body) \in Nat /\ Until(taken) \in Nat
  BY <1>2, UntilIs DEF Total
<1>4. Total' = Total /\ Until(taken)' = Until(taken) /\ Looked' = Looked
  BY <1>1, SameBody DEF Looked
<1>5. /\ room' \in Nat /\ base' \in 0 .. pos /\ pos' \in pos + 1 .. Total /\ pos' <= base' + room'
  <2> DEFINE start == Until(taken) - base
             slides == start > 0 /\ (pos - base = room \/ 2 * start > room)
             from == IF slides THEN base + start ELSE base
             size == IF pos - from = room THEN 2 * room ELSE room
  <2>1. base' = from /\ room' = size /\ pos' \in pos + 1 .. Smaller(from + size, Total)
    BY DEF ReadMore
  <2>2. from \in 0 .. pos
    BY <1>1, <1>2, <1>3
  <2> HIDE DEF from
  <2>3. size \in Nat
    BY <1>2, <2>2
  <2> HIDE DEF size
  <2>4. Smaller(from + size, Total) \in Nat /\ Smaller(from + size, Total) <= Total
        /\ Smaller(from + size, Total) <= from + size
    BY <1>3, <2>2, <2>3 DEF Smaller
  <2>5. QED
    BY <1>2, <1>3, <2>1, <2>2, <2>3, <2>4
<1>6. PreflightTypeOK'
  <2>1. pos' \in 0 .. Total /\ base' \in 0 .. pos'
    BY <1>2, <1>3, <1>5
  <2>2. QED
    BY <1>1, <1>4, <1>5, <2>1 DEF PreflightTypeOK
<1>7. Until(taken)' <= pos'
  BY <1>1, <1>2, <1>3, <1>4, <1>5
<1>8. ~ ContentSeen'
  BY <1>1 DEF ContentSeen
<1>9. QED
  BY <1>1, <1>4, <1>6, <1>7, <1>8 DEF LookInv

LEMMA LookTakeLine ==
  ASSUME LookInv, TakeLine
  PROVE  LookInv'
<1>1. /\ verdict = "looking" /\ body' = body /\ ending' = ending /\ taken' = taken + 1
      /\ pos' = pos /\ base' = base /\ room' = room /\ PreflightTypeOK
      /\ taken < Len(body) /\ Until(taken + 1) <= pos
      /\ events < MaxEvents /\ "done" \notin saw /\ ~ ContentSeen
      /\ saw = Elements(Looked) /\ events = Len(Looked)
  BY DEF TakeLine, LineReady, LookInv
<1> DEFINE kind == body[taken + 1].kind
<1>2. /\ body \in Seq(Line) /\ taken \in 0 .. Len(body) /\ taken \in 0 .. Len(body) - 1 /\ Len(body) \in Nat
      /\ events \in Nat /\ saw \subseteq Kinds /\ kind \in Kinds
  <2>1. body \in Seq(Line) /\ taken \in 0 .. Len(body) /\ events \in Nat /\ saw \subseteq Kinds
    BY <1>1, BodyIs DEF PreflightTypeOK
  <2>2. taken + 1 \in 1 .. Len(body) /\ Len(body) \in Nat /\ taken \in 0 .. Len(body) - 1
    BY <1>1, <2>1
  <2>3. body[taken + 1] \in Line
    BY <2>1, <2>2
  <2>4. QED
    BY <2>1, <2>2, <2>3 DEF Line
<1>3. Total' = Total
  BY <1>1, SameBody
<1>4. Until(taken)' <= pos'
  <2>1. Until(taken)' = Until(taken + 1)
    BY <1>1, SameBody DEF Until
  <2>2. QED
    BY <1>1, <2>1
<1>5. Looked \in Seq(Kinds) /\ Looked' = IF kind \in Skipped THEN Looked ELSE Append(Looked, kind)
  <2>1. Looked' = EventsOf(SubSeq(body, 1, taken + 1))
    BY <1>1 DEF Looked, EventsOf
  <2>2. EventsOf(SubSeq(body, 1, taken + 1))
          = IF kind \in Skipped THEN EventsOf(SubSeq(body, 1, taken))
            ELSE Append(EventsOf(SubSeq(body, 1, taken)), kind)
    BY <1>2, EventsOfMore
  <2>3. EventsOf(SubSeq(body, 1, taken)) \in Seq(Kinds)
    BY <1>2, EventsOfSome
  <2>4. QED
    BY <2>1, <2>2, <2>3 DEF Looked
<1>6. taken' \in 0 .. Len(body)
  BY <1>1, <1>2
<1>7. CASE kind \in Skipped
  <2>1. saw' = saw /\ events' = events /\ verdict' = verdict
    BY <1>7 DEF TakeLine
  <2>2. Looked' = Looked /\ ~ ContentSeen'
    BY <1>1, <1>5, <1>7, <2>1 DEF ContentSeen
  <2>3. PreflightTypeOK'
    BY <1>1, <1>3, <1>6, <2>1 DEF PreflightTypeOK
  <2>4. QED
    BY <1>1, <1>4, <2>1, <2>2, <2>3 DEF LookInv
<1>8. CASE kind \notin Skipped
  <2>1. /\ saw' = saw \cup {kind} /\ events' = events + 1
        /\ verdict' = IF Stops(kind) THEN "stopped" ELSE "looking"
    BY <1>8 DEF TakeLine
  <2> HIDE DEF kind
  <2>2. Looked' = Append(Looked, kind)
    BY <1>5, <1>8
  <2>3. events' = Len(Looked') /\ saw' = Elements(Looked')
    <3>1. /\ Len(Append(Looked, kind)) = Len(Looked) + 1 /\ Append(Looked, kind)[Len(Looked) + 1] = kind
          /\ \A i \in 1 .. Len(Looked) : Append(Looked, kind)[i] = Looked[i]
      BY <1>2, <1>5
    <3>2. 1 .. Len(Looked) + 1 = 1 .. Len(Looked) \union {Len(Looked) + 1}
      BY <1>5
    <3>3. Elements(Append(Looked, kind)) = Elements(Looked) \union {kind}
      BY <3>1, <3>2 DEF Elements
    <3>4. QED
      BY <1>1, <2>1, <2>2, <3>1, <3>3
  <2>4. events' \in 1 .. MaxEvents
    BY <1>1, <1>2, <2>1, PreflightNumbers
  <2>5. PreflightTypeOK'
    <3>1. events' \in 0 .. MaxEvents /\ saw' \subseteq Kinds
      BY <1>2, <2>1, <2>4, PreflightNumbers
    <3>2. verdict' \in {"looking", "stopped"}
      BY <2>1
    <3>3. QED
      BY <1>1, <1>3, <1>6, <3>1, <3>2 DEF PreflightTypeOK
  <2>6. CASE Stops(kind)
    <3>1. verdict' = "stopped"
      BY <2>1, <2>6
    <3>2. Settled'
      <4>1. CASE IsContent(kind)
        <5>1. ContentSeen'
          BY <2>1, <4>1 DEF ContentSeen
        <5>2. QED
          BY <2>4, <5>1 DEF Settled
      <4>2. CASE kind = "done"
        BY <2>1, <2>4, <4>2 DEF Settled
      <4>3. CASE events + 1 = MaxEvents
        BY <2>1, <2>4, <4>3 DEF Settled
      <4>4. CASE Captured = Cap
        <5>1. Captured' = Cap
          BY <1>1, <4>4 DEF Captured
        <5>2. QED
          BY <2>4, <5>1 DEF Settled
      <4>5. QED
        BY <2>6, <4>1, <4>2, <4>3, <4>4 DEF Stops
    <3>3. QED
      BY <1>4, <2>3, <2>5, <3>1, <3>2 DEF LookInv
  <2>7. CASE ~ Stops(kind)
    <3>1. verdict' = "looking" /\ kind # "done" /\ ~ IsContent(kind) /\ events + 1 # MaxEvents
      BY <2>1, <2>7 DEF Stops
    <3>2. events' < MaxEvents
      BY <1>1, <1>2, <2>1, <2>4, <3>1, PreflightNumbers
    <3>3. "done" \notin saw' /\ ~ ContentSeen'
      BY <1>1, <2>1, <3>1 DEF ContentSeen
    <3>4. QED
      BY <1>4, <2>3, <2>5, <3>1, <3>2, <3>3 DEF LookInv
  <2>8. QED
    BY <2>6, <2>7
<1>9. QED
  BY <1>7, <1>8

LEMMA LookExhaust ==
  ASSUME LookInv, Exhaust
  PROVE  LookInv'
<1>1. /\ verdict = "looking" /\ taken = Len(body) /\ PreflightTypeOK
      /\ \/ ending = "eof" /\ verdict' = "stopped"
         \/ ending = "error" /\ verdict' = "failed"
      /\ UNCHANGED <<body, ending, pos, taken, base, room, saw, events>>
  BY DEF Exhaust, LookInv
<1>2. Total' = Total /\ Until(taken)' = Until(taken) /\ Looked' = Looked
  BY <1>1, SameBody DEF Looked, Until
<1>3. PreflightTypeOK'
  BY <1>1, <1>2 DEF PreflightTypeOK
<1>4. Settled'
  BY <1>1 DEF Settled
<1>5. QED
  BY <1>1, <1>2, <1>3, <1>4 DEF LookInv

LEMMA LookDecide ==
  ASSUME LookInv, Decide
  PROVE  LookInv'
<1>1. /\ verdict = "stopped" /\ verdict' = (IF LooksEmpty THEN "empty" ELSE "replay")
      /\ PreflightTypeOK /\ Settled
      /\ UNCHANGED <<body, ending, pos, taken, base, room, saw, events>>
  BY DEF Decide, LookInv
<1>2. Total' = Total /\ Until(taken)' = Until(taken) /\ Looked' = Looked
  BY <1>1, SameBody DEF Looked, Until
<1>3. PreflightTypeOK'
  BY <1>1, <1>2 DEF PreflightTypeOK
<1>4. Settled' /\ (LooksEmpty' <=> LooksEmpty)
  BY <1>1 DEF Settled, LooksEmpty, NonSSEPayload, ContentSeen, Captured, Until
<1>5. QED
  BY <1>1, <1>2, <1>3, <1>4 DEF LookInv

\* The look-ahead is cut short: nothing it knows changes, and nothing is decided.
LEMMA LookAbandon ==
  ASSUME LookInv, Abandon
  PROVE  LookInv'
<1>1. /\ verdict = "looking" /\ verdict' = "failed"
      /\ UNCHANGED <<body, ending, pos, taken, base, room, saw, events>>
  BY DEF Abandon
<1>2. Total' = Total /\ Until(taken)' = Until(taken) /\ Looked' = Looked
  BY <1>1, SameBody DEF Looked, Until
<1>3. PreflightTypeOK'
  BY <1>1, <1>2 DEF LookInv, PreflightTypeOK
<1>4. QED
  BY <1>1, <1>2, <1>3 DEF LookInv

LEMMA LookStays ==
  ASSUME LookInv, UNCHANGED preflightVars
  PROVE  LookInv'
<1>1. UNCHANGED <<body, ending, pos, taken, base, room, saw, events, verdict>>
  BY DEF preflightVars
<1>2. Total' = Total /\ Until(taken)' = Until(taken) /\ Looked' = Looked
  BY <1>1, SameBody DEF Looked, Until
<1>3. PreflightTypeOK' <=> PreflightTypeOK
  BY <1>1, <1>2 DEF PreflightTypeOK
<1>4. (Settled' <=> Settled) /\ (LooksEmpty' <=> LooksEmpty) /\ (ContentSeen' <=> ContentSeen)
  BY <1>1 DEF Settled, LooksEmpty, NonSSEPayload, ContentSeen, Captured, Until
<1>5. QED
  BY <1>1, <1>2, <1>3, <1>4 DEF LookInv

LEMMA LookStep == LookInv /\ [Next]_vars => LookInv'
<1> SUFFICES ASSUME LookInv, [Next]_vars PROVE LookInv'
  OBVIOUS
<1>1. CASE PreflightNext
  BY <1>1, LookReadMore, LookTakeLine, LookExhaust, LookDecide DEF PreflightNext
<1>3. CASE Abandon
  BY <1>3, LookAbandon
<1>2. CASE UNCHANGED preflightVars
  BY <1>2, LookStays
<1>4. QED
  BY <1>1, <1>2, <1>3 DEF Next, Open, vars

\* Upstreams send nothing that is content behind what finishes a stream.
NothingAfterEnd ==
  \A b \in Bodies : \A i, j \in DOMAIN b :
    b[i].kind \in {"finish", "done"} /\ IsContent(b[j].kind) => j < i

LEMMA VerdictIsExact ==
  ASSUME NothingAfterEnd, LookInv
  PROVE  PreflightExact
<1>1. /\ body \in Bodies /\ body \in Seq(Line) /\ taken \in 0 .. Len(body) /\ Len(body) \in Nat
      /\ saw = Elements(Looked) /\ events = Len(Looked) /\ events \in 0 .. MaxEvents
  BY BodyIs DEF LookInv, PreflightTypeOK
<1>2. /\ Looked \in Seq(Kinds) /\ Extends(Sent, Looked) /\ Sent \in Seq(Kinds)
      /\ saw = {body[i].kind : i \in 1 .. taken} \intersect Sse
  BY <1>1, EventsOfSome DEF Looked
<1>3. Elements(Sent) = {body[i].kind : i \in 1 .. Len(body)} \intersect Sse
  <2>1. SubSeq(body, 1, Len(body)) = body /\ Len(body) \in 0 .. Len(body)
    BY <1>1, SubSeqFull
  <2>2. EventsOf(SubSeq(body, 1, Len(body))) = Sent
    BY <2>1 DEF Sent
  <2>3. Elements(EventsOf(SubSeq(body, 1, Len(body)))) = {body[i].kind : i \in 1 .. Len(body)} \intersect Sse
    BY <1>1, <2>1, EventsOfSome
  <2>4. QED
    BY <2>2, <2>3
<1>4. ASSUME verdict = "empty", NEW i \in 1 .. Len(Sent) PROVE ~ IsContent(Sent[i])
  <2>1. SUFFICES ASSUME IsContent(Sent[i]) PROVE FALSE
    OBVIOUS
  <2>2. Sent[i] \in Elements(Sent)
    BY DEF Elements
  <2>3. PICK j \in 1 .. Len(body) : body[j].kind = Sent[i]
    BY <1>3, <2>2
  <2>4. LooksEmpty /\ Settled
    BY <1>4 DEF LookInv
  <2>5. CASE "finish" \in saw \/ "done" \in saw
    <3>1. PICK k \in 1 .. taken : body[k].kind \in {"finish", "done"}
      BY <1>2, <2>5
    <3>2. k \in DOMAIN body /\ j \in DOMAIN body
      BY <1>1, <3>1
    <3>3. j < k
      BY <1>1, <2>1, <2>3, <3>1, <3>2 DEF NothingAfterEnd
    <3>4. j \in 1 .. taken
      BY <1>1, <3>1, <3>3
    <3>5. body[j].kind \in Sse
      BY <2>1, <2>3 DEF IsContent, Sse, Kinds, Skipped
    <3>6. body[j].kind \in saw
      BY <1>2, <3>4, <3>5
    <3>7. QED
      BY <2>1, <2>3, <2>4, <3>6 DEF LooksEmpty
  <2>6. CASE events = 0
    <3>1. taken = Len(body)
      BY <2>4, <2>6 DEF Settled
    <3>2. Len(Looked) = 0 /\ saw = {}
      BY <1>1, <2>6 DEF Elements
    <3>3. Elements(Sent) = {}
      BY <1>2, <1>3, <3>1, <3>2
    <3>4. QED
      BY <2>2, <3>3
  <2>7. QED
    BY <2>4, <2>5, <2>6 DEF LooksEmpty, NonSSEPayload
<1>5. ASSUME verdict = "replay", Captured < Cap
      PROVE  LET short == SubSeq(Sent, 1, Smaller(MaxEvents, Len(Sent)))
             IN  \/ \E i \in 1 .. Len(short) : IsContent(short[i])
                 \/ \A i \in 1 .. Len(short) : short[i] \notin {"finish", "done"}
  <2> DEFINE m == Smaller(MaxEvents, Len(Sent))
             short == SubSeq(Sent, 1, m)
  <2>1. /\ m \in Nat /\ m <= Len(Sent) /\ m <= MaxEvents /\ events <= m
        /\ (events = MaxEvents => m = events) /\ (events = Len(Sent) => m = events)
    BY <1>1, <1>2, PreflightNumbers DEF Smaller, Extends
  <2> HIDE DEF m
  <2>2. Len(short) = m /\ \A i \in 1 .. m : short[i] = Sent[i]
    BY <1>2, <2>1
  <2>3. \A i \in 1 .. events : i \in 1 .. m /\ short[i] = Looked[i]
    BY <1>1, <1>2, <2>1, <2>2 DEF Extends
  <2> HIDE DEF short
  <2>4. Settled /\ ~ LooksEmpty
    BY <1>5 DEF LookInv
  <2>5. CASE ContentSeen
    <3>1. PICK i \in 1 .. events : IsContent(Looked[i])
      BY <1>1, <2>5 DEF ContentSeen, Elements
    <3>2. i \in 1 .. Len(short) /\ IsContent(short[i])
      BY <2>2, <2>3, <3>1
    <3>3. QED
      BY <3>2 DEF short, m
  <2>6. CASE ~ ContentSeen
    <3>1. "finish" \notin saw /\ "done" \notin saw
      BY <2>4, <2>6 DEF LooksEmpty, ContentSeen
    <3>2. m = events
      <4>1. CASE taken = Len(body)
        <5>1. SubSeq(body, 1, taken) = body
          BY <1>1, <4>1, SubSeqFull
        <5>2. Looked = Sent
          BY <5>1 DEF Looked, Sent
        <5>3. QED
          BY <1>1, <2>1, <5>2
      <4>2. CASE events = MaxEvents
        BY <2>1, <4>2
      <4>3. Captured # Cap
        BY <1>5, PreflightNumbers
      <4>4. QED
        BY <2>4, <2>6, <3>1, <4>1, <4>2, <4>3 DEF Settled
    <3>3. \A i \in 1 .. events : Looked[i] \in saw
      BY <1>1 DEF Elements
    <3>4. \A i \in 1 .. Len(short) : short[i] \notin {"finish", "done"}
      BY <2>2, <2>3, <3>1, <3>2, <3>3
    <3>5. QED
      BY <3>4 DEF short, m
  <2>7. QED
    BY <2>5, <2>6
<1>6. QED
  BY <1>4, <1>5 DEF PreflightExact

\* stream_pacer.go:207-220: however the connection cuts the stream into reads and
\* whatever the numbers, no stream with content is taken for an empty one, and one
\* that shows its end among the first events without content is, if upstreams send no
\* content behind the end.
THEOREM VerdictExactAlways ==
  ASSUME NothingAfterEnd
  PROVE  Spec => []PreflightExact
<1>1. Init => LookInv
  BY LookInit DEF Init
<1>2. LookInv => PreflightExact
  BY VerdictIsExact
<1>3. QED
  BY <1>1, <1>2, LookStep, PTL DEF Spec

-----------------------------------------------------------------------------
(***************************************************************************)
(* Where a stream ends.  The events a handler is given are those of the    *)
(* body it was handed; an end or an error is the last thing the reader     *)
(* pushes, and the end comes when nothing is left to hand out.             *)
(***************************************************************************)
LEMMA CapacityFact == Capacity \in Nat /\ Capacity >= 1
<1>1. Capacity \in Nat \ {0}
  BY PacerAssumption
<1>2. QED
  BY <1>1

LEMMA EventsTyped ==
  ASSUME NEW s \in Seq(Line)
  PROVE  EventsOf(s) \in Seq(Kinds)
<1> DEFINE kinds == [i \in 1 .. Len(s) |-> s[i].kind]
<1>1. \A i \in 1 .. Len(s) : s[i].kind \in Kinds
  <2>1. \A i \in 1 .. Len(s) : s[i] \in Line
    OBVIOUS
  <2>2. QED
    BY <2>1 DEF Line
<1>2. kinds \in Seq(Kinds)
  BY <1>1
<1> HIDE DEF kinds
<1>3. Only(kinds, Sse) \in Seq(Kinds)
  BY <1>2, OnlyKeeps
<1>4. QED
  BY <1>3 DEF EventsOf, Sse, kinds

\* A replay is the lines in the capture and what follows.
LEMMA ReplayIs ==
  ASSUME LookInv
  PROVE  /\ Replayed \in Seq(Line)
         /\ \E tail \in Seq(Line) : Replayed = SubSeq(body, 1, Ended(Captured)) \o tail
<1>1. body \in Seq(Line) /\ pos \in 0 .. Total /\ Cap \in Nat
  BY BodyIs, PreflightNumbers DEF LookInv, PreflightTypeOK
<1>2. Total \in Nat
  BY <1>1, UntilIs DEF Total
<1>3. Captured \in 0 .. Total
  BY <1>1, <1>2 DEF Captured, Smaller
<1>4. PICK e \in 0 .. Len(body) :
        /\ Ended(Captured) = e
        /\ Begun(Captured) = IF Until(e) = Captured THEN e ELSE e + 1
        /\ Until(e) # Captured => e < Len(body)
  BY <1>1, <1>3, EndedIs
<1>5. PICK f \in 0 .. Len(body) : Begun(pos) = IF Until(f) = pos THEN f ELSE f + 1
  BY <1>1, EndedIs
<1> DEFINE cut  == Begun(Captured) > Ended(Captured)
           torn == Begun(pos) > Ended(pos)
           line == body[Ended(Captured) + 1]
           stub == IF Captured = pos \/ line.kind \in Skipped \cup {"comment"} THEN line
                   ELSE [line EXCEPT !.kind = "malformed"]
           middle == IF cut THEN <<stub>> ELSE << >>
           rest == Begun(pos) + (IF cut /\ ~torn THEN 2 ELSE 1)
<1>6. cut => stub \in Line
  <2> SUFFICES ASSUME cut PROVE stub \in Line
    OBVIOUS
  <2>1. e + 1 \in 1 .. Len(body)
    BY <1>4
  <2>2. line \in Line
    BY <1>1, <1>4, <2>1
  <2> HIDE DEF line, cut
  <2>3. [line EXCEPT !.kind = "malformed"] \in Line
    BY <2>2 DEF Line, Kinds
  <2>4. QED
    BY <2>2, <2>3
<1>7. middle \in Seq(Line)
  <2> HIDE DEF stub, cut
  <2>1. QED
    BY <1>6
<1>8. rest \in Nat /\ rest >= 1
  <2>1. Begun(pos) \in Nat
    BY <1>5
  <2> HIDE DEF cut, torn
  <2>2. QED
    BY <2>1
<1>9. SubSeq(body, 1, Ended(Captured)) \in Seq(Line)
  BY <1>1, <1>4
<1>10. Replayed = SubSeq(body, 1, Ended(Captured)) \o middle \o SubSeq(body, rest, Len(body))
  BY DEF Replayed
<1> HIDE DEF rest, middle
<1>11. SubSeq(body, rest, Len(body)) \in Seq(Line)
  BY <1>1, <1>8
<1>12. middle \o SubSeq(body, rest, Len(body)) \in Seq(Line)
  BY <1>7, <1>11
<1>13. Replayed = SubSeq(body, 1, Ended(Captured)) \o (middle \o SubSeq(body, rest, Len(body)))
  <2> DEFINE a == SubSeq(body, 1, Ended(Captured))
             c == SubSeq(body, rest, Len(body))
  <2>1. a \in Seq(Line) /\ middle \in Seq(Line) /\ c \in Seq(Line) /\ Replayed = (a \o middle) \o c
    BY <1>7, <1>9, <1>10, <1>11
  <2> HIDE DEF a, c
  <2>2. (a \o middle) \o c = a \o (middle \o c)
    <3>1. a \in Seq(Line) /\ middle \in Seq(Line) /\ c \in Seq(Line)
      BY <2>1
    <3> HIDE DEF middle
    <3>2. \A x, y, z \in Seq(Line) : (x \o y) \o z = x \o (y \o z)
      BY ONLY ConcatAssociative, SMTT(60)
    <3>3. QED
      BY ONLY <3>1, <3>2
  <2>3. QED
    BY <2>1, <2>2 DEF a, c
<1>14. Replayed \in Seq(Line)
  BY <1>9, <1>12, <1>13
<1> DEFINE tail == middle \o SubSeq(body, rest, Len(body))
<1>15. tail \in Seq(Line) /\ Replayed = SubSeq(body, 1, Ended(Captured)) \o tail
  BY <1>12, <1>13
<1> HIDE DEF tail
<1>16. QED
  BY <1>14, <1>15

LEMMA DownstreamTyped ==
  ASSUME LookInv
  PROVE  Downstream \in Seq(Kinds)
<1>1. body \in Seq(Line) /\ Replayed \in Seq(Line)
  BY BodyIs, ReplayIs DEF LookInv, PreflightTypeOK
<1>2. EventsOf(Replayed) \in Seq(Kinds) /\ EventsOf(body) \in Seq(Kinds)
  BY <1>1, EventsTyped
<1>3. QED
  BY <1>2 DEF Downstream

LEMMA SameDownstream ==
  ASSUME UNCHANGED preflightVars
  PROVE  Downstream' = Downstream /\ ending' = ending /\ verdict' = verdict
BY DEF preflightVars, Downstream, Replayed, EventsOf, Ended, Begun, Captured, Until

\* What the pacer was opened on, and the types of what it keeps.
Opened ==
  /\ stream \in Seq(Kinds)
  /\ loop # "idle" => /\ stream = Downstream /\ finale = ending
                      /\ verdict \in {"replay", "failed", "fresh"}

Bounded ==
  /\ next \in 0 .. Len(stream)
  /\ Len(channel) <= Capacity
  /\ loop \in {"idle", "select", "returned", "closed"}
  /\ away \in BOOLEAN
  /\ ClockTypes

\* A failure is the last item that is pushed, and the reader does not leave before.
FailureIsLast ==
  loop = "select" =>
    /\ reader # "gone" => \A i \in 1 .. Len(channel) : channel[i] \notin Failures
    /\ reader = "gone" =>
         /\ channel # << >>
         /\ \A i \in 1 .. Len(channel) : channel[i] \in Failures <=> i = Len(channel)

\* The end is pushed when every event has been.
EndIsLast ==
  loop = "select" =>
    /\ reader = "sending" /\ holding = "eof" => Len(seen) + Len(channel) = Len(stream)
    /\ \A i \in 1 .. Len(channel) : channel[i] = "eof" => Len(seen) + i - 1 = Len(stream)

\* The loop listens up to [DONE], and how it returned tells what it was given.
ResultTells ==
  /\ loop \in {"idle", "select"} => result = "none"
  /\ loop = "select" \/ result = "eof" => \A i \in 1 .. Len(seen) : seen[i] # "done"
  /\ result = "eof"  => Len(seen) = Len(stream)
  /\ result = "done" => /\ seen # << >> /\ seen[Len(seen)] = "done"
                        /\ \A i \in 1 .. Len(seen) - 1 : seen[i] # "done"

EndInv == Opened /\ Bounded /\ FailureIsLast /\ EndIsLast /\ ResultTells

Inv == LookInv /\ Flow /\ EndInv

LEMMA EndInit == Init => EndInv
<1> SUFFICES ASSUME Init PROVE EndInv
  OBVIOUS
<1>1. /\ stream = << >> /\ channel = << >> /\ seen = << >> /\ next = 0 /\ loop = "idle" /\ result = "none"
      /\ away = FALSE /\ since = 0 /\ quiet = 0 /\ pause = 0 /\ phase = 0 /\ due = 0
  BY DEF Init, PacerInit
<1>2. Opened /\ FailureIsLast /\ EndIsLast /\ ResultTells
  BY <1>1 DEF Opened, FailureIsLast, EndIsLast, ResultTells
<1>3. Bounded
  <2>1. Len(stream) = 0 /\ Len(channel) = 0
    BY <1>1
  <2>2. next \in 0 .. Len(stream) /\ Len(channel) <= Capacity
    BY <1>1, <2>1, CapacityFact
  <2>3. ClockTypes
    BY <1>1, KeepAliveFact DEF ClockTypes
  <2>4. QED
    BY <1>1, <2>2, <2>3 DEF Bounded
<1>4. QED
  BY <1>2, <1>3 DEF EndInv

\* The look-ahead is over once the pacer runs.
LEMMA EndPreflight ==
  ASSUME Inv, PreflightNext \/ Abandon, UNCHANGED pacerVars
  PROVE  EndInv'
<1>1. verdict \in {"looking", "stopped"}
  BY DEF Abandon, PreflightNext, ReadMore, TakeLine, Exhaust, Decide
<1>2. loop = "idle" /\ loop' = "idle"
  BY <1>1 DEF Inv, EndInv, Opened, pacerVars, loopVars
<1>3. QED
  BY <1>2 DEF Inv, EndInv, Opened, Bounded, ClockTypes, FailureIsLast, EndIsLast, ResultTells,
              pacerVars, readerVars, loopVars, clockVars

LEMMA EndOpen ==
  ASSUME Inv, Open
  PROVE  EndInv'
<1>1. /\ loop = "idle" /\ loop' = "select" /\ stream' = Downstream /\ finale' = ending
      /\ reader' = "reading" /\ verdict \in {"replay", "failed", "fresh"}
      /\ UNCHANGED <<next, holding, channel, result, seen, away, clockVars, preflightVars>>
  BY DEF Open, newStreamPacer
<1>2. next = 0 /\ channel = << >> /\ seen = << >> /\ result = "none"
  BY <1>1 DEF Inv, Flow, IdleIsEmpty, EndInv, ResultTells
<1>3. Downstream \in Seq(Kinds)
  BY DownstreamTyped DEF Inv
<1>4. Downstream' = Downstream /\ ending' = ending /\ verdict' = verdict
  BY <1>1, SameDownstream
<1>5. Opened'
  BY <1>1, <1>3, <1>4 DEF Opened
<1>6. Bounded'
  BY <1>1, <1>2, <1>3, CapacityFact DEF Bounded, ClockTypes, clockVars, Inv, EndInv
<1>7. FailureIsLast' /\ EndIsLast' /\ ResultTells'
  BY <1>1, <1>2 DEF FailureIsLast, EndIsLast, ResultTells
<1>8. QED
  BY <1>5, <1>6, <1>7 DEF EndInv

\* A step of the pacer leaves what it was opened on alone.
LEMMA OpenedStays ==
  ASSUME Opened, UNCHANGED <<preflightVars, stream, finale>>, loop = "idle" => loop' = "idle"
  PROVE  Opened'
<1>1. Downstream' = Downstream /\ ending' = ending /\ verdict' = verdict
  BY SameDownstream
<1>2. QED
  BY <1>1 DEF Opened

LEMMA EndRead ==
  ASSUME Inv, Read, UNCHANGED preflightVars
  PROVE  EndInv'
<1>1. /\ reader = "reading" /\ reader' = "sending"
      /\ UNCHANGED <<stream, finale, channel, loop, result, seen, away, clockVars>>
      /\ \/ next + 1 \in DOMAIN stream /\ holding' = stream[next + 1] /\ next' = next + 1
         \/ next + 1 \notin DOMAIN stream /\ finale \in Failures /\ holding' = finale /\ next' = next
         \/ holding' = "error" /\ next' = next
  BY DEF Read, loopVars
<1>2. EndInv /\ stream \in Seq(Kinds) /\ next \in 0 .. Len(stream) /\ Len(stream) \in Nat
  BY DEF Inv, EndInv, Opened, Bounded
<1>3. Opened' /\ ResultTells'
  BY <1>1, <1>2, OpenedStays DEF EndInv, ResultTells
<1>4. next' \in 0 .. Len(stream)
  BY <1>1, <1>2
<1>5. Bounded'
  BY <1>1, <1>2, <1>4 DEF Bounded, ClockTypes, clockVars, EndInv
<1>6. FailureIsLast'
  BY <1>1, <1>2 DEF EndInv, FailureIsLast
<1>7. ASSUME loop = "select", holding' = "eof" PROVE Len(seen) + Len(channel) = Len(stream)
  <2>1. "eof" \notin Kinds
    BY DEF Kinds
  <2>2. next + 1 \notin DOMAIN stream
    <3>1. next + 1 \in DOMAIN stream => stream[next + 1] \in Kinds
      BY <1>2
    <3>2. QED
      BY <1>1, <1>7, <2>1, <3>1
  <2>3. next = Len(stream)
    BY <1>2, <2>2
  <2>4. QED
    BY <1>1, <1>7, <2>3 DEF Inv, Flow, ReaderFollows
<1>8. EndIsLast'
  BY <1>1, <1>2, <1>7 DEF EndInv, EndIsLast
<1>9. QED
  BY <1>3, <1>5, <1>6, <1>8 DEF EndInv

LEMMA EndSend ==
  ASSUME Inv, Send, UNCHANGED preflightVars
  PROVE  EndInv'
<1>1. /\ reader = "sending" /\ Len(channel) < Capacity /\ channel' = Append(channel, holding)
      /\ reader' = (IF holding \in Failures THEN "gone" ELSE "reading") /\ holding' = "none"
      /\ UNCHANGED <<stream, finale, next, loop, result, seen, away, clockVars>>
  BY DEF Send, HasRoom, Pushed, AfterSending, loopVars
<1>2. /\ EndInv /\ channel \in Seq(Items) /\ holding \in Items /\ seen \in Seq(Items)
      /\ Capacity \in Nat
  BY <1>1, CapacityFact DEF Inv, Flow, FlowTypes
<1>3. /\ Len(channel') = Len(channel) + 1 /\ channel'[Len(channel) + 1] = holding
      /\ Len(channel) \in Nat /\ Len(seen) \in Nat
      /\ \A i \in 1 .. Len(channel) : channel'[i] = channel[i]
      /\ channel' # << >>
  BY <1>1, <1>2
<1>4. \A i \in 1 .. Len(channel') : i \in 1 .. Len(channel) \/ i = Len(channel')
  BY <1>3
<1>5. Opened' /\ ResultTells'
  BY <1>1, <1>2, OpenedStays DEF EndInv, ResultTells
<1>6. Bounded'
  BY <1>1, <1>2, <1>3 DEF Bounded, ClockTypes, clockVars, EndInv
<1>7. FailureIsLast'
  <2> SUFFICES ASSUME loop = "select"
               PROVE  /\ reader' # "gone" => \A i \in 1 .. Len(channel') : channel'[i] \notin Failures
                      /\ reader' = "gone" =>
                           \A i \in 1 .. Len(channel') : channel'[i] \in Failures <=> i = Len(channel')
    BY <1>1, <1>3 DEF FailureIsLast
  <2>1. \A i \in 1 .. Len(channel) : channel'[i] \notin Failures
    BY <1>1, <1>2, <1>3 DEF EndInv, FailureIsLast
  <2>2. \A i \in 1 .. Len(channel) : i # Len(channel')
    BY <1>3
  <2>3. reader' = "gone" <=> holding \in Failures
    BY <1>1
  <2>4. channel'[Len(channel')] = holding
    BY <1>3
  <2>5. QED
    BY <1>4, <2>1, <2>2, <2>3, <2>4
<1>8. EndIsLast'
  <2> SUFFICES ASSUME loop = "select", NEW i \in 1 .. Len(channel'), channel'[i] = "eof"
               PROVE  Len(seen) + i - 1 = Len(stream)
    BY <1>1 DEF EndIsLast
  <2>1. CASE i \in 1 .. Len(channel)
    BY <1>2, <1>3, <2>1 DEF EndInv, EndIsLast
  <2>2. CASE i = Len(channel')
    <3>1. holding = "eof"
      BY <1>3, <2>2
    <3>2. Len(seen) + Len(channel) = Len(stream)
      BY <1>1, <1>2, <3>1 DEF EndInv, EndIsLast
    <3>3. QED
      BY <1>3, <2>2, <3>2
  <2>3. QED
    BY <1>4, <2>1, <2>2
<1>9. QED
  BY <1>5, <1>6, <1>7, <1>8 DEF EndInv

LEMMA EndReadFailed ==
  ASSUME Inv, ReadFailed, UNCHANGED preflightVars
  PROVE  EndInv'
<1>1. /\ loop = "select" /\ loop' = "returned" /\ channel # << >> /\ Head(channel) \in Failures
      /\ channel' = Tail(channel) /\ result' = Head(channel)
      /\ UNCHANGED <<stream, finale, next, reader, holding, seen, away, clockVars>>
  BY DEF ReadFailed
<1>2. EndInv /\ channel \in Seq(Items) /\ seen \in Seq(Items)
  BY DEF Inv, Flow, FlowTypes
<1>3. Head(channel) = channel[1] /\ Len(channel) >= 1 /\ Len(channel') = Len(channel) - 1
      /\ Len(channel) \in Nat /\ Len(seen) \in Nat
  BY <1>1, <1>2
<1>4. Opened'
  BY <1>1, <1>2, OpenedStays DEF EndInv
<1>5. Bounded'
  BY <1>1, <1>2, <1>3, CapacityFact DEF Bounded, ClockTypes, clockVars, EndInv
<1>6. FailureIsLast' /\ EndIsLast'
  BY <1>1 DEF FailureIsLast, EndIsLast
<1>7. ResultTells'
  <2>1. result' # "done"
    BY <1>1 DEF Failures
  <2>2. ASSUME result' = "eof" PROVE Len(seen) = Len(stream)
    <3>1. channel[1] = "eof" /\ 1 \in 1 .. Len(channel)
      BY <1>1, <1>3, <2>2
    <3>2. Len(seen) + 1 - 1 = Len(stream)
      BY <1>1, <1>2, <3>1 DEF EndInv, EndIsLast
    <3>3. QED
      BY <1>3, <3>2
  <2>3. \A i \in 1 .. Len(seen) : seen[i] # "done"
    BY <1>1, <1>2 DEF EndInv, ResultTells
  <2>4. QED
    BY <1>1, <2>1, <2>2, <2>3 DEF ResultTells
<1>8. QED
  BY <1>4, <1>5, <1>6, <1>7 DEF EndInv

LEMMA EndEvent ==
  ASSUME Inv, Event, UNCHANGED preflightVars
  PROVE  EndInv'
<1> DEFINE kind == Head(channel)
<1>1. /\ loop = "select" /\ channel # << >> /\ kind \notin Failures
      /\ channel' = Tail(channel) /\ seen' = Append(seen, kind)
      /\ IF kind = "done" THEN loop' = "returned" /\ result' = "done"
                          ELSE loop' = loop /\ result' = result
      /\ UNCHANGED <<stream, finale, next, reader, holding, away, phase, due>>
      /\ since' = 0 /\ quiet' \in {0, quiet} /\ pause' = 0
  BY DEF Event
<1>2. EndInv /\ channel \in Seq(Items) /\ seen \in Seq(Items) /\ kind \in Items
  BY <1>1 DEF Inv, Flow, FlowTypes
<1>3. /\ kind = channel[1] /\ Len(channel) >= 1 /\ Len(channel') = Len(channel) - 1
      /\ Len(channel) \in Nat /\ Len(seen) \in Nat
      /\ \A i \in 1 .. Len(channel') : i + 1 \in 1 .. Len(channel) /\ channel'[i] = channel[i + 1]
  BY <1>1, <1>2
<1> HIDE DEF kind
<1>4. /\ Len(seen') = Len(seen) + 1 /\ seen'[Len(seen) + 1] = kind /\ seen' # << >>
      /\ \A i \in 1 .. Len(seen) : seen'[i] = seen[i]
  BY <1>1, <1>2
<1>5. Opened'
  BY <1>1, <1>2, OpenedStays DEF EndInv
<1>6. Bounded'
  <2>1. Len(channel') <= Capacity /\ loop' \in {"idle", "select", "returned", "closed"}
    BY <1>1, <1>2, <1>3, CapacityFact DEF EndInv, Bounded
  <2>2. ClockTypes'
    BY <1>1, <1>2 DEF EndInv, Bounded, ClockTypes
  <2>3. QED
    BY <1>1, <1>2, <2>1, <2>2 DEF EndInv, Bounded
<1>7. FailureIsLast'
  <2> SUFFICES ASSUME loop' = "select"
               PROVE  /\ reader # "gone" => \A i \in 1 .. Len(channel') : channel'[i] \notin Failures
                      /\ reader = "gone" =>
                           /\ channel' # << >>
                           /\ \A i \in 1 .. Len(channel') : channel'[i] \in Failures <=> i = Len(channel')
    BY <1>1 DEF FailureIsLast
  <2>1. CASE reader # "gone"
    <3>1. \A i \in 1 .. Len(channel) : channel[i] \notin Failures
      BY <1>1, <1>2, <2>1 DEF EndInv, FailureIsLast
    <3>2. QED
      BY <1>3, <2>1, <3>1
  <2>2. CASE reader = "gone"
    <3>1. \A i \in 1 .. Len(channel) : channel[i] \in Failures <=> i = Len(channel)
      BY <1>1, <1>2, <2>2 DEF EndInv, FailureIsLast
    <3>2. Len(channel) # 1
      <4>1. 1 \in 1 .. Len(channel) /\ channel[1] \notin Failures
        BY <1>1, <1>3
      <4>2. QED
        BY <3>1, <4>1
    <3>3. Len(channel') # 0
      BY <1>3, <3>2
    <3>4. channel' # << >>
      BY <3>3
    <3>5. \A i \in 1 .. Len(channel') : channel'[i] \in Failures <=> i = Len(channel')
      <4> TAKE i \in 1 .. Len(channel')
      <4>1. channel'[i] = channel[i + 1] /\ i + 1 \in 1 .. Len(channel)
        BY <1>3
      <4>2. i + 1 = Len(channel) <=> i = Len(channel')
        BY <1>3
      <4>3. QED
        BY <3>1, <4>1, <4>2
    <3>6. QED
      BY <2>2, <3>4, <3>5
  <2>3. QED
    BY <2>1, <2>2
<1>8. EndIsLast'
  <2> SUFFICES ASSUME loop' = "select"
               PROVE  /\ reader = "sending" /\ holding = "eof" => Len(seen') + Len(channel') = Len(stream)
                      /\ \A i \in 1 .. Len(channel') :
                           channel'[i] = "eof" => Len(seen') + i - 1 = Len(stream)
    BY <1>1 DEF EndIsLast
  <2>1. reader = "sending" /\ holding = "eof" => Len(seen) + Len(channel) = Len(stream)
    BY <1>1, <1>2 DEF EndInv, EndIsLast
  <2>2. Len(seen') + Len(channel') = Len(seen) + Len(channel)
    BY <1>3, <1>4
  <2>3. ASSUME NEW i \in 1 .. Len(channel'), channel'[i] = "eof" PROVE Len(seen') + i - 1 = Len(stream)
    <3>1. channel[i + 1] = "eof" /\ i + 1 \in 1 .. Len(channel)
      BY <1>3, <2>3
    <3>2. \A j \in 1 .. Len(channel) : channel[j] = "eof" => Len(seen) + j - 1 = Len(stream)
      BY <1>1, <1>2 DEF EndInv, EndIsLast
    <3>3. Len(seen) + (i + 1) - 1 = Len(stream)
      BY <3>1, <3>2
    <3>4. Len(seen') + i - 1 = Len(seen) + (i + 1) - 1
      BY <1>3, <1>4
    <3>5. QED
      BY <3>3, <3>4
  <2>4. QED
    BY <2>1, <2>2, <2>3
<1>9. ResultTells'
  <2>1. result = "none" /\ \A i \in 1 .. Len(seen) : seen[i] # "done"
    BY <1>1, <1>2 DEF EndInv, ResultTells
  <2>2. CASE kind = "done"
    <3>1. loop' = "returned" /\ result' = "done"
      BY <1>1, <2>2
    <3>2. seen'[Len(seen')] = "done"
      BY <1>3, <1>4, <2>2
    <3>3. \A i \in 1 .. Len(seen') - 1 : i \in 1 .. Len(seen)
      BY <1>3, <1>4
    <3>4. \A i \in 1 .. Len(seen') - 1 : seen'[i] # "done"
      BY <1>4, <2>1, <3>3
    <3>5. QED
      BY <1>4, <3>1, <3>2, <3>4 DEF ResultTells
  <2>3. CASE kind # "done"
    <3>1. loop' = "select" /\ result' = "none"
      BY <1>1, <2>1, <2>3
    <3>2. \A i \in 1 .. Len(seen') : i \in 1 .. Len(seen) \/ i = Len(seen) + 1
      BY <1>3, <1>4
    <3>3. \A i \in 1 .. Len(seen') : seen'[i] # "done"
      BY <1>4, <2>1, <2>3, <3>2
    <3>4. QED
      BY <3>1, <3>3 DEF ResultTells
  <2>4. QED
    BY <2>2, <2>3
<1>10. QED
  BY <1>5, <1>6, <1>7, <1>8, <1>9 DEF EndInv

\* The other steps touch neither the events nor how the loop ended.
LEMMA EndAside ==
  ASSUME Inv, Cancelled \/ Ticked \/ Close \/ Leave \/ Tick, UNCHANGED preflightVars
  PROVE  EndInv'
<1>1. /\ UNCHANGED <<stream, finale, next, reader, holding, channel, seen>>
      /\ (loop # "idle" /\ loop' \in {"select", "returned", "closed"}) \/ (loop' = loop /\ result' = result)
      /\ loop' = "select" => loop = "select" /\ result' = result
      /\ loop' # "select" => result' = result \/ result' = "cancelled"
      /\ away' \in {away, TRUE}
  BY DEF Cancelled, Ticked, Close, Leave, Tick, readerVars, loopVars
<1>2. EndInv
  BY DEF Inv
<1>3. ClockTypes'
  <2>1. ClockTypes /\ KeepAlive \in Nat /\ KeepAlive >= 1
    BY <1>2, KeepAliveFact DEF EndInv, Bounded
  <2>2. CASE Cancelled \/ Close \/ Leave
    BY <2>1, <2>2 DEF Cancelled, Close, Leave, clockVars, ClockTypes
  <2>3. CASE Ticked
    BY <2>1, <2>3 DEF Ticked, ClockTypes
  <2>4. CASE Tick
    BY <2>1, <2>4 DEF Tick, ClockTypes
  <2>5. QED
    BY <2>2, <2>3, <2>4
<1>4. Opened'
  BY <1>1, <1>2, OpenedStays DEF EndInv
<1>5. Bounded'
  BY <1>1, <1>2, <1>3 DEF EndInv, Bounded
<1>6. FailureIsLast' /\ EndIsLast' /\ ResultTells'
  BY <1>1, <1>2 DEF EndInv, FailureIsLast, EndIsLast, ResultTells
<1>7. QED
  BY <1>4, <1>5, <1>6 DEF EndInv

LEMMA EndStays ==
  ASSUME Inv, UNCHANGED vars
  PROVE  EndInv'
<1>1. UNCHANGED <<preflightVars, stream, finale, next, reader, holding, channel, loop, result, seen, away,
                  since, phase, due, quiet, pause>>
  BY DEF vars, pacerVars, readerVars, loopVars, clockVars
<1>2. Opened'
  BY <1>1, OpenedStays DEF Inv, EndInv
<1>3. QED
  BY <1>1, <1>2 DEF Inv, EndInv, Bounded, ClockTypes, FailureIsLast, EndIsLast, ResultTells

LEMMA InvStep == Inv /\ [Next]_vars => Inv'
<1> SUFFICES ASSUME Inv, [Next]_vars PROVE Inv'
  OBVIOUS
<1>1. LookInv' /\ Flow'
  BY LookStep, FlowStep DEF Inv
<1>2. EndInv'
  <2>1. CASE (PreflightNext \/ Abandon) /\ UNCHANGED pacerVars
    BY <2>1, EndPreflight
  <2>2. CASE Open
    BY <2>2, EndOpen
  <2>3. CASE Read /\ UNCHANGED preflightVars
    BY <2>3, EndRead
  <2>4. CASE Send /\ UNCHANGED preflightVars
    BY <2>4, EndSend
  <2>5. CASE ReadFailed /\ UNCHANGED preflightVars
    BY <2>5, EndReadFailed
  <2>6. CASE Event /\ UNCHANGED preflightVars
    BY <2>6, EndEvent
  <2>7. CASE (Cancelled \/ Ticked \/ Close \/ Leave \/ Tick) /\ UNCHANGED preflightVars
    BY <2>7, EndAside
  <2>8. CASE UNCHANGED vars
    BY <2>8, EndStays
  <2>9. QED
    BY <2>1, <2>2, <2>3, <2>4, <2>5, <2>6, <2>7, <2>8 DEF Next, Abandon, PacerNext, ReaderStep, LoopStep
<1>3. QED
  BY <1>1, <1>2 DEF Inv

LEMMA InvInit == Init => Inv
<1>1. Init => LookInv
  BY LookInit DEF Init
<1>2. QED
  BY <1>1, FlowInit, EndInit DEF Inv

\* The types of the look-ahead and of the pacer, and the bounds of what they keep:
\* no unit is read twice or past the end, the channel holds what its capacity allows.
THEOREM TypesHold == Spec => []TypeOK
<1>1. Inv => TypeOK
  <2> SUFFICES ASSUME Inv PROVE TypeOK
    OBVIOUS
  <2>1. PreflightTypeOK
    BY DEF Inv, LookInv
  <2>2. stream \in Seq(Kinds) /\ channel \in Seq(Items) /\ reader \in {"reading", "sending", "gone"}
    BY DEF Inv, EndInv, Opened, Flow, FlowTypes
  <2>3. Items = {stream[i] : i \in 1 .. Len(stream)} \cup Failures
    BY <2>2 DEF Items
  <2>4. PacerTypeOK
    BY <2>2, <2>3 DEF PacerTypeOK, Inv, EndInv, Bounded, ClockTypes
  <2>5. QED
    BY <2>1, <2>4 DEF TypeOK
<1>2. QED
  BY <1>1, InvInit, InvStep, PTL DEF Spec

\* What the handler listened to, when the stream is taken to have ended well.
LEMMA SeenIsAll ==
  ASSUME Inv, result \in {"eof", "done"}
  PROVE  seen = UpToDone(stream)
<1> DEFINE dones == {i \in 1 .. Len(stream) : stream[i] = "done"}
<1>1. /\ stream \in Seq(Kinds) /\ seen \in Seq(Items) /\ EventsInOrder /\ ResultTells
  BY DEF Inv, Flow, FlowTypes, EndInv, Opened
<1>2. /\ Len(seen) \in Nat /\ Len(stream) \in Nat
      /\ \A i \in 1 .. Len(seen) : i \in 1 .. Len(stream) /\ seen[i] = stream[i]
  BY <1>1 DEF EventsInOrder
<1>3. Len(seen) <= Len(stream)
  <2>1. Len(seen) # 0 => Len(seen) \in 1 .. Len(seen)
    BY <1>2
  <2>2. QED
    BY <1>2, <2>1
<1>4. SubSeq(stream, 1, Len(seen)) = seen
  <2>1. /\ SubSeq(stream, 1, Len(seen)) \in Seq(Kinds) /\ Len(SubSeq(stream, 1, Len(seen))) = Len(seen)
        /\ \A i \in 1 .. Len(seen) : SubSeq(stream, 1, Len(seen))[i] = stream[i]
    BY <1>1, <1>2, <1>3
  <2>2. QED
    BY <1>1, <1>2, <2>1
<1>5. CASE result = "eof"
  <2>1. Len(seen) = Len(stream) /\ \A i \in 1 .. Len(seen) : seen[i] # "done"
    BY <1>1, <1>5 DEF ResultTells
  <2>2. dones = {}
    BY <1>2, <2>1
  <2>3. QED
    BY <1>4, <2>1, <2>2 DEF UpToDone
<1>6. CASE result = "done"
  <2>1. /\ Len(seen) >= 1 /\ seen[Len(seen)] = "done"
        /\ \A i \in 1 .. Len(seen) - 1 : seen[i] # "done"
    BY <1>1, <1>6 DEF ResultTells
  <2>2. Len(seen) \in 1 .. Len(seen)
    BY <1>2, <2>1
  <2>3. Len(seen) \in dones
    BY <1>2, <2>1, <2>2
  <2>4. \A i \in dones : Len(seen) <= i
    <3> TAKE i \in dones
    <3>1. i < Len(seen) => i \in 1 .. Len(seen) - 1 /\ i \in 1 .. Len(seen)
      BY <1>2
    <3>2. QED
      BY <1>2, <2>1, <3>1
  <2>5. dones \subseteq Nat
    BY <1>2
  <2> HIDE DEF dones
  <2>6. Min(dones) = Len(seen)
    <3>1. ASSUME NEW x \in dones, \A y \in dones : x <= y PROVE x = Len(seen)
      BY <1>2, <2>3, <2>4, <2>5, <3>1
    <3>2. QED
      BY <2>3, <2>4, <3>1 DEF Min
  <2>7. UpToDone(stream) = SubSeq(stream, 1, IF dones = {} THEN Len(stream) ELSE Min(dones))
    BY DEF UpToDone, dones
  <2>8. QED
    BY <1>4, <2>3, <2>6, <2>7
<1>7. QED
  BY <1>5, <1>6

\* Up to its end, a longer sequence begins as a shorter one it extends.
LEMMA UpToDoneExtends ==
  ASSUME NEW long \in Seq(Kinds), NEW short \in Seq(Kinds), Extends(long, short)
  PROVE  UpToDone(short) = SubSeq(UpToDone(long), 1, Len(UpToDone(short)))
<1> DEFINE Dones(s) == {i \in 1 .. Len(s) : s[i] = "done"}
           End(s) == IF Dones(s) = {} THEN Len(s) ELSE Min(Dones(s))
<1>1. /\ Len(short) \in Nat /\ Len(long) \in Nat /\ Len(short) <= Len(long)
      /\ \A i \in 1 .. Len(short) : long[i] = short[i]
  BY DEF Extends
<1>2. ASSUME NEW s \in Seq(Kinds)
      PROVE  /\ End(s) \in 0 .. Len(s)
             /\ Dones(s) # {} => End(s) \in Dones(s) /\ \A i \in Dones(s) : End(s) <= i
             /\ Dones(s) = {} => End(s) = Len(s)
  <2>1. CASE Dones(s) = {}
    BY <2>1
  <2>2. CASE Dones(s) # {}
    <3>1. Dones(s) \in SUBSET Nat /\ \A i \in Dones(s) : i \in 0 .. Len(s)
      OBVIOUS
    <3>2. PICK m \in Dones(s) : \A i \in Dones(s) : m <= i
      <4> HIDE DEF Dones
      <4>1. QED
        BY <2>2, <3>1, LeastIs
    <3> HIDE DEF Dones
    <3>3. \A x \in Dones(s) : (\A y \in Dones(s) : x <= y) => x = m
      BY <3>1, <3>2
    <3>4. Min(Dones(s)) = m
      BY <3>2, <3>3 DEF Min
    <3>5. QED
      BY <2>2, <3>1, <3>2, <3>4
  <2>3. QED
    BY <2>1, <2>2
<1>3. UpToDone(short) = SubSeq(short, 1, End(short)) /\ UpToDone(long) = SubSeq(long, 1, End(long))
  BY DEF UpToDone
<1>4. End(short) <= End(long)
  <2>1. CASE Dones(long) = {}
    BY <1>1, <1>2, <2>1
  <2>2. CASE Dones(long) # {} /\ End(long) \in 1 .. Len(short)
    <3>1. End(long) \in Dones(long)
      BY <1>2, <2>2
    <3>2. End(long) \in Dones(short)
      BY <1>1, <2>2, <3>1
    <3>3. QED
      BY <1>2, <3>2
  <2>3. CASE Dones(long) # {} /\ End(long) \notin 1 .. Len(short)
    <3>1. End(long) \in Dones(long)
      BY <1>2, <2>3
    <3>2. End(long) \in 1 .. Len(long)
      BY <3>1
    <3>3. End(short) \in 0 .. Len(short)
      BY <1>2
    <3> HIDE DEF End
    <3>4. QED
      BY <1>1, <2>3, <3>2, <3>3
  <2>4. QED
    BY <2>1, <2>2, <2>3
<1>5. End(short) \in 0 .. Len(short) /\ End(long) \in 0 .. Len(long)
  BY <1>2
<1> HIDE DEF Dones, End
<1> DEFINE b == SubSeq(long, 1, End(long))
<1>6. b \in Seq(Kinds) /\ Len(b) = End(long) /\ \A i \in 1 .. End(long) : b[i] = long[i]
  BY <1>1, <1>5
<1>7. /\ SubSeq(short, 1, End(short)) \in Seq(Kinds) /\ Len(SubSeq(short, 1, End(short))) = End(short)
      /\ \A i \in 1 .. End(short) : SubSeq(short, 1, End(short))[i] = short[i]
  BY <1>1, <1>5
<1> HIDE DEF b
<1>8. /\ SubSeq(b, 1, End(short)) \in Seq(Kinds) /\ Len(SubSeq(b, 1, End(short))) = End(short)
      /\ \A i \in 1 .. End(short) : SubSeq(b, 1, End(short))[i] = b[i]
  BY <1>1, <1>4, <1>5, <1>6
<1>9. \A i \in 1 .. End(short) : SubSeq(short, 1, End(short))[i] = SubSeq(b, 1, End(short))[i]
  BY <1>1, <1>4, <1>5, <1>6, <1>7, <1>8
<1>10. SubSeq(short, 1, End(short)) = SubSeq(b, 1, End(short))
  BY <1>7, <1>8, <1>9
<1>11. QED
  BY <1>3, <1>7, <1>10 DEF b

\* The events of a sequence of lines begin with those of its first lines.
LEMMA EventsExtend ==
  ASSUME NEW lines \in Seq(Line), NEW first \in Seq(Line), Extends(lines, first)
  PROVE  Extends(EventsOf(lines), EventsOf(first))
<1> DEFINE Of(s) == [i \in 1 .. Len(s) |-> s[i].kind]
<1>1. ASSUME NEW s \in Seq(Line)
      PROVE  Of(s) \in Seq(Kinds) /\ Len(Of(s)) = Len(s) /\ \A i \in 1 .. Len(s) : Of(s)[i] = s[i].kind
  <2>1. \A i \in 1 .. Len(s) : s[i] \in Line
    OBVIOUS
  <2>2. \A i \in 1 .. Len(s) : s[i].kind \in Kinds
    BY <2>1 DEF Line
  <2>3. QED
    BY <2>2
<1>2. EventsOf(lines) = Only(Of(lines), Sse) /\ EventsOf(first) = Only(Of(first), Sse)
  BY DEF EventsOf, Sse
<1>3. /\ Len(first) \in Nat /\ Len(lines) \in Nat /\ Len(first) <= Len(lines)
      /\ \A i \in 1 .. Len(first) : first[i] = lines[i]
  BY DEF Extends
<1>4. /\ Of(lines) \in Seq(Kinds) /\ Len(Of(lines)) = Len(lines)
      /\ Of(first) \in Seq(Kinds) /\ Len(Of(first)) = Len(first)
      /\ \A i \in 1 .. Len(first) : Of(first)[i] = Of(lines)[i]
  <2>1. \A i \in 1 .. Len(first) : i \in 1 .. Len(lines)
    BY <1>3
  <2> HIDE DEF Of
  <2>2. QED
    BY <1>1, <1>3, <2>1
<1> HIDE DEF Of
<1>5. Of(first) = SubSeq(Of(lines), 1, Len(first)) /\ Len(first) \in 0 .. Len(Of(lines))
  <2>1. /\ SubSeq(Of(lines), 1, Len(first)) \in Seq(Kinds)
        /\ Len(SubSeq(Of(lines), 1, Len(first))) = Len(first)
        /\ \A i \in 1 .. Len(first) : SubSeq(Of(lines), 1, Len(first))[i] = Of(lines)[i]
    BY <1>3, <1>4
  <2>2. QED
    BY <1>3, <1>4, <2>1
<1>6. QED
  BY <1>2, <1>4, <1>5, OnlyGrows

\* What a handler is given begins with the events of the lines in the capture.
LEMMA DownstreamBegins ==
  ASSUME LookInv
  PROVE  LET kept == EventsOf(SubSeq(body, 1, Ended(Captured)))
         IN  kept \in Seq(Kinds) /\ Extends(Downstream, kept)
<1>1. body \in Seq(Line) /\ Captured \in 0 .. Total
  <2>1. body \in Seq(Line) /\ pos \in 0 .. Total /\ Cap \in Nat
    BY BodyIs, PreflightNumbers DEF LookInv, PreflightTypeOK
  <2>2. Total \in Nat
    BY <2>1, UntilIs DEF Total
  <2>3. QED
    BY <2>1, <2>2 DEF Captured, Smaller
<1>2. PICK e \in 0 .. Len(body) : Ended(Captured) = e
  BY <1>1, EndedIs
<1> DEFINE first == SubSeq(body, 1, e)
<1>3. first \in Seq(Line) /\ Len(first) = e /\ \A i \in 1 .. e : first[i] = body[i]
  BY <1>1
<1>4. Extends(body, first)
  BY <1>1, <1>3 DEF Extends
<1>5. Extends(Replayed, first) /\ Replayed \in Seq(Line)
  <2>1. PICK tail \in Seq(Line) : Replayed = first \o tail
    BY <1>2, ReplayIs
  <2> HIDE DEF first
  <2>2. QED
    BY <1>3, <2>1 DEF Extends
<1> HIDE DEF first
<1>6. Extends(EventsOf(body), EventsOf(first)) /\ Extends(EventsOf(Replayed), EventsOf(first))
  BY <1>1, <1>3, <1>4, <1>5, EventsExtend
<1>7. EventsOf(first) \in Seq(Kinds)
  BY <1>3, EventsTyped
<1>8. QED
  BY <1>2, <1>6, <1>7 DEF Downstream, first

\* stream_pacer.go:209 "hands back the buffered bytes first": for every body, however it
\* arrives and wherever the look-ahead stops, a stream that a handler takes to have
\* ended well was given to it whole if the connection was not read past the
\* capture, and from its first line to the last one in the capture if it was.
THEOREM CaptureAlwaysThrough == Spec => []CaptureComesThrough
<1>1. Inv => CaptureComesThrough
  <2> SUFFICES ASSUME Inv, EndedWell PROVE CaptureComesThrough
    BY DEF CaptureComesThrough
  <2>1. stream = Downstream /\ Downstream \in Seq(Kinds) /\ seen = UpToDone(stream)
    BY SeenIsAll, DownstreamTyped DEF EndedWell, Inv, EndInv, Opened
  <2>2. ASSUME pos <= Cap PROVE seen = UpToDone(Sent)
    <3>1. body \in Seq(Line) /\ pos \in 0 .. Total /\ Total \in Nat /\ Cap \in Nat
      <4>1. body \in Seq(Line) /\ pos \in 0 .. Total /\ Cap \in Nat
        BY BodyIs, PreflightNumbers DEF Inv, LookInv, PreflightTypeOK
      <4>2. QED
        BY <4>1, UntilIs DEF Total
    <3>2. Captured = pos
      BY <2>2, <3>1 DEF Captured, Smaller
    <3>3. Replayed = body
      BY <3>1, <3>2, ReplayIsWhole
    <3>4. Downstream = Sent
      BY <3>3 DEF Downstream, Sent
    <3>5. QED
      BY <2>1, <3>4
  <2> DEFINE lines == EventsOf(SubSeq(body, 1, Ended(Captured)))
  <2>3. lines \in Seq(Kinds) /\ Extends(Downstream, lines)
    BY DownstreamBegins DEF Inv
  <2> HIDE DEF lines
  <2>4. UpToDone(lines) = SubSeq(seen, 1, Len(UpToDone(lines)))
    BY <2>1, <2>3, UpToDoneExtends
  <2>5. QED
    BY <2>2, <2>4 DEF CaptureComesThrough, lines
<1>2. QED
  BY <1>1, InvInit, InvStep, PTL DEF Spec

=============================================================================
