---------------------------- MODULE StreamPacer ----------------------------
(***************************************************************************)
(* internal/server/stream_pacer.go, streamPacer: the goroutine that parses *)
(* the upstream's events and pushes them onto a buffered channel, and the  *)
(* handler's loop that takes them off, writes to the client and keeps the  *)
(* connection alive when nothing is written.                               *)
(*                                                                         *)
(* Time passes only while the loop has nothing to do, so the bound on the  *)
(* client's silence is the code's own and not that of a slow machine.  An  *)
(* event is its kind; what a handler does with it matters only in whether  *)
(* it writes a frame.  Most kinds it may pass over in silence: a thought   *)
(* of a Responses reply, text behind the marker of a tool call or held     *)
(* back before one, a delta without text.                                  *)
(***************************************************************************)
EXTENDS Naturals, Sequences

CONSTANTS
  Capacity,    \* of the channel, 256
  KeepAlive    \* keepIntv, in ticks

ASSUME PacerAssumption == {Capacity, KeepAlive} \subseteq Nat \ {0}

VARIABLES
  stream, finale,   \* the events the reader will parse, and "eof", "error" or "stall"
  next,             \* how many it has parsed
  reader, holding,  \* "reading", "sending" or "gone"; the item it is sending
  channel,          \* p.events
  loop,             \* "idle", "select", "returned", "closed" (the handler returned as well)
  result,           \* how the loop returned: "eof", "done", "error", "cancelled"
  seen,             \* the events onEvent was called with
  away,             \* the client is gone: ctx is cancelled
  since, phase,     \* ticks since lastEmit, and since the ticker fired
  due,              \* ticks in the ticker's channel, at most one
  quiet,            \* history: ticks since the client last received a byte
  pause             \* history: ticks since the upstream's last event, to 2 * KeepAlive

readerVars == <<next, reader, holding, channel>>
clockVars  == <<since, phase, due, quiet, pause>>
loopVars   == <<loop, result, seen>>
pacerVars  == <<stream, finale, readerVars, loopVars, away, clockVars>>

Failures == {"eof", "error"}

PacerInit ==
  /\ stream = << >> /\ finale = "eof"
  /\ next = 0 /\ reader = "gone" /\ holding = "none" /\ channel = << >>
  /\ loop = "idle" /\ result = "none" /\ seen = << >>
  /\ away = FALSE
  /\ since = 0 /\ phase = 0 /\ due = 0 /\ quiet = 0 /\ pause = 0

\* The handler starts the reader goroutine and enters the loop.
newStreamPacer(evts, end) ==
  /\ loop = "idle" /\ loop' = "select"
  /\ stream' = evts /\ finale' = end
  /\ reader' = "reading"
  /\ UNCHANGED <<next, holding, channel, result, seen, away, clockVars>>

Uninterrupted == FALSE                                \* mutant: no context reaches the read

\* The request's context is cancelled: the client or the handler is gone.
Interrupted == away \/ loop = "closed"

\* StreamReader.Next.  The body is an io.NopCloser without read deadline: a
\* pending read ends with data, at the end, or when the context is cancelled.
Read ==
  /\ reader = "reading"
  /\ \/ next + 1 \in DOMAIN stream /\ holding' = stream[next + 1] /\ next' = next + 1
     \/ next + 1 \notin DOMAIN stream /\ finale \in Failures /\ holding' = finale /\ UNCHANGED next
     \/ Interrupted /\ holding' = "error" /\ UNCHANGED next
  /\ reader' = "sending"
  /\ UNCHANGED <<stream, finale, channel, loopVars, away, clockVars>>

AfterEvent(item) == IF item \in Failures THEN "reading" ELSE "gone"     \* mutant: if err == nil
\* "if err != nil { return }"
AfterSending(item) == IF item \in Failures THEN "gone" ELSE "reading"

NoLimit == TRUE                                      \* mutant: an unbounded queue

\* The goroutine blocks while the channel is full.
HasRoom == Len(channel) < Capacity

Overtaking(item) == <<item>> \o channel              \* mutant: a pushed event goes first
Pushed(item) == Append(channel, item)

Send ==
  /\ reader = "sending" /\ HasRoom
  /\ channel' = Pushed(holding)
  /\ reader'  = AfterSending(holding)
  /\ holding' = "none"
  /\ UNCHANGED <<stream, finale, next, loopVars, away, clockVars>>

-----------------------------------------------------------------------------
\* The loop's select picks any case that is ready.
Cancelled ==
  /\ loop = "select" /\ away
  /\ loop' = "returned" /\ result' = "cancelled"
  /\ UNCHANGED <<stream, finale, readerVars, seen, away, clockVars>>

ReadFailed ==
  /\ loop = "select" /\ channel # << >> /\ Head(channel) \in Failures
  /\ channel' = Tail(channel)
  /\ loop' = "returned" /\ result' = Head(channel)
  /\ UNCHANGED <<stream, finale, next, reader, holding, seen, away, clockVars>>

\* Whether onEvent may write for an event of a kind, and whether it may not:
\* every handler forwards comments, none writes for [DONE] or for what does not
\* parse, and the rest depends on the handler and on what came before.
MayWrite(kind) ==
  CASE kind = "comment"               -> {TRUE}
    [] kind \in {"done", "malformed"} -> {FALSE}
    [] OTHER                          -> BOOLEAN

\* onEvent, and "lastEmit = time.Now()" whether or not it wrote anything.
Event ==
  LET kind == Head(channel)
  IN /\ loop = "select" /\ channel # << >> /\ kind \notin Failures
     /\ channel' = Tail(channel)
     /\ seen'    = Append(seen, kind)
     /\ since'   = 0
     /\ pause'   = 0
     /\ \E writes \in MayWrite(kind) : quiet' = IF writes THEN 0 ELSE quiet
     /\ IF kind = "done" THEN loop' = "returned" /\ result' = "done"
                         ELSE UNCHANGED <<loop, result>>
     /\ UNCHANGED <<stream, finale, next, reader, holding, away, phase, due>>

LongOverdue == since > KeepAlive                     \* mutant: > for >=
Overdue == since >= KeepAlive

Ticked ==
  /\ loop = "select" /\ due = 1
  /\ due' = 0
  /\ since' = IF Overdue THEN 0 ELSE since
  /\ quiet' = IF Overdue THEN 0 ELSE quiet
  /\ UNCHANGED <<stream, finale, readerVars, loopVars, away, phase, pause>>

\* The handler writes what is left to write, unless the client is gone, and
\* returns: the server cancels the request's context.
Close ==
  /\ loop = "returned" /\ loop' = "closed"
  /\ UNCHANGED <<stream, finale, readerVars, result, seen, away, clockVars>>

Leave ==
  /\ loop # "closed" /\ ~away /\ away' = TRUE
  /\ UNCHANGED <<stream, finale, readerVars, loopVars, clockVars>>

Tick ==
  /\ loop = "select" /\ channel = << >> /\ due = 0 /\ ~away
  /\ since' = since + 1 /\ quiet' = quiet + 1
  /\ pause' = IF pause < 2 * KeepAlive THEN pause + 1 ELSE pause
  /\ phase' = IF phase + 1 = KeepAlive THEN 0 ELSE phase + 1
  /\ due'   = IF phase + 1 = KeepAlive THEN 1 ELSE 0
  /\ UNCHANGED <<stream, finale, readerVars, loopVars, away>>

ReaderStep == Read \/ Send
LoopStep   == Cancelled \/ ReadFailed \/ Event \/ Ticked \/ Close
PacerNext  == ReaderStep \/ LoopStep \/ Leave \/ Tick

-----------------------------------------------------------------------------
PacerTypeOK ==
  /\ next \in 0 .. Len(stream)
  /\ reader \in {"reading", "sending", "gone"}
  /\ channel \in Seq({stream[i] : i \in 1 .. Len(stream)} \cup Failures)
  /\ Len(channel) <= Capacity
  /\ loop \in {"idle", "select", "returned", "closed"}
  /\ away \in BOOLEAN /\ due \in {0, 1}
  /\ {since, quiet, pause} \subseteq Nat /\ phase \in 0 .. KeepAlive - 1

\* stream_pacer.go:36-39, one goroutine parses and another one writes: the handler
\* sees the upstream's events in their order, none twice and none left out.
EventsInOrder ==
  \A i \in 1 .. Len(seen) : i \in DOMAIN stream /\ seen[i] = stream[i]

\* stream_pacer.go:31 "Emitting a `: keepalive` SSE comment line every `keepAlive`
\* duration when no real frame has been written by the handler": the client of
\* an open stream is never left without a byte for two of the intervals.  The code
\* does not ensure it: an event for which the handler writes nothing resets the
\* clock as one that is written does.
ClientKeptAlive == loop = "select" => quiet < 2 * KeepAlive

\* stream_pacer.go:24 "or any phase where qwen.ai pauses output": what it does
\* ensure is that in a pause of the upstream of two intervals and more, whatever
\* came before it and however the ticker stood to it, the client is written to.
PausesBridged == loop = "select" => quiet < 2 * KeepAlive \/ pause < 2 * KeepAlive

\* No goroutine stays behind a request that is over, unless it is stuck on the
\* full channel that nobody empties any more.
ReaderLeaves == loop = "closed" ~> reader = "gone" \/ Len(channel) = Capacity

=============================================================================
