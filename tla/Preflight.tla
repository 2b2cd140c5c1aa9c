----------------------------- MODULE Preflight -----------------------------
(***************************************************************************)
(* internal/server/stream_pacer.go, preflightChatIDReuseDebug: look into   *)
(* the stream a cached chat answers with, before the client sees anything, *)
(* and either call it empty or hand the handler a body that starts over.   *)
(*                                                                         *)
(* The body is a sequence of lines; a line has a kind and a size in units  *)
(* of bytes, the smallest long enough to hold "data:".  The bufio.Scanner  *)
(* under qwen.StreamReader reads as much as its buffer has room for, a     *)
(* capturedReader keeps the first Cap units of what it reads, and the      *)
(* replay is what was kept followed by what was not yet read: units read   *)
(* past Cap are in neither.  Lines past the scanner's 32 MiB are left out. *)
(***************************************************************************)
EXTENDS Naturals, Sequences, FiniteSets, Sieve

CONSTANTS
  Bodies,      \* the bodies an upstream may send: sequences of lines
  Endings,     \* how they end, of "eof", "error" and "stall"
  Cap,         \* maxBufferBytes, 64 KiB
  Buffer,      \* the scanner's buffer before it grows, 64 KiB as well
  MaxEvents    \* maxEvents, 6

\* What Next makes no event of.
Skipped == {"junk", "space"}

Kinds == {"answer",             \* a delta with content
          "think", "thinkMore", \* the first delta of a thinking block, and those after it
          "blank", "finish",    \* a delta without content; with finish_reason
          "done", "comment",    \* [DONE]; an SSE comment
          "malformed",          \* a data line whose JSON does not parse: an event
          "junk", "space"}      \* a line that is not SSE, or white space only: Next skips both

ASSUME PreflightAssumption ==
  /\ Bodies \subseteq Seq([kind : Kinds, size : Nat \ {0}])
  /\ Endings \subseteq {"eof", "error", "stall"}
  /\ {Cap, Buffer, MaxEvents} \subseteq Nat \ {0}

VARIABLES
  body, ending,   \* what the upstream sends, and how it ends
  pos,            \* units read from it
  taken,          \* lines the scanner has handed out
  base, room,     \* where the scanner's buffer begins, and its size
  saw,            \* kinds of the events seen so far: sawContent, sawFinish, sawDone
  events,         \* their number
  verdict         \* "looking", "stopped", then "empty" or "replay"; "failed": a replay after
                  \* a read error; "fresh": not looked into

preflightVars == <<body, ending, pos, taken, base, room, saw, events, verdict>>

\* The units of the first n lines.
Until(n) ==
  LET units[k \in 0 .. Len(body)] == IF k = 0 THEN 0 ELSE units[k - 1] + body[k].size
  IN units[n]
Total == Until(Len(body))

Smaller(a, b) == IF a < b THEN a ELSE b

NothingKept == 0                                          \* mutant: the body itself is handed on

\* What capturedReader has put aside: the first units only.
Captured == Smaller(pos, Cap)

IsContent(kind) == kind \in {"answer", "think", "thinkMore"}

-----------------------------------------------------------------------------
PreflightInit ==
  /\ body \in Bodies /\ ending \in Endings
  /\ pos = 0 /\ taken = 0 /\ base = 0 /\ room = Buffer
  /\ saw = {} /\ events = 0
  /\ verdict \in {"looking", "fresh"}

LineReady == taken < Len(body) /\ Until(taken + 1) <= pos

\* Scanner.Scan without a whole line: the buffer slides when it is full or half
\* consumed, doubles when it is still full, and takes what the connection has.
ReadMore ==
  /\ verdict = "looking" /\ ~LineReady /\ pos < Total
  /\ LET start  == Until(taken) - base
         slides == start > 0 /\ (pos - base = room \/ 2 * start > room)
         from   == IF slides THEN base + start ELSE base
         size   == IF pos - from = room THEN 2 * room ELSE room
     IN /\ base' = from /\ room' = size
        /\ pos' \in pos + 1 .. Smaller(from + size, Total)
  /\ UNCHANGED <<body, ending, taken, saw, events, verdict>>

\* Whether the loop ends with an event of this kind: it settles the question, it
\* is the last one looked at, or it is a delta and the capture is full.
Stops(kind) ==
  \/ IsContent(kind) \/ kind = "done"
  \/ events + 1 = MaxEvents
  \/ kind \in {"blank", "finish"} /\ Captured = Cap

\* Next hands out a line, unless it is not SSE.
TakeLine ==
  /\ verdict = "looking" /\ LineReady
  /\ taken' = taken + 1
  /\ LET kind == body[taken + 1].kind
     IN IF kind \in Skipped
        THEN UNCHANGED <<saw, events, verdict>>
        ELSE /\ saw' = saw \cup {kind} /\ events' = events + 1
             /\ verdict' = IF Stops(kind) THEN "stopped" ELSE "looking"
  /\ UNCHANGED <<body, ending, pos, base, room>>

\* The body is at its end.  A read error is left to the handler to find again.
Exhaust ==
  /\ verdict = "looking" /\ taken = Len(body)
  /\ \/ ending = "eof" /\ verdict' = "stopped"
     \/ ending = "error" /\ verdict' = "failed"
  /\ UNCHANGED <<body, ending, pos, taken, base, room, saw, events>>

NoContent == \A kind \in saw : ~IsContent(kind)            \* mutant: the absence of content is enough

\* "events == 0 && len(bytes.TrimSpace(bodyBytes)) > 0"
NonSSEPayload ==
  events = 0 /\ \E i \in 1 .. Len(body) : body[i].kind # "space" /\ Until(i - 1) < Captured

\* "!sawContent && (sawFinish || sawDone || nonSSEPayload)"
LooksEmpty ==
  /\ \A kind \in saw : ~IsContent(kind)
  /\ "finish" \in saw \/ "done" \in saw \/ NonSSEPayload

Decide ==
  /\ verdict = "stopped"
  /\ verdict' = IF LooksEmpty THEN "empty" ELSE "replay"
  /\ UNCHANGED <<body, ending, pos, taken, base, room, saw, events>>

PreflightNext == ReadMore \/ TakeLine \/ Exhaust \/ Decide

-----------------------------------------------------------------------------
\* The events a StreamReader makes of some lines.
EventsOf(lines) == Only([i \in 1 .. Len(lines) |-> lines[i].kind], Kinds \ Skipped)

\* Lines that end at or before a unit, and lines that begin before it.
Ended(unit) == Cardinality({i \in 1 .. Len(body) : Until(i) <= unit})
Begun(unit) == Cardinality({i \in 1 .. Len(body) : Until(i - 1) < unit})

\* replayBody: the captured units run on into the unread ones.  A line cut off by
\* the cap is joined to the rest of the line being read, or to the next one, and
\* no longer parses; a rest of a line on its own is not SSE.
Replayed ==
  LET cut  == Begun(Captured) > Ended(Captured)
      torn == Begun(pos) > Ended(pos)
      line == body[Ended(Captured) + 1]
      stub == IF Captured = pos \/ line.kind \in Skipped \cup {"comment"} THEN line
              ELSE [line EXCEPT !.kind = "malformed"]
      rest == Begun(pos) + (IF cut /\ ~torn THEN 2 ELSE 1)
  IN SubSeq(body, 1, Ended(Captured)) \o (IF cut THEN <<stub>> ELSE << >>)
       \o SubSeq(body, rest, Len(body))

Sent       == EventsOf(body)
Downstream == EventsOf(IF verdict \in {"replay", "failed"} THEN Replayed ELSE body)

-----------------------------------------------------------------------------
PreflightTypeOK ==
  /\ body \in Bodies /\ ending \in Endings
  /\ pos \in 0 .. Total /\ taken \in 0 .. Len(body)
  /\ base \in 0 .. pos /\ room \in Nat /\ pos <= base + room
  /\ saw \subseteq Kinds /\ events \in 0 .. MaxEvents
  /\ verdict \in {"looking", "stopped", "empty", "replay", "failed", "fresh"}

\* stream_pacer.go:207-220, however the connection cuts the body into reads: a
\* stream is called empty, and the request tried again, only if it holds no
\* content; and one whose first MaxEvents events are small and hold an end but
\* no content is called so.
PreflightExact ==
  LET short == SubSeq(Sent, 1, Smaller(MaxEvents, Len(Sent)))
  IN /\ verdict = "empty" => \A i \in 1 .. Len(Sent) : ~IsContent(Sent[i])
     /\ verdict = "replay" /\ Captured < Cap =>
          \/ \E i \in 1 .. Len(short) : IsContent(short[i])
          \/ \A i \in 1 .. Len(short) : short[i] \notin {"finish", "done"}

=============================================================================
