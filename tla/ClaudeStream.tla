---------------------------- MODULE ClaudeStream ----------------------------
(***************************************************************************)
(* The Claude Messages stream of internal/server/claude_handler.go: the    *)
(* reply in content blocks, each started, filled and stopped under an      *)
(* index.  out is what the client was sent, block event by block event.    *)
(***************************************************************************)
EXTENDS ToolText

VARIABLE claude

ClaudeInit(hasTools, multiFormat) ==
  claude = [at |-> "reading", hasTools |-> hasTools, multiFormat |-> multiFormat,
            full |-> <<>>, emittedLen |-> 0, triggered |-> FALSE, inThinking |-> FALSE,
            thinkingStarted |-> FALSE, textStarted |-> FALSE, textBlockIdx |-> 0,
            stopReason |-> "end_turn", out |-> <<>>]

BlockEvent(type, idx, kind, data) == [type |-> type, idx |-> idx, kind |-> kind, data |-> data]

Emit(c, events) == [c EXCEPT !.out = @ \o events]

startThinkingBlock(c) ==
  IF c.thinkingStarted THEN c
  ELSE [Emit(c, <<BlockEvent("start", 0, "thinking", <<>>)>>) EXCEPT !.thinkingStarted = TRUE]

emitThinkingDelta(c, cells) ==
  IF cells = <<>> THEN c
  ELSE Emit(startThinkingBlock(c), <<BlockEvent("delta", 0, "thinking", cells)>>)

\* Mutant of stopThinkingBlock: the text block keeps the thinking block's index.
SameIndex(c) ==
  IF ~ c.thinkingStarted THEN c
  ELSE [Emit(c, <<BlockEvent("stop", 0, "thinking", <<>>)>>) EXCEPT !.thinkingStarted = FALSE]

\* The text block comes after the thinking block that is closed.
stopThinkingBlock(c) ==
  IF ~ c.thinkingStarted THEN c
  ELSE [Emit(c, <<BlockEvent("stop", 0, "thinking", <<>>)>>)
          EXCEPT !.thinkingStarted = FALSE, !.textBlockIdx = 1]

startTextBlock(c) ==
  LET d == stopThinkingBlock(c)
  IN IF c.textStarted THEN c
     ELSE [Emit(d, <<BlockEvent("start", d.textBlockIdx, "text", <<>>)>>) EXCEPT !.textStarted = TRUE]

emitTextDelta(c, cells) ==
  LET d == startTextBlock(c)
  IN IF cells = <<>> THEN c ELSE Emit(d, <<BlockEvent("delta", d.textBlockIdx, "text", cells)>>)

stopTextBlock(c) ==
  IF ~ c.textStarted THEN c
  ELSE [Emit(c, <<BlockEvent("stop", c.textBlockIdx, "text", <<>>)>>) EXCEPT !.textStarted = FALSE]

\* Mutant of AnswerText: once a marker was seen the text is gathered no more.
StopsGathering(c, cells) ==
  LET d == [c EXCEPT !.full = @ \o cells]
      safe == Len(d.full) - Marker
  IN CASE ~ c.hasTools -> [emitTextDelta(d, cells) EXCEPT !.emittedLen = Len(d.full)]
       [] c.triggered -> c
       [] c.hasTools /\ ~ c.triggered /\ ToolCallStart(d.full) < Len(d.full) -> [d EXCEPT !.triggered = TRUE]
       [] c.hasTools /\ ~ c.triggered /\ ToolCallStart(d.full) = Len(d.full) /\ safe > c.emittedLen ->
            [emitTextDelta(d, SubSeq(d.full, c.emittedLen + 1, safe)) EXCEPT !.emittedLen = safe]
       [] OTHER -> d

\* The text after an event: all of it goes out without tools, all but the last
\* Marker cells with tools and before a marker.
AnswerText(c, cells) ==
  LET d == [c EXCEPT !.full = @ \o cells]
      safe == Len(d.full) - Marker
  IN CASE ~ c.hasTools -> [emitTextDelta(d, cells) EXCEPT !.emittedLen = Len(d.full)]
       [] c.hasTools /\ ~ c.triggered /\ ToolCallStart(d.full) < Len(d.full) ->
            [d EXCEPT !.triggered = TRUE]
       [] c.hasTools /\ ~ c.triggered /\ ToolCallStart(d.full) = Len(d.full) /\ safe > c.emittedLen ->
            [emitTextDelta(d, SubSeq(d.full, c.emittedLen + 1, safe)) EXCEPT !.emittedLen = safe]
       [] OTHER -> d

StopReason(finish) ==
  CASE finish = "length" -> "max_tokens" [] finish = "tool_calls" -> "tool_use" [] OTHER -> "end_turn"

\* An event with a choice.  Only the phases "answer" and "" end the thinking.
ClaudeEvent(evt) ==
  LET quiet == IF claude.inThinking /\ evt.phase = "answer"
               THEN [stopThinkingBlock(claude) EXCEPT !.inThinking = FALSE] ELSE claude
  IN /\ claude.at = "reading"
     /\ claude' = IF evt.phase = "think"
                  THEN [emitThinkingDelta(claude, evt.cells) EXCEPT !.inThinking = TRUE]
                  ELSE [AnswerText(quiet, evt.cells)
                          EXCEPT !.stopReason = IF evt.finish = "none" THEN @ ELSE StopReason(evt.finish)]

\* The text of a reply with calls, cleaned of them, goes out less what went before:
\* from where emittedLen falls in it, or whole when emittedLen falls outside it.
CleanText(c, cleanText) ==
  LET begun == startTextBlock(c)
      unsent == IF c.emittedLen > 0 /\ c.emittedLen < Len(cleanText)
                THEN SubSeq(cleanText, c.emittedLen + 1, Len(cleanText)) ELSE cleanText
  IN CASE cleanText = <<>> -> stopTextBlock(c)
       [] cleanText # <<>> /\ cleanText = SubSeq(c.full, 1, c.emittedLen) -> stopTextBlock(begun)
       [] OTHER -> stopTextBlock(Emit(begun, <<BlockEvent("delta", begun.textBlockIdx, "text", unsent)>>))

\* Each call is a block of its own, numbered from the text block's index when there
\* is no clean text and from the next when there is.
ToolBlocks(c, cleanText, calls) ==
  LET from == IF cleanText = <<>> THEN c.textBlockIdx ELSE c.textBlockIdx + 1
      Block(k) == <<BlockEvent("start", from + k - 1, "tool_use", <<>>),
                    BlockEvent("delta", from + k - 1, "tool_use", <<calls[k]>>),
                    BlockEvent("stop", from + k - 1, "tool_use", <<>>)>>
  IN Emit(c, FlattenSeq([k \in DOMAIN calls |-> Block(k)]))

\* The upstream ended or broke: open blocks are closed, calls sent, and the message
\* gets its stop reason.  The Continuer the handler was given is not asked.
BlocksDone(c, answer) ==
  CASE answer.calls # <<>> ->
         [ToolBlocks(CleanText(c, answer.text), answer.text, answer.calls) EXCEPT !.stopReason = "tool_use"]
    [] answer.calls = <<>> /\ c.hasTools ->
         stopTextBlock(emitTextDelta(c, SubSeq(c.full, c.emittedLen + 1, Len(c.full))))
    [] OTHER -> stopTextBlock(c)

ClaudeEnd(how) ==
  LET c == stopThinkingBlock([claude EXCEPT !.inThinking = FALSE,
                                            !.stopReason = IF how = "error" THEN "max_tokens" ELSE @])
  IN /\ claude.at = "reading"
     /\ claude' = [BlocksDone(c, Reply(claude.full, claude.hasTools, claude.multiFormat)) EXCEPT !.at = "done"]

ClaudeGone == claude.at = "reading" /\ claude' = [claude EXCEPT !.at = "gone"]

-----------------------------------------------------------------------------
ClaudeMessage(thinking, answer, finish) ==
  [thinking |-> thinking, text |-> answer.text, calls |-> answer.calls,
   stopReason |-> IF answer.calls # <<>> THEN "tool_use" ELSE StopReason(finish)]

\* Mutant of aggregateClaudeResponse: calls are looked for in a request without tools.
ToolsUnasked(thinking, full, hasTools, multiFormat, finish) ==
  ClaudeMessage(thinking, Reply(full, TRUE, multiFormat), finish)

\* aggregateClaudeResponse: the whole reply in one answer.  A read error ends the
\* reading like the end of the stream does.  Text goes in with calls when there is
\* some, and alone when there is no block but the thinking.
aggregateClaudeResponse(thinking, full, hasTools, multiFormat, finish) ==
  ClaudeMessage(thinking, Reply(full, hasTools, multiFormat), finish)

=============================================================================
