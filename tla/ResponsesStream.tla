-------------------------- MODULE ResponsesStream --------------------------
(***************************************************************************)
(* The Responses API stream of internal/server/responses_handler.go: the   *)
(* reply in output items, reasoning, message and function calls, each      *)
(* added, filled and done under an output index.  out is what the client   *)
(* was sent, item event by item event.                                     *)
(***************************************************************************)
EXTENDS ToolText

VARIABLE responses

ResponsesInit(hasTools, multiFormat) ==
  responses = [at |-> "reading", hasTools |-> hasTools, multiFormat |-> multiFormat,
               full |-> <<>>, thinking |-> <<>>, emittedLen |-> 0, triggered |-> FALSE,
               inThinking |-> FALSE, thinkingStarted |-> FALSE, thinkingDone |-> FALSE,
               messageStarted |-> FALSE, outputIdx |-> 0, doneText |-> <<>>,
               status |-> "in_progress", out |-> <<>>]

ItemEvent(type, idx, kind, data) == [type |-> type, idx |-> idx, kind |-> kind, data |-> data]

Send(r, events) == [r EXCEPT !.out = @ \o events]

startReasoningItem(r) ==
  IF r.thinkingStarted THEN r
  ELSE [Send(r, <<ItemEvent("start", r.outputIdx, "reasoning", <<>>)>>) EXCEPT !.thinkingStarted = TRUE]

\* Mutant of closeReasoningItem: the output index stays.
IndexStays(r) ==
  IF ~ r.thinkingStarted \/ r.thinkingDone THEN r
  ELSE [Send(r, <<ItemEvent("delta", r.outputIdx, "reasoning", r.thinking),
                  ItemEvent("stop", r.outputIdx, "reasoning", <<>>)>>) EXCEPT !.thinkingDone = TRUE]

\* The reasoning text is sent whole when its item is done.
closeReasoningItem(r) ==
  IF ~ r.thinkingStarted \/ r.thinkingDone THEN r
  ELSE [Send(r, <<ItemEvent("delta", r.outputIdx, "reasoning", r.thinking),
                  ItemEvent("stop", r.outputIdx, "reasoning", <<>>)>>)
          EXCEPT !.thinkingDone = TRUE, !.outputIdx = @ + 1]

startMessageItem(r) ==
  LET s == closeReasoningItem(r)
  IN IF r.messageStarted THEN r
     ELSE [Send(s, <<ItemEvent("start", s.outputIdx, "message", <<>>)>>) EXCEPT !.messageStarted = TRUE]

sendTextDelta(r, cells) ==
  LET s == startMessageItem(r)
  IN IF cells = <<>> THEN r ELSE Send(s, <<ItemEvent("delta", s.outputIdx, "message", cells)>>)

\* Mutant of Holdback: nothing of a tag is held back.
NotATag(multiFormat) == 0

\* Held back: the longest tag to look out for.
Holdback(multiFormat) == Len(Spelling[IF multiFormat THEN "F" ELSE "O"])

ShowsTag(text, multiFormat) ==
  LET At(tag) == \E k \in 1 .. Len(text) : IsPrefix(tag, SubSeq(text, k, Len(text)))
  IN At(Spelling["O"]) \/ (multiFormat /\ At(Spelling["F"]))

\* The text after an event that brought some.
MessageText(r, cells) ==
  LET s == [r EXCEPT !.full = @ \o cells]
      safe == Len(s.full) - Holdback(r.multiFormat)
  IN CASE ~ r.hasTools -> [sendTextDelta(s, cells) EXCEPT !.emittedLen = Len(s.full)]
       [] r.hasTools /\ ~ r.triggered /\ ShowsTag(s.full, r.multiFormat) -> [s EXCEPT !.triggered = TRUE]
       [] r.hasTools /\ ~ r.triggered /\ ~ ShowsTag(s.full, r.multiFormat) /\ safe > r.emittedLen ->
            [sendTextDelta(s, SubSeq(s.full, r.emittedLen + 1, safe)) EXCEPT !.emittedLen = safe]
       [] OTHER -> s

\* An event with a choice.  The upstream's finish reason is not looked at.
ResponsesEvent(evt) ==
  LET thought == [(IF responses.inThinking THEN responses ELSE startReasoningItem(responses))
                    EXCEPT !.inThinking = TRUE, !.thinking = @ \o evt.cells]
      quiet == [responses EXCEPT !.inThinking = @ /\ evt.phase # "answer"]
  IN /\ responses.at = "reading"
     /\ responses' = CASE evt.phase = "think" -> thought
                       [] evt.phase # "think" /\ evt.cells = <<>> -> quiet
                       [] OTHER -> MessageText(quiet, evt.cells)

\* The function calls, an item each after the message's.
CallItems(r, calls) ==
  LET Item(k) == <<ItemEvent("start", r.outputIdx + k - 1, "function_call", <<>>),
                   ItemEvent("delta", r.outputIdx + k - 1, "function_call", <<calls[k]>>),
                   ItemEvent("stop", r.outputIdx + k - 1, "function_call", <<>>)>>
  IN [Send(r, FlattenSeq([k \in DOMAIN calls |-> Item(k)])) EXCEPT !.outputIdx = @ + Len(calls)]

\* The text beyond emittedLen goes out, the message is done with the whole text, the
\* calls follow.
RestOfText(r, text) == startMessageItem(sendTextDelta(r, SubSeq(text, r.emittedLen + 1, Len(text))))
MessageDone(r, text) ==
  [Send(r, <<ItemEvent("stop", r.outputIdx, "message", <<>>)>>)
     EXCEPT !.outputIdx = @ + 1, !.doneText = text]
ItemsDone(r, answer) ==
  [CallItems(MessageDone(RestOfText(r, answer.text), answer.text), answer.calls) EXCEPT !.at = "done"]

\* Mutant of ResponsesEnd: a broken stream is completed like a whole one.
AlwaysCompleted(how) ==
  LET r == [closeReasoningItem(responses) EXCEPT !.inThinking = FALSE]
  IN /\ responses.at = "reading"
     /\ responses' = [ItemsDone(r, Reply(responses.full, responses.hasTools, responses.multiFormat))
                        EXCEPT !.status = "completed"]

\* The upstream ended or broke: the reasoning is closed first.
ResponsesEnd(how) ==
  LET r == IF responses.inThinking \/ responses.thinkingStarted
           THEN [closeReasoningItem(responses) EXCEPT !.inThinking = FALSE] ELSE responses
  IN /\ responses.at = "reading"
     /\ responses' = [ItemsDone(r, Reply(responses.full, responses.hasTools, responses.multiFormat))
                        EXCEPT !.status = IF how = "error" THEN "incomplete" ELSE "completed"]

ResponsesGone == responses.at = "reading" /\ responses' = [responses EXCEPT !.at = "gone"]

-----------------------------------------------------------------------------
\* collectResponsesCompletion: the whole reply in one answer; an upstream error makes
\* the request fail.
collectResponsesCompletion(thinking, full, hasTools, multiFormat, how) ==
  LET answer == Reply(full, hasTools, multiFormat)
  IN [thinking |-> thinking, text |-> answer.text, calls |-> answer.calls,
      status |-> IF how = "error" THEN "error" ELSE "completed"]

=============================================================================
