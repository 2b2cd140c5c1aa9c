----------------------------- MODULE ChatStream -----------------------------
(***************************************************************************)
(* The chat.completion.chunk stream of internal/server/chat.go: reasoning  *)
(* goes out as it comes, text too when the request has no tools; with      *)
(* tools the text is held back far enough that no part of a "<tool_call"   *)
(* goes out, and from the first one on it is kept until the upstream ends  *)
(* and the calls in it are known, a truncated one after asking the         *)
(* upstream to go on.                                                      *)
(***************************************************************************)
EXTENDS ToolText

VARIABLES
  chat,   \* the stream
  once    \* the answer to a request that wants no stream

\* Deltas of content and of reasoning, calls, and the finish reason of the last chunk.
Silence == [reasoning |-> <<>>, content |-> <<>>, calls |-> <<>>, finish |-> "none"]

ChatInit(hasTools, multiFormat) ==
  chat = [at |-> "reading", hasTools |-> hasTools, multiFormat |-> multiFormat,
          full |-> <<>>, emittedLen |-> 0, triggered |-> FALSE, upstreamFinish |-> "stop",
          resolving |-> <<>>, round |-> 0, truncated |-> FALSE, out |-> Silence]

TextBeforeTools(c) == SubSeq(c.full, 1, ToolCallStart(c.full))

\* proxyStreamDirect, an event with a choice: the reply goes out as it is.  The
\* upstream's finish reason is kept for the last chunk.
DirectEvent(evt) ==
  /\ chat.at = "reading" /\ ~ chat.hasTools
  /\ chat' = IF evt.phase = "think"
             THEN [chat EXCEPT !.out.reasoning = @ \o evt.cells]
             ELSE [chat EXCEPT !.out.content = @ \o evt.cells, !.full = @ \o evt.cells,
                               !.upstreamFinish = IF evt.finish = "none" THEN @ ELSE evt.finish]

\* Mutant of Safe: holds nothing back.
AllOfIt(full, emittedLen) ==
  IF Len(full) - emittedLen >= Marker THEN Len(full) ELSE emittedLen

\* What may go out of the text so far: all but the last Marker cells, and nothing
\* before Marker new ones came.
Safe(full, emittedLen) ==
  IF Len(full) - emittedLen >= Marker THEN Len(full) - Marker ELSE emittedLen

\* proxyStreamWithToolDetection, an event with a choice.
ToolEvent(evt) ==
  LET full == chat.full \o evt.cells
      enough == Len(full) - chat.emittedLen >= Marker
      safe == Safe(full, chat.emittedLen)
  IN /\ chat.at = "reading" /\ chat.hasTools
     /\ \/ /\ evt.phase = "think"
           /\ chat' = [chat EXCEPT !.out.reasoning = @ \o evt.cells]
        \/ /\ evt.phase # "think" /\ chat.triggered
           /\ chat' = [chat EXCEPT !.full = full]
        \/ /\ evt.phase # "think" /\ ~ chat.triggered
           /\ enough /\ ToolCallStart(full) < Len(full)
           /\ chat' = [chat EXCEPT !.full = full, !.triggered = TRUE]
        \/ /\ evt.phase # "think" /\ ~ chat.triggered
           /\ ~ (enough /\ ToolCallStart(full) < Len(full))
           /\ chat' = [chat EXCEPT !.full = full, !.emittedLen = safe,
                                   !.out.content = @ \o SubSeq(full, chat.emittedLen + 1, safe)]

ChatEvent(evt) == DirectEvent(evt) \/ ToolEvent(evt)

\* Without tools the last chunk says how the upstream finished, or "length" when it broke.
DirectEnd(how) ==
  /\ chat.at = "reading" /\ ~ chat.hasTools
  /\ chat' = [chat EXCEPT !.at = "done",
                          !.out.finish = IF how = "error" THEN "length" ELSE chat.upstreamFinish]

\* Mutant of ToolReply: what follows a marker is dropped though no call was found.
MarkerDropsTheRest(c, calls) ==
  LET kept == SubSeq(c.full, c.emittedLen + 1, ToolCallStart(c.full))
      toks == Lex(c.full)
  IN [c.out EXCEPT !.content = @ \o kept, !.calls = calls,
                   !.finish = CASE calls # <<>> -> "tool_calls"
                                [] calls = <<>> /\ (HasUnclosedToolCall(toks) \/ SawToolMarker(toks)
                                                     \/ c.truncated) -> "length"
                                [] OTHER -> "stop"]

\* With calls: what was kept of the text before the first marker, the calls, and
\* "tool_calls"; without: all that was kept, and "length" when a marker was seen or
\* the stream broke.
ToolReply(c, calls) ==
  LET kept == SubSeq(c.full, c.emittedLen + 1, IF calls = <<>> THEN Len(c.full) ELSE ToolCallStart(c.full))
      toks == Lex(c.full)
  IN [c.out EXCEPT !.content = @ \o (IF calls = <<>> THEN kept ELSE TrimRight(kept)),
                   !.calls = calls,
                   !.finish = CASE calls # <<>> -> "tool_calls"
                                [] calls = <<>> /\ (HasUnclosedToolCall(toks) \/ SawToolMarker(toks)
                                                     \/ c.truncated) -> "length"
                                [] OTHER -> "stop"]

\* A reply that begins a call it does not end, or hints at one that does not parse,
\* is continued before it is answered.
NeedsContinuation(c) ==
  LET toks == Lex(c.full)
  IN \/ HasUnclosedToolCall(toks)
     \/ SawToolMarker(toks) /\ ParseWithFormats(c.full, c.multiFormat).calls = <<>>

ToolEnd(how) ==
  LET c == [chat EXCEPT !.truncated = (how = "error")]
  IN /\ chat.at = "reading" /\ chat.hasTools
     /\ chat' = IF NeedsContinuation(c)
                THEN [c EXCEPT !.at = "resolving", !.resolving = c.full]
                ELSE [c EXCEPT !.at = "done", !.out = ToolReply(c, ParseWithFormats(c.full, c.multiFormat).calls)]

ChatEnd(how) == DirectEnd(how) \/ ToolEnd(how)

\* ResolveTruncatedToolCall asks for the rest while a block is open, at most
\* MaxContinuationRounds times; a failed or blank answer ends it.
ContinueOnce(reply) ==
  LET more == drainStreamToText(reply)
  IN
  /\ chat.at = "resolving"
  /\ chat.round < MaxContinuationRounds
  /\ HasUnclosedToolCall(Lex(chat.resolving))
  /\ IF TrimSpace(more) = <<>>
     THEN chat' = [chat EXCEPT !.round = MaxContinuationRounds]
     ELSE chat' = [chat EXCEPT !.round = @ + 1, !.resolving = Join(@, more)]

\* The joined text's calls are taken when it has some and closes its blocks, else
\* those of the reply as it was.
Resolved ==
  LET joined == ParseWithFormats(chat.resolving, chat.multiFormat).calls
      asItWas == ParseWithFormats(chat.full, chat.multiFormat).calls
  IN /\ chat.at = "resolving"
     /\ chat.round = MaxContinuationRounds \/ ~ HasUnclosedToolCall(Lex(chat.resolving))
     /\ chat' = [chat EXCEPT !.at = "done",
                             !.out = ToolReply(chat, IF joined # <<>> /\ ~ HasUnclosedToolCall(Lex(chat.resolving))
                                                     THEN joined ELSE asItWas)]

\* The client is gone: nothing more is written.
ChatGone == chat.at = "reading" /\ chat' = [chat EXCEPT !.at = "gone"]

-----------------------------------------------------------------------------
\* A reply that ends thinking gets a closing </think> in its text; "p" stands for it.
Gathered(full, endsThinking) == full \o (IF endsThinking THEN <<"p">> ELSE <<>>)

Completion(answer, finishReason) ==
  [Silence EXCEPT !.content = answer.text, !.calls = answer.calls,
                  !.finish = IF answer.calls # <<>> THEN "tool_calls" ELSE finishReason]

\* collectChatCompletion: the whole reply in one answer; an upstream error makes the
\* request fail.
collectChatCompletion(content, how, finishReason) ==
  IF how = "error" THEN [Silence EXCEPT !.finish = "error"]
  ELSE Completion(Reply(content, once.hasTools, once.multiFormat), finishReason)

CONSTANT continuationAttempts  \* Retry.MaxAttempts, at least 1

ASSUME AttemptsAssumption == continuationAttempts \in Nat \ {0}

OnceInit(hasTools, multiFormat) ==
  once = [at |-> "reading", hasTools |-> hasTools, multiFormat |-> multiFormat,
          fullContent |-> <<>>, attempt |-> 1, resp |-> Silence]

\* Mutant of Collected: the last attempt is answered though it ends inside a call.
LastOneAnswers(attempt, content, how, finishReason) ==
  LET again == once.hasTools /\ isTruncatedToolCallContent(content) /\ attempt < continuationAttempts
  IN once' = [once EXCEPT !.attempt = attempt, !.fullContent = content,
                          !.resp = collectChatCompletion(content, how, finishReason),
                          !.at = CASE how = "error" -> "failed"
                                   [] how # "error" /\ again -> "continuing"
                                   [] OTHER -> "answered"]

\* A reply collected on some attempt: an error is answered with 502, content that ends
\* a tool call short is asked for again until the attempts are used up, anything else
\* is the answer, in place of what the attempts before brought.
Collected(attempt, content, how, finishReason) ==
  LET resp == collectChatCompletion(content, how, finishReason)
      truncated == once.hasTools /\ isTruncatedToolCallContent(content)
  IN once' = [once EXCEPT !.attempt = attempt, !.fullContent = content, !.resp = resp,
                          !.at = CASE how = "error" -> "failed"
                                   [] how # "error" /\ truncated ->
                                        IF attempt < continuationAttempts THEN "continuing" ELSE "failed"
                                   [] OTHER -> "answered"]

OnceEnd(full, endsThinking, how, finishReason) ==
  once.at = "reading" /\ Collected(1, Gathered(full, endsThinking), how, finishReason)

\* The same chat asked to go on; its answer may be an error.
CollectAgain(reply) ==
  /\ once.at = "continuing"
  /\ \E how \in {"eof", "error"} :
       Collected(once.attempt + 1, drainStreamToText(reply), how, "stop")

OnceGone == once.at = "reading" /\ once' = [once EXCEPT !.at = "gone"]

=============================================================================
