---------------------------- MODULE ReplyStreams ----------------------------
(***************************************************************************)
(* One upstream reply given to the three streaming handlers, event by      *)
(* event, whatever its text and however it is cut into events: what the    *)
(* clients of the chat, Claude and Responses APIs make of the same words.  *)
(* The upstream may end or break after any event, a client leave before    *)
(* any, and what it answers to a continuation is any of Continuations.     *)
(***************************************************************************)
EXTENDS ChatStream, ClaudeStream, ResponsesStream

CONSTANTS
  Bodies,         \* replies: sequences of cells, a thought written "t"
  Continuations,  \* answers to a continuation
  Width,          \* most cells in an event
  Features        \* pairs of hasTools and MultiFormatToolParsing

ASSUME WidthAssumption == Width \in Nat \ {0}
ASSUME BodiesAssumption == Bodies \subseteq Seq(Cell \union {"t"})
ASSUME FeaturesAssumption == Features \subseteq BOOLEAN \X BOOLEAN

VARIABLES body, read, ending, finish

vars == <<chat, once, claude, responses, body, read, ending, finish>>

Init ==
  /\ body \in Bodies
  /\ read = 0 /\ ending = "none" /\ finish = "none"
  /\ \E f \in Features : /\ ChatInit(f[1], f[2])
                         /\ OnceInit(f[1], f[2])
                         /\ ClaudeInit(f[1], f[2])
                         /\ ResponsesInit(f[1], f[2])

\* The text among the first cells of the reply, for any number of them; the text
\* read so far, and all of it.
Texts ==
  LET text[n \in 0 .. Len(body)] ==
        IF n = 0 THEN <<>> ELSE IF body[n] = "t" THEN text[n - 1] ELSE Append(text[n - 1], body[n])
  IN text
TextRead == Texts[read]
WholeText == Texts[Len(body)]

Thought(cells) == ToSet(cells) \subseteq {"t"}
Answer(cells) == "t" \notin ToSet(cells)

\* A delta of the reply: thoughts come under the phase "think", the rest under
\* "answer", "", or, where it matters, after thoughts, one the handlers do not know.
Deliver ==
  /\ ending = "none" /\ finish = "none"
  /\ \E n \in 1 .. Width, phase \in {"think", "answer", "other"} :
       LET cells == SubSeq(body, read + 1, read + n)
           evt == [phase |-> phase, cells |-> cells, finish |-> "none"]
       IN /\ read + n <= Len(body)
          /\ IF phase = "think" THEN Thought(cells) ELSE Answer(cells)
          /\ phase = "other" => Has(body, {"t"})
          /\ read' = read + n
          /\ ChatEvent(evt) /\ ClaudeEvent(evt) /\ ResponsesEvent(evt)
  /\ UNCHANGED <<once, body, ending, finish>>

\* The last delta of a reply that was finished: it brings the finish reason only.
FinishReason ==
  /\ ending = "none" /\ finish = "none" /\ read = Len(body)
  /\ \E reason \in {"stop", "length"} :
       LET evt == [phase |-> "answer", cells |-> <<>>, finish |-> reason]
       IN /\ finish' = reason
          /\ ChatEvent(evt) /\ ClaudeEvent(evt) /\ ResponsesEvent(evt)
  /\ UNCHANGED <<once, body, read, ending>>

\* The finish reason, "stop" when the upstream gave none.
Reason == IF finish = "none" THEN "stop" ELSE finish

\* The stream is over, at its end or by an error: the pacer's loop returns.
Over ==
  /\ ending = "none"
  /\ ending' \in {"eof", "error"}
  /\ OnceEnd(TextRead, read > 0 /\ body[read] = "t" /\ finish = "none", ending', Reason)
  /\ ChatEnd(ending') /\ ClaudeEnd(ending') /\ ResponsesEnd(ending')
  /\ UNCHANGED <<body, read, finish>>

\* The clients leave.
Leave ==
  /\ ending = "none"
  /\ ending' = "gone"
  /\ ChatGone /\ OnceGone /\ ClaudeGone /\ ResponsesGone
  /\ UNCHANGED <<body, read, finish>>

\* The stream's calls are resolved, and the answer collected again; the two do not
\* meet, so the one is done before the other.
Continue ==
  /\ \/ (\E more \in Continuations : ContinueOnce(more)) /\ UNCHANGED once
     \/ Resolved /\ UNCHANGED once
     \/ (\E reply \in Continuations : CollectAgain(reply)) /\ chat.at = "done" /\ UNCHANGED chat
  /\ UNCHANGED <<claude, responses, body, read, ending, finish>>

Next == Deliver \/ FinishReason \/ Over \/ Leave \/ Continue

Spec == Init /\ [][Next]_vars

-----------------------------------------------------------------------------
(* What the clients make of it.                                            *)

Data(out, kind) ==
  FlattenSeq([k \in DOMAIN out |-> IF out[k].type = "delta" /\ out[k].kind = kind THEN out[k].data ELSE <<>>])

ClaudeText == Data(claude.out, "text")
ResponsesText == Data(responses.out, "message")

TypeOK ==
  /\ body \in Bodies /\ read \in 0 .. Len(body)
  /\ ending \in {"none", "eof", "error", "gone"} /\ finish \in {"none", "stop", "length"}
  /\ chat.at \in {"reading", "resolving", "done", "gone"}
  /\ \A r \in {chat, claude, responses} :
       /\ r.emittedLen \in 0 .. Len(r.full)
       /\ r.full = TextRead

\* chat.go:1251 "Content before the first <tool_call> is streamed normally": no
\* handler lets a cell of the marker a reply turns out to have go out before it is
\* there to be seen, however the upstream cuts it into events.
MarkerHeldBack ==
  LET start == ToolCallStart(WholeText)
  IN \A r \in {chat, claude, responses} :
       r.hasTools /\ r.at = "reading" => r.emittedLen <= start

\* The chat client with tools is sent the reply's text, in order and once, up to the
\* first tool call or to the end, less white space before the calls.
ChatTextExact ==
  chat.at = "done" /\ chat.hasTools =>
    IF chat.out.calls = <<>> THEN chat.out.content = TextRead
    ELSE TrimRight(chat.out.content) = TrimRight(SubSeq(TextRead, 1, ToolCallStart(TextRead)))

\* How a client builds blocks from their events: one open at a time, started under
\* the next index, filled and stopped under it.
See(v, e) ==
  CASE e.type = "start" -> [v EXCEPT !.open = e.idx, !.next = @ + 1,
                                     !.bad = @ \/ v.open # -1 \/ e.idx # v.next]
    [] e.type = "delta" -> [v EXCEPT !.bad = @ \/ v.open # e.idx]
    [] OTHER -> [v EXCEPT !.open = -1, !.bad = @ \/ v.open # e.idx]

Viewed(out) ==
  LET seen[n \in 0 .. Len(out)] ==
        IF n = 0 THEN [open |-> -1, next |-> 0, bad |-> FALSE] ELSE See(seen[n - 1], out[n])
  IN seen[Len(out)]

\* Calls wrapped in <tool_call>, and no other format read as calls: what the prompt asks
\* the model for.
AsPrompted ==
  LET toks == Lex(TextRead)
      Bare == Has(parseToolCallBlocks(toks).text, {"J", "n"})
  IN /\ ~ Has(toks, {"F", "i", "x", "h", "fn", "fc", "g"})
     /\ chat.multiFormat => ~ Bare

\* The text does not begin with white space.  The parser trims the text it leaves, the
\* handlers count what they sent in the text as it came.
BeginsWithInk == TextRead # <<>> => Head(TextRead) # "w"

\* Codex logs "OutputTextDelta without active item" for a delta outside its item:
\* items come one at a time under successive indexes, and a stream that ends leaves
\* none open.
ResponsesItemsInOrder ==
  /\ ~ Viewed(responses.out).bad
  /\ responses.at = "done" => Viewed(responses.out).open = -1

\* A Claude client sees the same of content blocks, of a reply as prompted for that does
\* not begin with white space.
ClaudeBlocksInOrder ==
  AsPrompted /\ BeginsWithInk =>
    /\ ~ Viewed(claude.out).bad
    /\ claude.at = "done" => Viewed(claude.out).open = -1

\* claude_handler.go:512 "signal truncation so claude-code can detect it instead of
\* silently treating the response as complete": the stop reason of a broken reply says
\* so.  It does not when a call was read in it: "tool_use" follows,
\* as it does when the reply is whole.
ClaudeIsToldOfCut == ending = "error" => claude.stopReason = "max_tokens"

\* What does hold of the three streams: a broken reply is told to be one unless a call
\* was passed on of it, in the chat stream after the upstream was asked for the rest
\* of a truncated one; a Responses client is told in any case.
CutIsTold ==
  ending = "error" =>
    /\ chat.at = "done" /\ chat.out.calls = <<>> => chat.out.finish = "length"
    /\ Data(claude.out, "tool_use") = <<>> => claude.stopReason = "max_tokens"
    /\ responses.status = "incomplete"

\* isTruncatedToolCallContent: an answer that is not streamed never ends inside a tool
\* call, and the upstream is asked continuationAttempts times at most.
NoTruncatedAnswer ==
  /\ once.at = "answered" /\ once.hasTools => ~ isTruncatedToolCallContent(once.fullContent)
  /\ once.attempt <= continuationAttempts

\* responses_handler.go:724 "then emit only the cleaned text portion": the deltas of a
\* message make up the text it is done with, but for white space around it, of a reply
\* as prompted for.  The code does not ensure it: of text that began with white space
\* as much is left out at the end.
ResponsesSendTheCleanedText ==
  responses.at = "done" /\ AsPrompted => TrimSpace(ResponsesText) = TrimSpace(responses.doneText)

\* What does hold: of any reply without a call, and of one as prompted for that does not
\* begin with white space, the deltas make up the text, but for white space at the end.
ResponsesDeltasAreTheText ==
  responses.at = "done" /\ (Data(responses.out, "function_call") # <<>> => AsPrompted /\ BeginsWithInk) =>
    TrimRight(ResponsesText) = TrimRight(responses.doneText)

\* A client that asks for one answer is told of the same calls as one that asks for a
\* stream, a Claude client of the same stop reason, a chat client without tools of the
\* same finish reason, a Responses client of the same text.
AnswersAgree ==
  LET SameOnce(resp) ==
        /\ chat.at = "done" /\ chat.resolving = <<>> /\ once.at = "answered" /\ once.attempt = 1 =>
             chat.out.calls = resp.calls
        /\ ~ chat.hasTools => chat.out.finish = resp.finish
      SameMessage(message) ==
        /\ Data(claude.out, "tool_use") = message.calls
        /\ claude.stopReason = message.stopReason
      SameResponse(response) ==
        /\ Data(responses.out, "function_call") = response.calls
        /\ responses.doneText = response.text
  IN ending = "eof" =>
       /\ SameOnce(once.resp)
       /\ SameMessage(aggregateClaudeResponse(<<>>, TextRead, claude.hasTools, claude.multiFormat, Reason))
       /\ SameResponse(collectResponsesCompletion(<<>>, TextRead, responses.hasTools,
                                                  responses.multiFormat, ending))

\* claude_handler.go:547 "Only send the unsent portion as a single delta": the text a
\* Claude client is sent is the reply's, less its calls, once.
ClaudeSendsTextOnce ==
  claude.at = "done" /\ AsPrompted /\ BeginsWithInk =>
    LET parsed == ParseWithFormats(TextRead, claude.multiFormat)
    IN TrimRight(ClaudeText) = TrimRight(IF claude.hasTools /\ parsed.calls # <<>> THEN parsed.text ELSE TextRead)

=============================================================================
