------------------------------ MODULE ToolText ------------------------------
(***************************************************************************)
(* What the gateway reads in the text of a reply: tool calls in the        *)
(* formats internal/toolcall knows, their repair, and the joining of a     *)
(* truncated call with its continuation.  Text is a sequence of cells of   *)
(* about five bytes: prose "p", white space "w", a code fence "g", the two *)
(* cells of "<tool_call" and the three of "<function_calls", the two       *)
(* halves of a JSON call; any other cell is a whole tag or call.           *)
(***************************************************************************)
EXTENDS Sieve, SequencesExt

\* The cells of the tags and calls longer than one cell.
Spelling ==
  [tag \in {"O", "F", "J"} |->
     CASE tag = "O" -> <<"o1", "o2">>          \* <tool_call>
       [] tag = "F" -> <<"f1", "f2", "f3">>    \* <function_calls>
       [] tag = "J" -> <<"j1", "j2">>]         \* {"name": ..., "arguments": ...}

\* The others: closing tags </tool_call>, </function> and </function_calls>; an
\* <invoke>; JSON that jsonrepair mends; a call with null arguments; an opened
\* <function=...> with a parameter; a JSON name followed by a <parameter=...>.
Cell == {"p", "w", "g", "c", "fn", "fc", "i", "r", "n", "x", "h"}
          \union UNION {ToSet(Spelling[t]) : t \in DOMAIN Spelling}

Spelled(tok) == IF tok \in DOMAIN Spelling THEN Spelling[tok] ELSE <<tok>>

Spell(toks) == FlattenSeq([k \in DOMAIN toks |-> Spelled(toks[k])])

\* Cells read as tokens: a spelled token replaces its cells as its last one comes.
Folded(cells) ==
  LET done == {t \in DOMAIN Spelling : IsSuffix(Spelling[t], cells)}
      t == CHOOSE t \in done : TRUE
  IN IF done = {} THEN cells ELSE Append(SubSeq(cells, 1, Len(cells) - Len(Spelling[t])), t)

Lex(text) ==
  LET toks[n \in 0 .. Len(text)] == IF n = 0 THEN <<>> ELSE Folded(Append(toks[n - 1], text[n]))
  IN toks[Len(text)]

TokenCount(toks, tags) == Len(Only(toks, tags))

Has(toks, tags) == ToSet(toks) \intersect tags # {}

\* strings.TrimRight and strings.TrimSpace: what lies between the first and the
\* last cell that is not white space.
TrimRight(s) ==
  LET ink == {k \in DOMAIN s : s[k] # "w"}
  IN IF ink = {} THEN <<>> ELSE SubSeq(s, 1, CHOOSE k \in ink : \A m \in ink : m <= k)

TrimSpace(s) == Reverse(TrimRight(Reverse(TrimRight(s))))

-----------------------------------------------------------------------------
(* The parser.                                                             *)

Found(calls, text) == [calls |-> calls, text |-> text]

Inner(block) == TrimSpace(SubSeq(block, 2, Len(block) - 1))

\* The elements of a list at some of its positions.
Chosen(s, at) ==
  LET kept == Only([k \in DOMAIN s |-> k], at) IN [k \in DOMAIN kept |-> s[kept[k]]]

\* A call whose signature, name and arguments, came before goes; the first is kept.
FilterDuplicates(calls) ==
  Chosen(calls, {k \in DOMAIN calls : ~ Contains(SubSeq(calls, 1, k - 1), calls[k])})

\* A call with null arguments is no call.
ValidateToolCall(call) == call # "N"

FilterInvalid(calls) == Only(calls, {call \in ToSet(calls) : ValidateToolCall(call)})

Sanitize(calls) == FilterDuplicates(FilterInvalid(calls))

\* A fence around the whole block is taken off.
stripCodeFences(inner) ==
  IF Len(inner) >= 2 /\ Head(inner) = "g" /\ Last(inner) = "g"
  THEN TrimSpace(SubSeq(inner, 2, Len(inner) - 1)) ELSE inner

\* A JSON document is one object and nothing else.
IsJSON(doc) == Len(doc) = 1 /\ doc[1] \in {"J", "R", "n"}

\* The passes over newlines, backslashes, quotes and commas mend what they can.
MendJSON(doc) == [k \in DOMAIN doc |-> IF doc[k] = "r" THEN "R" ELSE doc[k]]

\* From the first brace to the one that balances it, or nothing: a torn half and a
\* name left open have none.
extractJSON(doc) ==
  LET braces == Only(doc, {"J", "R", "r", "n", "j1", "h"})
  IN IF braces # <<>> /\ Head(braces) \notin {"j1", "h"} THEN <<Head(braces)>> ELSE <<>>

\* The first of the candidates that is JSON, or the document as it is.
Repair(doc) ==
  LET mended == MendJSON(doc)
      extracted == extractJSON(mended)
  IN CASE IsJSON(doc) -> doc
       [] ~ IsJSON(doc) /\ IsJSON(mended) -> mended
       [] ~ IsJSON(doc) /\ ~ IsJSON(mended) /\ IsJSON(extracted) -> extracted
       [] OTHER -> doc

parseJSON(doc) ==
  CASE ~ IsJSON(doc) -> <<>>
    [] IsJSON(doc) /\ doc[1] = "n" -> <<"N">>
    [] OTHER -> doc

\* <function=NAME> ... </function>
parseXML(inner) ==
  IF \E a, b \in DOMAIN inner : a < b /\ inner[a] = "x" /\ inner[b] = "fn" THEN <<"X">> ELSE <<>>

\* A JSON name with <parameter=...> after it; the parameters there are make the call.
parseHybrid(inner) == IF Has(inner, {"h"}) THEN <<"H">> ELSE <<>>

\* The first format that finds a call in the block.
ParsedDoc(doc) ==
  CASE parseJSON(doc) # <<>> -> parseJSON(doc)
    [] parseJSON(doc) = <<>> /\ parseXML(doc) # <<>> -> parseXML(doc)
    [] OTHER -> parseHybrid(doc)

parseBlock(inner) == ParsedDoc(Repair(stripCodeFences(inner)))

\* A block that is no call stays in the text.
Unless(call, block) == Found(call, IF call = <<>> THEN block ELSE <<>>)

\* What a block found by one of the expressions is replaced by: a call written in a
\* "tool_call", the calls in a "function_calls", the call of a "hybrid", nothing for
\* an "orphan".
BlockOf(kind, block) ==
  CASE kind = "tool_call" -> Unless(parseBlock(Inner(block)), block)
    [] kind = "function_calls" -> Found([k \in 1 .. TokenCount(block, {"i"}) |-> "I"], <<>>)
    [] kind = "hybrid" -> Found(parseBlock(Inner(block)), <<>>)
    [] OTHER -> Found(<<>>, <<>>)

\* What the scan has found once a block is replaced, and at the end of the text.
Replaced(acc, found) ==
  [calls |-> acc.calls \o found.calls, text |-> acc.text \o found.text, block |-> <<>>]
AtEnd(acc) == Found(acc.calls, acc.text \o acc.block)

\* A regular expression open(.*?)close run over the text: each block from an opener
\* to the nearest closer is replaced by what BlockOf makes of it; an opener without
\* a closer after it matches nothing.
Scanned(acc, tok, open, closers, kind) ==
  CASE acc.block = <<>> /\ tok # open -> [acc EXCEPT !.text = Append(@, tok)]
    [] acc.block = <<>> /\ tok = open -> [acc EXCEPT !.block = <<tok>>]
    [] acc.block # <<>> /\ tok \notin closers -> [acc EXCEPT !.block = Append(@, tok)]
    [] OTHER -> Replaced(acc, BlockOf(kind, Append(acc.block, tok)))

Blocks(toks, open, closers, kind) ==
  LET acc[n \in 0 .. Len(toks)] ==
        IF n = 0 THEN [calls |-> <<>>, text |-> <<>>, block |-> <<>>]
        ELSE Scanned(acc[n - 1], toks[n], open, closers, kind)
  IN AtEnd(acc[Len(toks)])

parseToolCallBlocks(toks) == Blocks(toks, "O", {"c"}, "tool_call")

parseFunctionCallBlocks(toks) == Blocks(toks, "F", {"fc"}, "function_calls")

parseHybridToolCallBlocks(toks) == Blocks(toks, "O", {"fn", "fc"}, "hybrid")

\* JSON calls with no tag around them, outside code fences.
parseBareJSON(toks) ==
  LET Fenced(k) == TokenCount(SubSeq(toks, 1, k), {"g"}) % 2 = 1
      bare == {k \in DOMAIN toks : toks[k] \in {"J", "n"} /\ ~ Fenced(k)}
      found == Chosen(toks, bare)
  IN Found([k \in DOMAIN found |-> IF found[k] = "J" THEN "J" ELSE "N"],
           Chosen(toks, DOMAIN toks \ bare))

stripOrphanToolCallBlocks(toks) ==
  Blocks(Blocks(toks, "O", {"c"}, "orphan").text, "O", {"fn", "fc"}, "orphan").text

Closers == {"c", "fn", "fc"}

HasUnclosedToolCall(toks) == TokenCount(toks, {"O"}) > TokenCount(toks, Closers)

closeUnclosedToolCallTags(toks) ==
  IF ~ HasUnclosedToolCall(toks) THEN toks
  ELSE toks \o [k \in 1 .. TokenCount(toks, {"O"}) - TokenCount(toks, Closers) |-> "c"]

SawToolMarker(toks) == Has(toks, {"O", "F", "i"})

\* ParseWithFormats: each format takes its calls out of the text the one before left.
Then(found, more) == Found(found.calls \o more.calls, more.text)
ThenClaude(found, wanted) == IF wanted THEN Then(found, parseFunctionCallBlocks(found.text)) ELSE found
ThenHybrid(found) == Then(found, parseHybridToolCallBlocks(found.text))
ThenBare(found, wanted) == IF wanted THEN Then(found, parseBareJSON(found.text)) ELSE found
Cleaned(found) ==
  Found(Sanitize(found.calls), TrimSpace(Spell(stripOrphanToolCallBlocks(found.text))))

ParseWithFormats(text, multiFormat) ==
  LET tagged == parseToolCallBlocks(closeUnclosedToolCallTags(Lex(text)))
  IN Cleaned(ThenBare(ThenHybrid(ThenClaude(tagged, multiFormat)), multiFormat))

\* A reply in which the handlers with tools found no call is all text.
AllTextUnless(found, full) == IF found.calls # <<>> THEN found ELSE Found(<<>>, full)
Reply(full, hasTools, multiFormat) ==
  IF hasTools THEN AllTextUnless(ParseWithFormats(full, multiFormat), full) ELSE Found(<<>>, full)

\* The cells before the first "<tool_call": strings.Index, or the whole length.
ToolCallStart(text) ==
  LET at == {k \in 1 .. Len(text) - 1 : SubSeq(text, k, k + 1) = Spelling["O"]}
  IN IF at = {} THEN Len(text) ELSE (CHOOSE k \in at : \A m \in at : k <= m) - 1

\* How much of a text is held back lest it begins one.
Marker == Len(Spelling["O"])

-----------------------------------------------------------------------------
(* Continuation of a call the upstream cut.                                *)

\* What is left of s once its first block is closed: every later block is taken for
\* a repetition and goes, and so does all from a later opener that has no closer.
\* While the first block is open, later openers go and their content stays.
stripDuplicateToolCallTags(s) ==
  LET opens == {k \in DOMAIN s : s[k] = "O"}
      first == CHOOSE k \in opens : \A m \in opens : k <= m
      closes == {k \in DOMAIN s : s[k] = "c" /\ k > first}
      close == CHOOSE k \in closes : \A m \in closes : k <= m
      later == Blocks(SubSeq(s, close + 1, Len(s)), "O", {"c"}, "orphan").text
  IN CASE opens = {} -> s
       [] opens # {} /\ closes # {} ->
            SubSeq(s, 1, close)
              \o SubSeq(later, 1, IF Has(later, {"O"}) THEN SelectInSeq(later, LAMBDA t : t = "O") - 1 ELSE Len(later))
       [] OTHER -> SubSeq(s, 1, first) \o SelectSeq(SubSeq(s, first + 1, Len(s)), LAMBDA t : t # "O")

MaxContinuationRounds == 2

\* One round of ResolveTruncatedToolCall: the continuation is joined and cleaned.
Join(text, more) == Spell(stripDuplicateToolCallTags(Lex(text \o more)))

\* A continuation's thoughts, written "t", are left out of it.
drainStreamToText(reply) == SelectSeq(reply, LAMBDA cell : cell # "t")

\* Content that ends a tool call short, as the collecting handlers report it.
isTruncatedToolCallContent(text) ==
  LET toks == Lex(TrimSpace(text))
  IN \/ Has(toks, {"O"}) /\ ~ Has(toks, {"c"})
     \/ toks # <<>> /\ Last(toks) = "O"

=============================================================================
