---------------------------- MODULE ChatHistory ----------------------------
(* What the chat handler makes of a request's messages before it looks for *)
(* their session: topic isolation, compaction to the model's context       *)
(* window, and the hash of the prior context. Pure operators; a message is *)
(* its role, the identity of its text, the pieces its first 4000 bytes are *)
(* made of (a role in front of a colon and a line's end are pieces like    *)
(* any other), the entities the detector finds in it, and its weight in    *)
(* tokens.                                                                 *)
EXTENDS SequencesExt

CONSTANTS MessageOverhead,   \* tokens a message costs besides its text
          NoKey,             \* the empty hash: a request without a session
          Texts              \* the texts and pieces of texts, a compaction's among them

ASSUME TextAssumption == "compacted" \in Texts

Message == [role : {"system", "user", "assistant", "tool"}, text : Texts,
            head : Seq(Texts), entities : SUBSET STRING, tokens : Nat]

Users(msgs) == {i \in DOMAIN msgs : msgs[i].role = "user"}
Systems(msgs) == {i \in DOMAIN msgs : msgs[i].role = "system"}

\* The messages at some of the places, in their order.
At(msgs, places) ==
    LET at[n \in 0..Len(msgs)] ==
          IF n = 0 THEN <<>> ELSE IF n \in places THEN Append(at[n - 1], msgs[n]) ELSE at[n - 1]
    IN at[Len(msgs)]

\* Detector.Changed with its threshold of 0.1 on the Jaccard similarity.
Changed(first, last) ==
    /\ first # {} /\ last # {}
    /\ 10 * Cardinality(first \cap last) < Cardinality(first \cup last)

\* On a change of topic only the system messages and the last user message
\* are kept: what follows that message is dropped with what precedes it.
applyTopicIsolation(msgs) ==
    LET users == Users(msgs)
    IN IF /\ Len(msgs) >= 3
          /\ Cardinality(users) >= 2
          /\ Changed(msgs[Min(users)].entities, msgs[Max(users)].entities)
       THEN Append(At(msgs, Systems(msgs)), msgs[Max(users)])
       ELSE msgs

Weight(m) == m.tokens + MessageOverhead
Total(msgs) == FoldFunction(LAMBDA m, sum : Weight(m) + sum, 0, msgs)
Latest(msgs, k) == SubSeq(msgs, Len(msgs) - k + 1, Len(msgs))

\* The longest run of recent messages within the budget, at least one of them
\* if there is one.
KeepCount(others, budget) ==
    Max({k \in 0..Len(others) : k <= 1 \/ Total(Latest(others, k)) <= budget})

\* The middle of the conversation as one system message: at most 500 bytes of
\* each message in it. Its identity is what it tells of.
ContextSummary(middle) ==
    [role |-> "system", text |-> "compacted", head |-> <<"compacted">>,
     entities |-> {}, tokens |-> Len(middle)]

AutoCompact(msgs, contextWindow) ==
    LET limit == (contextWindow * 8) \div 10
        others == At(msgs, DOMAIN msgs \ Systems(msgs))
        keep == KeepCount(others, (limit * 6) \div 10)
    IN IF Total(msgs) <= limit THEN msgs
       ELSE At(msgs, Systems(msgs))
            \o <<ContextSummary(SubSeq(others, 1, Len(others) - keep))>>
            \o Latest(others, keep)

Shaped(msgs, contextWindow) == AutoCompact(applyTopicIsolation(msgs), contextWindow)

\* What is hashed of the messages: of all but the last the role and the first
\* 4000 bytes, a line for each, with nothing that tells a line's end from one in
\* the text.
Line(m) == <<m.role>> \o m.head \o <<"eol">>
HashedText(msgs) == FlattenSeq([i \in 1..Len(msgs) - 1 |-> Line(msgs[i])])

\* mutant: the first message alone tells conversations apart
FirstMessageHash(msgs, model) ==
    IF Len(msgs) <= 1 THEN NoKey ELSE [model |-> model, text |-> Line(msgs[1])]
HashMessages(msgs, model) ==
    IF Len(msgs) <= 1 THEN NoKey ELSE [model |-> model, text |-> HashedText(msgs)]

\* The messages a session stores of a request: those with a text.
MessagesFromOpenAI(msgs) == At(msgs, {i \in DOMAIN msgs : msgs[i].text # ""})
=============================================================================
