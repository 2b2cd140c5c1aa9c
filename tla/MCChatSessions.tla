--------------------------- MODULE MCChatSessions ---------------------------
(* Turns of conversations that share a context, on a store with room for one *)
(* session.                                                                  *)
EXTENDS ChatSessions, TLC

CONSTANTS r1, r2, r3, None_

Say(role, text, head, entities, tokens) ==
    [role |-> role, text |-> text, head |-> head, entities |-> entities, tokens |-> tokens]
Sys == Say("system", "sys", <<"sys">>, {}, 1)
Sys2 == Say("system", "sys2", <<"sys">>, {}, 1)  \* differs from it after 4000 bytes
Ask == Say("user", "ask", <<"ask">>, {"main.go"}, 1)
Other == Say("user", "other", <<"other">>, {"go.mod"}, 1)
Long == Say("assistant", "long", <<"long">>, {}, 6)

\* The second is compacted, the third changes its topic, and then has the first
\* one's context.
Lists == {<<Sys, Ask>>, <<Sys, Long, Ask>>, <<Sys, Ask, Other>>}
\* Two contexts that differ after 4000 bytes, two with the same lines.
Folded == Say("system", "folded", <<"sys", "eol", "user", "ask">>, {}, 1)
Alike == {<<Sys, Ask>>, <<Sys2, Ask>>, <<Folded, Ask>>, <<Sys, Ask, Ask>>}

\* Without files: three turns, a summary after each. With files: two turns and
\* a restart. With summaries and files: a turn, a restart, another turn.
MCConversations ==
    (None_ :> {<<Sys, Ask>>, <<Sys, Long, Ask>>}) @@ ("turns" :> Lists)
    @@ ("summaries" :> Lists \cup Alike)
MCSummaryEvery == (None_ :> 1) @@ ("turns" :> 3) @@ ("summaries" :> 1)
MCClients ==
    (None_ :> <<{r1, r2, r3}>>) @@ ("turns" :> <<{r1, r2}, {r1, r2}>>)
    @@ ("summaries" :> <<{r1}, {r2}>>)
MCRestarts == (None_ :> 0) @@ ("turns" :> 1) @@ ("summaries" :> 1)
MCStreaming == {r1}
=============================================================================
