--------------------------- MODULE MCReplyStreams ---------------------------
(* ReplyStreams on replies put together from parts.                        *)
EXTENDS ReplyStreams

Before == {<<>>, <<"p", "w", "w">>, <<"t", "p", "w">>, <<"w", "p">>}

Calls == {
  <<>>,
  <<"o1", "o2", "j1", "j2", "c">>,                                  \* as the prompt asks
  <<"o1", "o2", "r", "c", "o1", "o2", "j1", "j2", "c">>,            \* two, one to mend
  <<"o1", "o2", "r", "c", "o1", "o2", "r", "c">>,                    \* the same twice
  <<"o1", "o2", "g", "j1", "j2", "g", "c">>,                        \* fenced
  <<"o1", "o2", "n", "c">>,                                         \* null arguments
  <<"o1", "o2", "p", "c">>,                                         \* no call at all
  <<"o1", "o2", "x", "fn", "c">>,                                   \* XML
  <<"o1", "o2", "h", "fn">>,                                        \* hybrid
  <<"f1", "f2", "f3", "i", "fc">>,                                  \* Claude's
  <<"j1", "j2">>}                                                   \* bare

After == {<<>>, <<"w", "p">>}

MCBodies == {b \o c \o a : b \in Before, c \in Calls, a \in After}

MCContinuations == {<<>>, <<"t", "j2", "c">>, <<"o1", "o2", "j1">>, <<"o1", "o2", "j1", "j2", "c">>}

MCFeatures == {<<TRUE, TRUE>>, <<TRUE, FALSE>>, <<FALSE, TRUE>>}

=============================================================================
