----------------------------- MODULE MCGateway -----------------------------
(***************************************************************************)
(* Small instances of Gateway.  Two or three requests at one endpoint:     *)
(* equal prompts (they share every key), a turn and the turn after it      *)
(* (whose lookup key is the first one's store key), or one session.        *)
(***************************************************************************)
EXTENDS Gateway

LOCAL INSTANCE TLC  \* Permutations

CONSTANTS r1, r2, r3, t1, t2, prompt, turn1, turn2, resp1, session

TwoRequests   == {r1, r2}
ThreeRequests == {r1, r2, r3}
All(x)        == [r \in Request |-> x]
First(x, y)   == [r \in Request |-> IF r = r1 THEN x ELSE y]

MCToken  == {t1, t2}
OneToken == {t1}

AllOfIt  == {{t1, t2}}
OneSet   == {{t1}}
WithAndWithout == {{t1, t2}, {}}

NoneSet       == All(NoKey)
SamePrompt    == All(prompt)
TurnByTurn    == First(turn1, turn2)       \* StoreKey of a turn and the next
AfterTheFirst == First(NoKey, turn1)       \* LookupKey of a turn and the next
Reply         == First(resp1, NoKey)       \* RespKey of the first response
ReplyTo       == First(NoKey, resp1)       \* PrevKey of its follow-up

Interchangeable == Permutations(Request)  \* equal requests, safety only

NoSessions  == All(NoSession)
SameSession == All(session)

=============================================================================
