---------------------------- MODULE TokenService ----------------------------
(***************************************************************************)
(* What the rest of the gateway relies on from internal/tokenpool: a set   *)
(* of credentials, each of them resting for some ticks or ready, and a     *)
(* Take that hands out SOME ready credential.  TokenPool, the round-robin  *)
(* scan over slots and pointers, implements it when no token is listed     *)
(* twice; Gateway is built on it.                                          *)
(***************************************************************************)
EXTENDS Naturals

CONSTANTS
  Token,      \* credential values
  NoToken,    \* the outcome of a Take that returns ErrNoToken
  Cooldown,   \* ticks a bad token rests
  TokenSets,  \* the sets of tokens a reload may install
  Renewals    \* <<old, new>> pairs of a renewal

VARIABLES
  members,  \* the credentials in the pool
  rest,     \* ticks each credential still has to rest; 0 outside the pool
  handed,   \* the answer of the last call, NoToken unless it was a Take
  call      \* the last call with its arguments; << >> when time passed

serviceVars == <<members, rest, handed, call>>

Ready(v) == v \in members /\ rest[v] = 0

NoneReady == \A v \in members : rest[v] > 0

Init ==
  /\ members \in TokenSets
  /\ rest    = [v \in Token |-> 0]
  /\ handed  = NoToken
  /\ call    = << >>

\* What the calls and time do to the pool.  A credential it does not hold is
\* not put to rest; one that stays across a reload keeps its rest, one that
\* leaves is forgotten.
Cool(v) ==
  /\ rest' = [rest EXCEPT ![v] = IF v \in members THEN Cooldown ELSE 0]
  /\ UNCHANGED members

Install(set) ==
  /\ members' = set
  /\ rest'    = [v \in Token |-> IF v \in set THEN rest[v] ELSE 0]

Elapse ==
  /\ rest' = [v \in Token |-> IF rest[v] > 0 THEN rest[v] - 1 ELSE 0]
  /\ UNCHANGED members

Take ==
  /\ \/ \E v \in members : Ready(v) /\ handed' = v
     \/ NoneReady /\ handed' = NoToken
  /\ call' = <<"take">>
  /\ UNCHANGED <<members, rest>>

MarkBad(v) ==
  /\ Cool(v)
  /\ handed' = NoToken
  /\ call'   = <<"markbad", v>>

SetTokens(set) ==
  /\ Install(set)
  /\ handed' = NoToken
  /\ call'   = <<"settokens", set>>

Replace(old, new) ==
  /\ members' = IF old \in members THEN (members \ {old}) \cup {new} ELSE members
  /\ rest'    = IF old \in members THEN [rest EXCEPT ![old] = 0, ![new] = 0] ELSE rest
  /\ handed'  = NoToken
  /\ call'    = <<"replace", old, new>>

Tick ==
  /\ Elapse
  /\ handed' = NoToken
  /\ call'   = << >>

Next ==
  \/ Take
  \/ \E v \in Token : MarkBad(v)
  \/ \E set \in TokenSets : SetTokens(set)
  \/ \E r \in Renewals : Replace(r[1], r[2])
  \/ Tick

Spec == Init /\ [][Next]_serviceVars

=============================================================================
