------------------------------ MODULE TokenPool ------------------------------
(***************************************************************************)
(* internal/tokenpool: the round-robin pool of upstream Qwen credentials.  *)
(*                                                                         *)
(* Every exported method takes the pool's mutex for its whole body, so     *)
(* each is one action.  p.slots is a slice of POINTERS: SetTokens may put  *)
(* the same *slot at two positions, while New never does, so a position    *)
(* holds a pointer (ptr) and the slots live in a store (slot).  Time is    *)
(* relative: a slot carries the ticks left of its cooldown, and            *)
(* now.Before(cooldownEnd) is cool > 0.  The hits and failures counters    *)
(* and the token names are read by the dashboard only and left out.        *)
(***************************************************************************)
EXTENDS Naturals, Sequences

CONSTANTS
  Token,       \* credential values
  NoToken,     \* the outcome of a Take that returns ErrNoToken
  Cooldown,    \* Config.CooldownSeconds, in ticks
  TokenLists,  \* the token lists New and SetTokens may be called with
  Renewals,    \* <<old, new>> pairs Replace may be called with
  MaxReloads   \* bound of a run: calls of SetTokens

ASSUME PoolAssumption ==
  /\ NoToken \notin Token
  /\ Cooldown \in Nat
  /\ TokenLists \subseteq Seq(Token)
  /\ Renewals \subseteq Token \X Token
  /\ MaxReloads \in Nat

VARIABLES
  ptr,      \* p.slots: the slot pointer at each position
  slot,     \* the slots: value and remaining cooldown, by pointer
  cursor,   \* p.cursor, counted from 0 as in the code
  handed,   \* what the last call returned: a value after Take, else NoToken
  call,     \* history: the last call and its arguments
  badFor,   \* history: ticks a value was promised to rest since MarkBad
  waited,   \* history: Takes the token at each position has sat out while
            \* healthy; it goes where a reload puts the token
  due,      \* history: before how many Takes that token is to be handed out
  reloads   \* history: calls of SetTokens so far

history == <<waited, due, reloads>>
poolVars == <<ptr, slot, cursor, handed, call, badFor, history>>

Slot == [value : Token, cool : Nat]

Size   == Len(ptr)
Idx    == 0 .. Size - 1
At(i)  == slot[ptr[i + 1]]
Values == {At(i).value : i \in Idx}

Cooling(i) == At(i).cool > 0

\* How far the scan "(p.cursor + i) % len(p.slots)" walks to reach position i.
Steps(i) == IF i >= cursor THEN i - cursor ELSE i + Size - cursor

FirstWith(i, v) ==
  /\ At(i).value = v
  /\ \A j \in 0 .. i - 1 : At(j).value # v

NextHealthy(i) ==
  /\ ~Cooling(i)
  /\ \A j \in Idx : Steps(j) < Steps(i) => Cooling(j)

ListedIn(list) == {list[i] : i \in 1 .. Len(list)}

FreshSlot(v) == [value |-> v, cool |-> 0]

\* The history of a value ends when it leaves the pool.
Remembered(kept) == [v \in Token |-> IF v \in kept THEN badFor[v] ELSE 0]

-----------------------------------------------------------------------------
\* New: one slot per listed value, a value listed twice gets two.
PoolInit ==
  \E list \in TokenLists :
    /\ ptr    = [i \in 1 .. Len(list) |-> i]
    /\ slot   = [i \in 1 .. Len(list) |-> FreshSlot(list[i])]
    /\ cursor = 0
    /\ handed = NoToken
    /\ call   = << >>
    /\ badFor = [v \in Token |-> 0]
    /\ waited = [i \in 0 .. Len(list) - 1 |-> 0]
    /\ due    = [i \in 0 .. Len(list) - 1 |-> Len(list)]
    /\ reloads = 0

\* Mutant: the cursor stays on the slot it handed out.
CursorNotAdvanced(i) == i
CursorAfter(i) == (i + 1) % Size

\* The first healthy slot from the cursor on, or ErrNoToken when every slot
\* is cooling (or there is none).
Take ==
  /\ \/ \E i \in Idx :
          /\ NextHealthy(i)
          /\ cursor' = CursorAfter(i)
          /\ handed' = At(i).value
          /\ waited' = [j \in Idx |-> IF j = i \/ Cooling(j)
                                      THEN 0 ELSE waited[j] + 1]
          /\ due'    = [j \in Idx |-> IF j = i \/ Cooling(j)
                                      THEN Size ELSE due[j]]
     \/ /\ \A i \in Idx : Cooling(i)
        /\ handed' = NoToken
        /\ UNCHANGED <<cursor, waited, due>>
  /\ call' = <<"take">>
  /\ UNCHANGED <<ptr, slot, badFor, reloads>>

\* Only the first slot with the value is put on cooldown; an unknown value
\* is ignored.
MarkBad(v) ==
  /\ \/ \E i \in Idx :
          /\ FirstWith(i, v)
          /\ slot'   = [slot EXCEPT ![ptr[i + 1]].cool = Cooldown]
          /\ badFor' = [badFor EXCEPT ![v] = Cooldown]
     \/ v \notin Values /\ UNCHANGED <<slot, badFor>>
  /\ handed' = NoToken
  /\ call'   = <<"markbad", v>>
  /\ UNCHANGED <<ptr, cursor, history>>

Forgotten(v) == FreshSlot(v)
\* "If token already exists in previous slots, keep its ... cooldownEnd".
Carried(v) ==
  IF v \in Values
  THEN At(CHOOSE i \in Idx : FirstWith(i, v))
  ELSE FreshSlot(v)

\* The history of a token that stays; a new one has none.
SatOut(v)   == IF v \in Values THEN waited[CHOOSE i \in Idx : FirstWith(i, v)] ELSE 0
RoundsOf(v) == IF v \in Values THEN due[CHOOSE i \in Idx : FirstWith(i, v)] ELSE 0

CursorKept(n) == cursor
CursorWithin(n) == IF n > 0 THEN cursor % n ELSE 0

\* A listed value that was in the pool keeps its slot, so listing it twice
\* puts one slot at both positions; a new value gets a slot per position.
SetTokens(list) ==
  LET new  == 1 .. Len(list)
      home == [i \in new |-> IF list[i] \in Values
                             THEN CHOOSE j \in new : list[j] = list[i]
                             ELSE i]
  IN /\ reloads < MaxReloads
     /\ ptr'    = home
     /\ slot'   = [h \in {home[i] : i \in new} |-> Carried(list[h])]
     /\ cursor' = CursorWithin(Len(list))
     /\ badFor' = Remembered({list[i] : i \in new})
     /\ waited' = [i \in 0 .. Len(list) - 1 |-> SatOut(list[i + 1])]
     /\ due'    = [i \in 0 .. Len(list) - 1 |->
                    Len(list) + RoundsOf(list[i + 1])]
     /\ reloads' = reloads + 1
     /\ handed' = NoToken
     /\ call'   = <<"settokens", ListedIn(list)>>

RenewedStillCooling(i, v) == [At(i) EXCEPT !.value = v]
Renewed(i, v) == FreshSlot(v)

\* The first slot with the old value takes the new one and is healthy again.
Replace(old, new) ==
  /\ \/ \E i \in Idx :
          /\ FirstWith(i, old)
          /\ slot'   = [slot EXCEPT ![ptr[i + 1]] = Renewed(i, new)]
          /\ badFor' = Remembered({At(j).value : j \in Idx} \ {old, new})
     \/ old \notin Values /\ UNCHANGED <<slot, badFor>>
  /\ handed' = NoToken
  /\ call'   = <<"replace", old, new>>
  /\ UNCHANGED <<ptr, cursor, history>>

Less(t) == IF t > 0 THEN t - 1 ELSE 0

PoolTick ==
  /\ slot'   = [p \in DOMAIN slot |-> [slot[p] EXCEPT !.cool = Less(@)]]
  /\ badFor' = [v \in Token |-> Less(badFor[v])]
  /\ handed' = NoToken
  /\ call'   = << >>
  /\ UNCHANGED <<ptr, cursor, history>>

\* No code in the repository calls Replace; a refreshed credential is taken
\* to be a value the pool does not hold.
PoolNext ==
  \/ Take
  \/ \E v \in Token : MarkBad(v)
  \/ \E list \in TokenLists : SetTokens(list)
  \/ \E r \in Renewals : r[2] \notin Values /\ Replace(r[1], r[2])
  \/ PoolTick

PoolSpec == PoolInit /\ [][PoolNext]_poolVars

-----------------------------------------------------------------------------
\* What an operator has to see to for a bad token to rest: no value is
\* listed twice.  Neither config.Load nor POST /admin/tokens enforces it.
DistinctLists ==
  \A list \in TokenLists : \A i, j \in 1 .. Len(list) :
    list[i] = list[j] => i = j

\* Every pointer leads to a slot and the cursor stays inside the pool across
\* reloads that shrink it (SetTokens: "Ensure cursor is within bounds").
PoolTypeOK ==
  /\ ptr \in Seq(Nat \ {0})
  /\ \A i \in 1 .. Len(ptr) : ptr[i] \in DOMAIN slot
  /\ slot \in [DOMAIN slot -> Slot]
  /\ cursor \in (IF Size = 0 THEN {0} ELSE Idx)
  /\ handed \in Token \cup {NoToken}
  /\ badFor \in [Token -> Nat]
  /\ waited \in [Idx -> Nat]
  /\ due \in [Idx -> Nat]
  /\ reloads \in Nat

\* README.md:125 "A token that returns 401/403 is put on cooldown": a value
\* reported by MarkBad is not handed out before its cooldown has elapsed,
\* whatever reloads and renewals of the pool come between.
BadTokenRests == handed # NoToken => badFor[handed] = 0

\* To its callers the pool is the service TokenService specifies: they see a
\* set of credentials and how long each rests, never slots or the cursor.
RestOf == [v \in Token |-> IF v \in Values
                           THEN At(CHOOSE i \in Idx : FirstWith(i, v)).cool
                           ELSE 0]
Service == INSTANCE TokenService
             WITH members   <- Values,
                  rest      <- RestOf,
                  TokenSets <- {ListedIn(list) : list \in TokenLists}

\* Every call behaves as the service promises: Take hands out a credential
\* that is in the pool and has rested (tokenpool.go: "Take returns the next
\* healthy token"), it fails only when none has, and reloads keep the rest
\* of the credentials that stay.
PoolIsService == Service!Spec

\* Round-robin rotation over reloads: a token that is healthy at every Take is
\* handed out within a round of the pool, and a reload while it waits, which
\* keeps the cursor's position and moves the tokens (tokenpool.go:71), sets it
\* back by a round of the new pool and no more.
NoTokenStarves == \A i \in Idx : waited[i] < due[i]

=============================================================================
