---------------------------- MODULE GatewayProofs ----------------------------
(***************************************************************************)
(* Proofs about Gateway, for any number of requests, keys, sessions,       *)
(* tokens and chats, any cooldown and any retry settings.                  *)
(***************************************************************************)
EXTENDS Gateway, SequenceTheorems, TLAPS

\* Where a handler is decides what its locals hold: past the cache it has a
\* chat, in the affinity steps a session, before the answer no answer.
HasChat == {"index", "store", "complete", "preflight", "bind", "bindChat", "stash"}

Located(r) ==
  /\ req[r].pc \in HasChat => req[r].chat \in Chat
  /\ req[r].pc \in {"session", "readToken", "readChat", "bindChat"} => SessionOf[r] \in Session
  /\ req[r].pc \in {"readToken", "readChat"} => bound[SessionOf[r]] # NoRecord
  /\ req[r].pc = "index" => CacheKey[r] \in Key
  /\ req[r].pc # "done" => req[r].answer = "none"

\* A chat taken from the cache is known to be: it cannot get past Completions
\* without the look-ahead, nor past the look-ahead with an empty stream.
LookedInto(r) ==
  /\ req[r].pc \in {"store", "complete", "preflight"} /\ req[r].origin = "cache" => req[r].hit
  /\ req[r].pc = "index" => req[r].origin = "fresh"
  /\ req[r].pc \in {"bind", "bindChat", "stash"} /\ req[r].outcome = "empty"
       => req[r].origin # "cache"
  /\ req[r].answer = "empty" => req[r].origin # "cache"

\* A chat request's attempts stay within a limit that stays within the cap.
Limited(r) ==
  req[r].endpoint = "chat" => /\ req[r].attempt <= req[r].limit
                              /\ req[r].limit <= MaxAttempts + MaxExtraRetries

InvAt(r) == Located(r) /\ LookedInto(r) /\ Limited(r)

\* A session's record, once there, names a chat.
RecordsWhole == \A s \in Session : bound[s] # NoRecord => bound[s].chat \in Chat

\* A token in the pool rests at least as long as it owes, unless a claude
\* request gave up over it.
DebtsRested ==
  /\ \A v \in Token : owed[v] <= Cooldown
  /\ \A v \in members \ spared : owed[v] <= rest[v]

IInv == TypeOK /\ RecordsWhole /\ \A r \in Request : InvAt(r)

-----------------------------------------------------------------------------
\* Type correctness.

\* The lists of keys a handler works through hold keys only.
LEMMA KeyLists ==
  ASSUME NEW r \in Request, req[r] \in Local
  PROVE  /\ LookupOrder(r) \in Seq(Key)
         /\ DropsOnEmpty(r) \in Seq(Key)
         /\ DropsOnError(r) \in Seq(Key)
<1>1. /\ IfSet(CacheKey[r]) \in Seq(Key) /\ IfSet(LookupKey[r]) \in Seq(Key)
      /\ IfSet(StoreKey[r]) \in Seq(Key) /\ IfSet(PrevKey[r]) \in Seq(Key)
  BY GatewayAssumption DEF IfSet
<1>2. req[r].endpoint \in {"chat", "claude", "responses"}
  BY GatewayAssumption DEF Local
<1>3. \A s, t \in Seq(Key) : s \o t \in Seq(Key)
  BY ConcatProperties
<1>4. /\ ChatKeys(r) \in Seq(Key) /\ ClaudeKeys(r) \in Seq(Key) /\ ResponsesKeys(r) \in Seq(Key)
  BY <1>1, <1>3 DEF ChatKeys, ClaudeKeys, ResponsesKeys
<1>5. /\ ChatEmptyDrops(r) \in Seq(Key) /\ ClaudeEmptyDrops(r) \in Seq(Key)
      /\ ResponsesEmptyDrops(r) \in Seq(Key)
  BY <1>1, <1>3 DEF ChatEmptyDrops, ClaudeEmptyDrops, ResponsesEmptyDrops
<1>6. /\ ChatErrorDrops(r) \in Seq(Key) /\ ClaudeErrorDrops(r) \in Seq(Key)
      /\ ResponsesErrorDrops(r) \in Seq(Key)
  BY <1>1, <1>3, <1>5 DEF ChatErrorDrops, ClaudeErrorDrops, ResponsesErrorDrops
<1>7. QED
  BY <1>2, <1>4, <1>5, <1>6 DEF LookupOrder, DropsOnEmpty, DropsOnError

\* A handler starts with well-typed locals.
LEMMA StartTyped ==
  ASSUME NEW r \in Request, NEW endpoint \in Endpoints
  PROVE  Start(r, endpoint) \in Local
BY GatewayAssumption DEF Start, Local

-----------------------------------------------------------------------------
\* How a step of one handler is argued about: it replaces the handler's locals,
\* and what is true of the other handlers stays true.
RecordsStay == \A s \in Session : bound[s] # NoRecord => bound'[s] # NoRecord

Moves(r) ==
  /\ req' \in [Request -> Local]
  /\ req'[r].endpoint = req[r].endpoint
  /\ \A q \in Request \ {r} : req'[q] = req[q]

Labels == {"session", "readToken", "readChat", "take", "find", "create", "index",
           "store", "complete", "preflight", "drop", "react", "bind", "bindChat",
           "stash", "done"}

LEMMA OneMoves ==
  ASSUME NEW r \in Request, \A q \in Request : InvAt(q), RecordsStay, Moves(r), InvAt(r)'
  PROVE  (\A q \in Request : InvAt(q))'
<1>1. ASSUME NEW q \in Request \ {r} PROVE InvAt(q)'
  <2>1. req'[q] = req[q] /\ InvAt(q)
    BY DEF Moves
  <2>2. Located(q)'
    BY <2>1 DEF InvAt, Located, RecordsStay, NoRecord
  <2>3. LookedInto(q)' /\ Limited(q)'
    BY <2>1 DEF InvAt, LookedInto, Limited
  <2>4. QED
    BY <2>2, <2>3 DEF InvAt
<1>2. QED
  BY <1>1

LEMMA UpdateMoves ==
  ASSUME TypeOK, NEW r \in Request, NEW l \in Local, req' = [req EXCEPT ![r] = l],
         l.endpoint = req[r].endpoint
  PROVE  Moves(r) /\ req'[r] = l
BY DEF TypeOK, Moves

LEMMA GotoMoves ==
  ASSUME TypeOK, NEW r \in Request, NEW label \in Labels, Goto(r, label)
  PROVE  Moves(r) /\ req'[r] = [req[r] EXCEPT !.pc = label]
<1>1. req[r] \in Local
  BY DEF TypeOK
<1>2. [req[r] EXCEPT !.pc = label] \in Local
  BY <1>1 DEF Local, Labels
<1>3. req' = [req EXCEPT ![r] = [req[r] EXCEPT !.pc = label]]
  BY DEF Goto
<1>4. [req[r] EXCEPT !.pc = label].endpoint = req[r].endpoint
  BY <1>1 DEF Local
<1>5. QED
  BY <1>2, <1>3, <1>4, UpdateMoves

\* The end of a handler's attempts.
LEMMA FinishMoves ==
  ASSUME TypeOK, NEW r \in Request,
         NEW reply \in {"none", "content", "empty", "unavailable", "failed"}, Finish(r, reply),
         InvAt(r), reply = "empty" => req[r].origin # "cache"
  PROVE  Moves(r) /\ InvAt(r)' /\ req'[r].pc = "done"
<1> DEFINE l == [Start(r, req[r].endpoint) EXCEPT !.pc = "done", !.answer = reply,
                                                  !.origin = req[r].origin]
<1>1. req[r] \in Local /\ req[r].endpoint \in Endpoints
  BY DEF TypeOK, Local
<1>2. Start(r, req[r].endpoint) \in Local
  BY <1>1, StartTyped
<1>3. l \in Local
  <2>1. ASSUME NEW x \in Local, NEW o \in {"none", "fresh", "cache", "affinity"}
        PROVE  [x EXCEPT !.pc = "done", !.answer = reply, !.origin = o] \in Local
    <3>1. [x EXCEPT !.pc = "done"] \in Local
      BY DEF Local
    <3>2. \A y \in Local : [y EXCEPT !.answer = reply, !.origin = o] \in Local
      BY DEF Local
    <3>3. QED
      BY <3>1, <3>2
  <2>2. req[r].origin \in {"none", "fresh", "cache", "affinity"}
    BY <1>1 DEF Local
  <2>3. QED
    BY <1>2, <2>1, <2>2
<1>4. /\ l.endpoint = req[r].endpoint /\ l.pc = "done" /\ l.answer = reply
      /\ l.origin = req[r].origin /\ l.attempt = 1
      /\ l.limit = IF RetryOnFailure THEN MaxAttempts ELSE 1
  BY DEF Start
<1>5. Moves(r) /\ req'[r] = l
  <2>1. req' = [req EXCEPT ![r] = l]
    BY DEF Finish
  <2>2. QED
    BY <1>3, <1>4, <2>1, UpdateMoves
<1>6. Located(r)' /\ LookedInto(r)'
  BY <1>4, <1>5 DEF Located, LookedInto, HasChat
<1>7. Limited(r)'
  BY <1>4, <1>5, GatewayAssumption DEF Limited
<1>8. QED
  BY <1>4, <1>5, <1>6, <1>7 DEF InvAt

-----------------------------------------------------------------------------
\* The inductive step, one lemma per action.
LEMMA IInvInit == Init => IInv
<1> SUFFICES ASSUME Init PROVE IInv
  OBVIOUS
<1>1. PICK endpoint \in Endpoints : req = [r \in Request |-> Start(r, endpoint)]
  BY DEF Init
<1>2. TypeOK
  BY <1>1, StartTyped, GatewayAssumption
  DEF Init, TypeOK, Pool!Init, Memo!Init, NoRecord
<1>3. RecordsWhole
  BY DEF Init, RecordsWhole
<1>4. ASSUME NEW r \in Request PROVE InvAt(r)
  <2>1. Located(r) /\ LookedInto(r)
    BY <1>1, GatewayAssumption DEF Located, LookedInto, Start, HasChat
  <2>2. Limited(r)
    BY <1>1, GatewayAssumption DEF Limited, Start
  <2>3. QED
    BY <2>1, <2>2 DEF InvAt
<1>5. QED
  BY <1>2, <1>3, <1>4 DEF IInv

LEMMA InvLookupSession ==
  ASSUME IInv, NEW r \in Request, LookupSession(r)
  PROVE  IInv' /\ Moves(r)
<1>1. UNCHANGED <<members, rest, owed, spared, memo, bound, writer, used>>
  BY DEF LookupSession, pool, affinity, upstream
<1>2. req[r] \in Local /\ InvAt(r) /\ req[r].pc = "session" /\ TypeOK
  BY DEF IInv, TypeOK, LookupSession
<1>3. Moves(r) /\ InvAt(r)'
  <2>1. CASE bound[SessionOf[r]] # NoRecord /\ Goto(r, "readToken")
    <3>1. Moves(r) /\ req'[r] = [req[r] EXCEPT !.pc = "readToken"]
      BY <1>2, <2>1, GotoMoves DEF Labels
    <3>2. QED
      BY <1>1, <1>2, <2>1, <3>1 DEF InvAt, Located, LookedInto, Limited, HasChat, Local
  <2>2. CASE Goto(r, "take")
    <3>1. Moves(r) /\ req'[r] = [req[r] EXCEPT !.pc = "take"]
      BY <1>2, <2>2, GotoMoves DEF Labels
    <3>2. QED
      BY <1>2, <3>1 DEF InvAt, Located, LookedInto, Limited, HasChat, Local
  <2>3. QED
    BY <2>1, <2>2 DEF LookupSession
<1>4. QED
  BY <1>1, <1>3, OneMoves DEF IInv, Moves, TypeOK, RecordsWhole, RecordsStay, NoRecord

LEMMA InvReadToken ==
  ASSUME IInv, NEW r \in Request, ReadToken(r)
  PROVE  IInv' /\ Moves(r)
<1> DEFINE l == [req[r] EXCEPT !.pc = "readChat", !.token = bound[SessionOf[r]].token]
<1>1. UNCHANGED <<members, rest, owed, spared, memo, bound, writer, used>>
  BY DEF ReadToken, pool, affinity, upstream
<1>2. req[r] \in Local /\ InvAt(r) /\ req[r].pc = "readToken" /\ TypeOK
  BY DEF IInv, TypeOK, ReadToken
<1>3. bound[SessionOf[r]].token \in Token \cup {NoToken}
  BY <1>2 DEF InvAt, Located, TypeOK
<1>4. l \in Local /\ l.endpoint = req[r].endpoint
  BY <1>2, <1>3 DEF Local
<1>5. Moves(r) /\ req'[r] = l
  <2>1. req' = [req EXCEPT ![r] = l]
    BY DEF ReadToken
  <2>2. QED
    BY <1>2, <1>4, <2>1, UpdateMoves
<1>6. InvAt(r)'
  BY <1>1, <1>2, <1>5 DEF InvAt, Located, LookedInto, Limited, HasChat, Local
<1>7. QED
  BY <1>1, <1>5, <1>6, OneMoves DEF IInv, Moves, TypeOK, RecordsWhole, RecordsStay, NoRecord

LEMMA InvReadChat ==
  ASSUME IInv, NEW r \in Request, ReadChat(r)
  PROVE  IInv' /\ Moves(r)
<1> DEFINE l == [req[r] EXCEPT !.pc = "store", !.origin = "affinity",
                               !.chat = bound[SessionOf[r]].chat]
<1>1. UNCHANGED <<members, rest, owed, spared, memo, bound, writer, used>>
  BY DEF ReadChat, pool, affinity, upstream
<1>2. req[r] \in Local /\ InvAt(r) /\ req[r].pc = "readChat" /\ TypeOK
  BY DEF IInv, TypeOK, ReadChat
<1>3. bound[SessionOf[r]].chat \in Chat
  BY <1>2 DEF InvAt, Located, IInv, RecordsWhole
<1>4. l \in Local /\ l.endpoint = req[r].endpoint
  BY <1>2, <1>3 DEF Local
<1>5. Moves(r) /\ req'[r] = l
  <2>1. req' = [req EXCEPT ![r] = l]
    BY DEF ReadChat
  <2>2. QED
    BY <1>2, <1>4, <2>1, UpdateMoves
<1>6. InvAt(r)'
  BY <1>1, <1>2, <1>3, <1>5 DEF InvAt, Located, LookedInto, Limited, HasChat, Local
<1>7. QED
  BY <1>1, <1>5, <1>6, OneMoves DEF IInv, Moves, TypeOK, RecordsWhole, RecordsStay, NoRecord

LEMMA InvTake ==
  ASSUME IInv, NEW r \in Request, Take(r)
  PROVE  IInv' /\ Moves(r)
<1>1. UNCHANGED <<members, rest, owed, spared, memo, bound, writer, used>>
  BY DEF Take, pool, affinity, upstream
<1>2. req[r] \in Local /\ InvAt(r) /\ req[r].pc = "take" /\ TypeOK
  BY DEF IInv, TypeOK, Take
<1>3. Moves(r) /\ InvAt(r)'
  <2>1. ASSUME NEW v \in members,
               req' = [req EXCEPT ![r].pc = "find", ![r].token = v,
                                  ![r].chat = NoChat, ![r].looked = 0]
        PROVE  Moves(r) /\ InvAt(r)'
    <3> DEFINE l == [req[r] EXCEPT !.pc = "find", !.token = v, !.chat = NoChat, !.looked = 0]
    <3>1. v \in Token
      BY <1>2 DEF TypeOK
    <3>2. l \in Local /\ l.endpoint = req[r].endpoint
      BY <1>2, <3>1 DEF Local
    <3>3. req' = [req EXCEPT ![r] = l]
      BY <2>1
    <3>4. Moves(r) /\ req'[r] = l
      BY <1>2, <3>2, <3>3, UpdateMoves
    <3>5. QED
      BY <1>2, <3>4 DEF InvAt, Located, LookedInto, Limited, HasChat, Local
  <2>2. CASE Finish(r, "unavailable")
    BY <1>2, <2>2, FinishMoves
  <2>3. QED
    BY <2>1, <2>2 DEF Take
<1>4. QED
  BY <1>1, <1>3, OneMoves DEF IInv, Moves, TypeOK, RecordsWhole, RecordsStay, NoRecord

LEMMA InvFind ==
  ASSUME IInv, NEW r \in Request, Find(r)
  PROVE  IInv' /\ Moves(r)
<1> DEFINE next == req[r].looked + 1
           c    == memo[LookupOrder(r)[next]]
<1>1. UNCHANGED <<members, rest, owed, spared, memo, bound, writer, used>>
  BY DEF Find, pool, affinity, upstream
<1>2. req[r] \in Local /\ InvAt(r) /\ req[r].pc = "find" /\ TypeOK
  BY DEF IInv, TypeOK, Find
<1>3. next \in Nat /\ next >= 1
  BY <1>2 DEF Local
<1>4. CASE next <= Len(LookupOrder(r))
  <2>1. c \in Chat \cup {NoChat}
    <3>1. LookupOrder(r) \in Seq(Key)
      BY <1>2, KeyLists
    <3>2. LookupOrder(r)[next] \in Key
      BY <1>3, <1>4, <3>1
    <3>3. QED
      BY <1>2, <3>2 DEF TypeOK
  <2>2. CASE c # NoChat
    <3> DEFINE l == [req[r] EXCEPT !.pc = "store", !.chat = c, !.hit = TRUE, !.origin = "cache"]
    <3>1. req' = [req EXCEPT ![r] = l]
      <4>1. ~ (next > Len(LookupOrder(r)))
        BY <1>2, <1>3, <1>4, KeyLists, LenProperties
      <4>2. QED
        BY <2>2, <4>1, Zenon DEF Find
    <3> HIDE DEF c
    <3>2. l \in Local /\ l.endpoint = req[r].endpoint
      BY <1>2, <2>1 DEF Local
    <3>3. Moves(r) /\ req'[r] = l
      BY <1>2, <3>1, <3>2, UpdateMoves
    <3>4. InvAt(r)'
      BY <1>2, <2>1, <2>2, <3>3 DEF InvAt, Located, LookedInto, Limited, HasChat, Local
    <3>5. QED
      BY <1>1, <3>3, <3>4, OneMoves DEF IInv, Moves, TypeOK, RecordsWhole, RecordsStay, NoRecord
  <2>3. CASE c = NoChat
    <3> DEFINE l == [req[r] EXCEPT !.looked = next]
    <3>1. req' = [req EXCEPT ![r] = l]
      BY <1>3, <1>4, <2>3 DEF Find
    <3> HIDE DEF next
    <3>2. l \in Local /\ l.endpoint = req[r].endpoint
      BY <1>2, <1>3 DEF Local
    <3>3. Moves(r) /\ req'[r] = l
      BY <1>2, <3>1, <3>2, UpdateMoves
    <3>4. InvAt(r)'
      BY <1>2, <3>3 DEF InvAt, Located, LookedInto, Limited, HasChat, Local
    <3>5. QED
      BY <1>1, <3>3, <3>4, OneMoves DEF IInv, Moves, TypeOK, RecordsWhole, RecordsStay, NoRecord
  <2>4. QED
    BY <2>2, <2>3
<1>5. CASE ~ (next <= Len(LookupOrder(r)))
  <2>1. Goto(r, "create")
    BY <1>5 DEF Find
  <2>2. Moves(r) /\ req'[r] = [req[r] EXCEPT !.pc = "create"]
    BY <1>2, <2>1, GotoMoves DEF Labels
  <2>3. InvAt(r)'
    BY <1>2, <2>2 DEF InvAt, Located, LookedInto, Limited, HasChat, Local
  <2>4. QED
    BY <1>1, <2>2, <2>3, OneMoves DEF IInv, Moves, TypeOK, RecordsWhole, RecordsStay, NoRecord
<1>6. QED
  BY <1>4, <1>5

LEMMA InvCreate ==
  ASSUME IInv, NEW r \in Request, Create(r)
  PROVE  IInv' /\ Moves(r)
<1>1. UNCHANGED <<members, rest, owed, spared, memo, bound, writer>>
  BY DEF Create, pool, affinity
<1>2. req[r] \in Local /\ InvAt(r) /\ req[r].pc = "create" /\ TypeOK
  BY DEF IInv, TypeOK, Create
<1>3. Moves(r) /\ InvAt(r)' /\ used' \subseteq Chat
  <2>1. ASSUME Free # {},
               req' = [req EXCEPT ![r].pc = IF CacheKey[r] # NoKey THEN "index" ELSE "store",
                                  ![r].chat = NewId, ![r].origin = "fresh"],
               used' = used \ Free
        PROVE  Moves(r) /\ InvAt(r)' /\ used' \subseteq Chat
    <3> DEFINE to == IF CacheKey[r] # NoKey THEN "index" ELSE "store"
               l  == [req[r] EXCEPT !.pc = to, !.chat = NewId, !.origin = "fresh"]
    <3>1. NewId \in Chat
      <4>1. \E c \in Chat : c \in Free
        BY <2>1 DEF Free
      <4>2. QED
        BY <4>1 DEF NewId
    <3>2. /\ to \in {"index", "store"}
          /\ to = "index" => CacheKey[r] \in Key
      BY GatewayAssumption
    <3>3. req' = [req EXCEPT ![r] = l]
      BY <2>1
    <3> HIDE DEF to
    <3>4. l \in Local /\ l.endpoint = req[r].endpoint
      BY <1>2, <3>1, <3>2 DEF Local
    <3>5. Moves(r) /\ req'[r] = l
      BY <1>2, <3>3, <3>4, UpdateMoves
    <3>6. InvAt(r)'
      BY <1>2, <3>1, <3>2, <3>5 DEF InvAt, Located, LookedInto, Limited, HasChat, Local
    <3>7. QED
      BY <1>2, <2>1, <3>5, <3>6 DEF TypeOK
  <2>2. ASSUME NEW fault \in Faults,
               req' = [req EXCEPT ![r].pc = "react", ![r].outcome = fault], UNCHANGED used
        PROVE  Moves(r) /\ InvAt(r)' /\ used' \subseteq Chat
    <3> DEFINE l == [req[r] EXCEPT !.pc = "react", !.outcome = fault]
    <3>1. fault \in {"auth", "limit", "other"}
      BY GatewayAssumption
    <3>2. l \in Local /\ l.endpoint = req[r].endpoint
      BY <1>2, <3>1 DEF Local
    <3>3. req' = [req EXCEPT ![r] = l]
      BY <2>2
    <3>4. Moves(r) /\ req'[r] = l
      BY <1>2, <3>2, <3>3, UpdateMoves
    <3>5. InvAt(r)'
      BY <1>2, <3>4 DEF InvAt, Located, LookedInto, Limited, HasChat, Local
    <3>6. QED
      BY <1>2, <2>2, <3>4, <3>5 DEF TypeOK
  <2>3. QED
    BY <2>1, <2>2 DEF Create, upstream
<1>4. QED
  BY <1>1, <1>3, OneMoves DEF IInv, Moves, TypeOK, RecordsWhole, RecordsStay, NoRecord

\* What the cache's calls leave behind is a memory again.
LEMMA MemoTyped ==
  ASSUME memo \in [Key -> Chat \cup {NoChat}]
  PROVE  /\ \A k : \A c \in Chat : Memo!Remember(k, c) => memo' \in [Key -> Chat \cup {NoChat}]
         /\ \A k : Memo!Erase(k) => memo' \in [Key -> Chat \cup {NoChat}]
BY DEF Memo!Remember, Memo!Erase

LEMMA InvIndex ==
  ASSUME IInv, NEW r \in Request, Index(r)
  PROVE  IInv' /\ Moves(r)
<1>1. UNCHANGED <<members, rest, owed, spared, bound, writer, used>>
  BY DEF Index, pool, affinity, upstream
<1>2. req[r] \in Local /\ InvAt(r) /\ req[r].pc = "index" /\ TypeOK
  BY DEF IInv, TypeOK, Index
<1>3. memo' \in [Key -> Chat \cup {NoChat}]
  <2>1. req[r].chat \in Chat /\ Memo!Remember(CacheKey[r], req[r].chat)
    BY <1>2 DEF InvAt, Located, HasChat, Index
  <2>2. QED
    BY <1>2, <2>1, MemoTyped DEF TypeOK
<1>4. Moves(r) /\ req'[r] = [req[r] EXCEPT !.pc = "store"]
  BY <1>2, GotoMoves DEF Index, Labels
<1>5. InvAt(r)'
  BY <1>2, <1>4 DEF InvAt, Located, LookedInto, Limited, HasChat, Local
<1>6. QED
  BY <1>1, <1>3, <1>4, <1>5, OneMoves
  DEF IInv, Moves, TypeOK, RecordsWhole, RecordsStay, NoRecord

LEMMA InvStore ==
  ASSUME IInv, NEW r \in Request, Store(r)
  PROVE  IInv' /\ Moves(r)
<1>1. UNCHANGED <<members, rest, owed, spared, bound, writer, used>>
  BY DEF Store, pool, affinity, upstream
<1>2. req[r] \in Local /\ InvAt(r) /\ req[r].pc = "store" /\ TypeOK
  BY DEF IInv, TypeOK, Store
<1>3. memo' \in [Key -> Chat \cup {NoChat}]
  <2>1. req[r].chat \in Chat /\ (Memo!Remember(StoreKey[r], req[r].chat) \/ UNCHANGED memo)
    BY <1>2 DEF InvAt, Located, HasChat, Store
  <2>2. QED
    BY <1>2, <2>1, MemoTyped DEF TypeOK
<1>4. Moves(r) /\ req'[r] = [req[r] EXCEPT !.pc = "complete"]
  BY <1>2, GotoMoves DEF Store, Labels
<1>5. InvAt(r)'
  BY <1>2, <1>4 DEF InvAt, Located, LookedInto, Limited, HasChat, Local
<1>6. QED
  BY <1>1, <1>3, <1>4, <1>5, OneMoves
  DEF IInv, Moves, TypeOK, RecordsWhole, RecordsStay, NoRecord

LEMMA InvComplete ==
  ASSUME IInv, NEW r \in Request, Complete(r)
  PROVE  IInv' /\ Moves(r)
<1>1. UNCHANGED <<members, rest, owed, spared, memo, bound, writer>>
  BY DEF Complete, pool, affinity
<1>2. req[r] \in Local /\ InvAt(r) /\ req[r].pc = "complete" /\ TypeOK
  BY DEF IInv, TypeOK, Complete
<1>3. req[r].chat \in Chat /\ used \subseteq Chat
  BY <1>2 DEF InvAt, Located, HasChat, TypeOK
<1>4. Moves(r) /\ InvAt(r)' /\ used' \subseteq Chat
  <2>1. ASSUME NEW stream \in Streams(req[r].chat),
               req' = [req EXCEPT ![r].outcome = stream,
                         ![r].pc = IF PreflightIf(req[r].hit) THEN "preflight" ELSE "bind"],
               used' = used \cup {req[r].chat}
        PROVE  Moves(r) /\ InvAt(r)' /\ used' \subseteq Chat
    <3> DEFINE to == IF PreflightIf(req[r].hit) THEN "preflight" ELSE "bind"
               l  == [req[r] EXCEPT !.outcome = stream, !.pc = to]
    <3>1. stream \in {"ok", "empty"}
      BY DEF Streams
    <3>2. /\ to \in {"preflight", "bind"}
          /\ to = "preflight" <=> req[r].hit
      BY <1>2 DEF PreflightIf, Local
    <3>3. req' = [req EXCEPT ![r] = l]
      BY <2>1
    <3> HIDE DEF to
    <3>4. l \in Local /\ l.endpoint = req[r].endpoint
      BY <1>2, <3>1, <3>2 DEF Local
    <3>5. Moves(r) /\ req'[r] = l
      BY <1>2, <3>3, <3>4, UpdateMoves
    <3>6. /\ l.pc = to /\ l.chat = req[r].chat /\ l.answer = req[r].answer
          /\ l.origin = req[r].origin /\ l.hit = req[r].hit
          /\ l.attempt = req[r].attempt /\ l.limit = req[r].limit
      BY <1>2 DEF Local
    <3>7. Located(r)' /\ Limited(r)'
      BY <1>2, <1>3, <3>2, <3>4, <3>5, <3>6 DEF InvAt, Located, Limited, HasChat
    <3>8. LookedInto(r)'
      BY <1>2, <3>2, <3>5, <3>6 DEF InvAt, LookedInto, Located
    <3>9. QED
      BY <1>3, <2>1, <3>5, <3>7, <3>8 DEF InvAt
  <2>2. ASSUME NEW fault \in Faults, NEW drops \in Seq(Key), NEW h \in BOOLEAN,
               req' = [req EXCEPT ![r].pc = "drop", ![r].outcome = fault,
                                  ![r].todrop = drops, ![r].hit = h],
               used' \in {used, IF fault = "other" THEN used \cup {req[r].chat} ELSE used}
        PROVE  Moves(r) /\ InvAt(r)' /\ used' \subseteq Chat
    <3> DEFINE l == [req[r] EXCEPT !.pc = "drop", !.outcome = fault, !.todrop = drops, !.hit = h]
    <3>1. fault \in {"auth", "limit", "other"}
      BY GatewayAssumption
    <3>2. l \in Local /\ l.endpoint = req[r].endpoint
      BY <1>2, <3>1 DEF Local
    <3>3. req' = [req EXCEPT ![r] = l]
      BY <2>2
    <3>4. Moves(r) /\ req'[r] = l
      BY <1>2, <3>2, <3>3, UpdateMoves
    <3>5. InvAt(r)'
      BY <1>2, <3>4 DEF InvAt, Located, LookedInto, Limited, HasChat, Local
    <3>6. used' \subseteq Chat
      BY <1>3, <2>2
    <3>7. QED
      BY <3>4, <3>5, <3>6
  <2>3. (IF req[r].hit THEN DropsOnError(r) ELSE << >>) \in Seq(Key)
    BY <1>2, KeyLists
  <2>4. QED
    BY <2>1, <2>2, <2>3, Zenon DEF Complete
<1>5. QED
  BY <1>1, <1>4, OneMoves DEF IInv, Moves, TypeOK, RecordsWhole, RecordsStay, NoRecord

LEMMA InvPreflight ==
  ASSUME IInv, NEW r \in Request, Preflight(r)
  PROVE  IInv' /\ Moves(r)
<1>1. UNCHANGED <<members, rest, owed, spared, memo, bound, writer, used>>
  BY DEF Preflight, pool, affinity, upstream
<1>2. req[r] \in Local /\ InvAt(r) /\ req[r].pc = "preflight" /\ TypeOK
  BY DEF IInv, TypeOK, Preflight
<1>3. Moves(r) /\ InvAt(r)'
  <2>1. CASE req[r].outcome = "empty"
    <3> DEFINE l == [req[r] EXCEPT !.pc = "drop", !.todrop = DropsOnEmpty(r), !.hit = FALSE]
    <3>1. DropsOnEmpty(r) \in Seq(Key)
      BY <1>2, KeyLists
    <3>2. l \in Local /\ l.endpoint = req[r].endpoint
      BY <1>2, <3>1 DEF Local
    <3>3. req' = [req EXCEPT ![r] = l]
      BY <2>1, Zenon DEF Preflight
    <3>4. Moves(r) /\ req'[r] = l
      BY <1>2, <3>2, <3>3, UpdateMoves
    <3>5. QED
      BY <1>2, <3>4 DEF InvAt, Located, LookedInto, Limited, HasChat, Local
  <2>2. CASE req[r].outcome # "empty"
    <3>1. Moves(r) /\ req'[r] = [req[r] EXCEPT !.pc = "bind"]
      BY <1>2, <2>2, GotoMoves DEF Preflight, Labels
    <3>2. QED
      BY <1>2, <2>2, <3>1 DEF InvAt, Located, LookedInto, Limited, HasChat, Local
  <2>3. QED
    BY <2>1, <2>2
<1>4. QED
  BY <1>1, <1>3, OneMoves DEF IInv, Moves, TypeOK, RecordsWhole, RecordsStay, NoRecord

LEMMA InvDropKey ==
  ASSUME IInv, NEW r \in Request, DropKey(r)
  PROVE  IInv' /\ Moves(r)
<1>1. UNCHANGED <<members, rest, owed, spared, bound, writer, used>>
  BY DEF DropKey, pool, affinity, upstream
<1>2. req[r] \in Local /\ InvAt(r) /\ req[r].pc = "drop" /\ TypeOK
  BY DEF IInv, TypeOK, DropKey
<1>3. Moves(r) /\ InvAt(r)' /\ memo' \in [Key -> Chat \cup {NoChat}]
  <2>1. CASE /\ req[r].todrop # << >>
             /\ Memo!Erase(Head(req[r].todrop))
             /\ req' = [req EXCEPT ![r].todrop = Tail(@)]
    <3> DEFINE l == [req[r] EXCEPT !.todrop = Tail(req[r].todrop)]
    <3>1. Tail(req[r].todrop) \in Seq(Key)
      BY <1>2, <2>1 DEF Local
    <3>2. l \in Local /\ l.endpoint = req[r].endpoint
      BY <1>2, <3>1 DEF Local
    <3>3. req' = [req EXCEPT ![r] = l]
      BY <2>1
    <3>4. Moves(r) /\ req'[r] = l
      BY <1>2, <3>2, <3>3, UpdateMoves
    <3>5. InvAt(r)'
      BY <1>2, <3>4 DEF InvAt, Located, LookedInto, Limited, HasChat, Local
    <3>6. QED
      BY <1>2, <2>1, <3>4, <3>5, MemoTyped DEF TypeOK
  <2>2. CASE Goto(r, "react") /\ UNCHANGED memo
    <3>1. Moves(r) /\ req'[r] = [req[r] EXCEPT !.pc = "react"]
      BY <1>2, <2>2, GotoMoves DEF Labels
    <3>2. InvAt(r)'
      BY <1>2, <3>1 DEF InvAt, Located, LookedInto, Limited, HasChat, Local
    <3>3. QED
      BY <1>2, <2>2, <3>1, <3>2 DEF TypeOK
  <2>3. QED
    BY <2>1, <2>2 DEF DropKey
<1>4. QED
  BY <1>1, <1>3, OneMoves DEF IInv, Moves, TypeOK, RecordsWhole, RecordsStay, NoRecord

\* A failed attempt: another one, which the limit allows, or the end.
LEMMA InvAfterError ==
  ASSUME IInv, NEW r \in Request, AfterError(r)
  PROVE  IInv' /\ Moves(r)
<1> DEFINE again == shouldRetry(req[r].outcome) /\ req[r].attempt < req[r].limit
<1>1. UNCHANGED <<memo, bound, writer, used>>
  BY DEF AfterError, affinity, upstream
<1>2. req[r] \in Local /\ InvAt(r) /\ req[r].pc = "react" /\ TypeOK
  BY DEF IInv, TypeOK, AfterError
<1>3. members' \subseteq Token /\ rest' \in [Token -> Nat]
  <2>1. \/ Pool!Cool(req[r].token)
        \/ UNCHANGED <<members, rest>>
    BY DEF AfterError, FinalMark, MarkOnRetry
  <2>2. QED
    BY <1>2, <2>1, GatewayAssumption DEF Pool!Cool, TypeOK
<1>4. owed' \in [Token -> Nat] /\ spared' \subseteq Token
  BY <1>2, GatewayAssumption DEF AfterError, TypeOK
<1>5. Moves(r) /\ InvAt(r)'
  <2>1. CASE again
    <3> DEFINE l == [req[r] EXCEPT !.pc = "take", !.attempt = req[r].attempt + 1,
                                   !.outcome = "none"]
    <3>1. /\ req[r].attempt \in Nat /\ req[r].limit \in Nat
          /\ req[r].attempt + 1 <= req[r].limit
      BY <1>2, <2>1 DEF Local
    <3>2. l \in Local
      <4>1. ASSUME NEW n \in Nat
            PROVE  [req[r] EXCEPT !.pc = "take", !.attempt = n, !.outcome = "none"] \in Local
        BY <1>2 DEF Local
      <4>2. req[r].attempt + 1 \in Nat
        BY <3>1
      <4>3. QED
        BY <4>1, <4>2
    <3>3. /\ l.endpoint = req[r].endpoint /\ l.attempt = req[r].attempt + 1
          /\ l.limit = req[r].limit /\ l.pc = "take" /\ l.answer = req[r].answer
      BY <1>2 DEF Local
    <3>4. req' = [req EXCEPT ![r] = l]
      BY <2>1, Zenon DEF AfterError
    <3>5. Moves(r) /\ req'[r] = l
      BY <1>2, <3>2, <3>3, <3>4, UpdateMoves
    <3>6. Limited(r)'
      BY <1>2, <3>1, <3>3, <3>5 DEF InvAt, Limited
    <3>7. Located(r)' /\ LookedInto(r)'
      BY <1>2, <3>3, <3>5 DEF InvAt, Located, LookedInto, HasChat
    <3>8. QED
      BY <3>5, <3>6, <3>7 DEF InvAt
  <2>2. CASE ~ again
    BY <1>2, <2>2, FinishMoves DEF AfterError
  <2>3. QED
    BY <2>1, <2>2
<1>6. QED
  BY <1>1, <1>3, <1>4, <1>5, OneMoves
  DEF IInv, Moves, TypeOK, RecordsWhole, RecordsStay, NoRecord

\* A cached chat's empty stream: the attempt it adds stays below the cap.
LEMMA InvAfterEmpty ==
  ASSUME IInv, NEW r \in Request, AfterEmpty(r)
  PROVE  IInv' /\ Moves(r)
<1> DEFINE extra == req[r].attempt >= req[r].limit
           grows == IF extra /\ req[r].endpoint # "chat" THEN 0 ELSE 1
           a     == req[r].attempt + grows
           m     == IF extra THEN a ELSE req[r].limit
           l     == [req[r] EXCEPT !.pc = "take", !.outcome = "none",
                                   !.attempt = a, !.limit = m]
<1>1. UNCHANGED <<members, rest, owed, spared, memo, bound, writer, used>>
  BY DEF AfterEmpty, pool, affinity, upstream
<1>2. req[r] \in Local /\ InvAt(r) /\ req[r].pc = "react" /\ TypeOK
  BY DEF IInv, TypeOK, AfterEmpty
<1>3. CASE extra /\ OutOfExtras(r)
  <2>1. Finish(r, "failed")
    BY <1>3 DEF AfterEmpty
  <2>2. Moves(r) /\ InvAt(r)'
    BY <1>2, <2>1, FinishMoves
  <2>3. QED
    BY <1>1, <2>2, OneMoves DEF IInv, Moves, TypeOK, RecordsWhole, RecordsStay, NoRecord
<1>4. CASE ~ (extra /\ OutOfExtras(r))
  <2>1. req' = [req EXCEPT ![r] = l]
    BY <1>4 DEF AfterEmpty
  <2>2. /\ a \in Nat /\ m \in Nat
        /\ req[r].endpoint = "chat"
             => a <= m /\ m <= MaxAttempts + MaxExtraRetries
    <3>1. /\ req[r].attempt \in Nat /\ req[r].limit \in Nat
          /\ MaxAttempts \in Nat /\ MaxExtraRetries \in Nat
      BY <1>2, GatewayAssumption DEF Local
    <3>2. a \in Nat /\ m \in Nat
      BY <3>1
    <3>3. ASSUME req[r].endpoint = "chat"
          PROVE  a <= m /\ m <= MaxAttempts + MaxExtraRetries
      <4>1. /\ req[r].attempt <= req[r].limit
            /\ req[r].limit <= MaxAttempts + MaxExtraRetries
        BY <1>2, <3>3 DEF InvAt, Limited
      <4>2. CASE extra
        <5>1. req[r].limit < MaxAttempts + MaxExtraRetries
          BY <1>4, <3>1, <3>3, <4>2 DEF OutOfExtras
        <5>2. QED
          BY <3>1, <3>3, <4>1, <4>2, <5>1
      <4>3. CASE ~ extra
        BY <3>1, <3>3, <4>1, <4>3
      <4>4. QED
        BY <4>2, <4>3
    <3>4. QED
      BY <3>2, <3>3
  <2> HIDE DEF a, m
  <2>3. /\ l \in Local /\ l.endpoint = req[r].endpoint /\ l.attempt = a /\ l.limit = m
        /\ l.pc = "take" /\ l.answer = req[r].answer
    BY <1>2, <2>2 DEF Local
  <2>4. Moves(r) /\ req'[r] = l
    BY <1>2, <2>1, <2>3, UpdateMoves
  <2>5. Limited(r)'
    BY <2>2, <2>3, <2>4 DEF Limited
  <2>6. Located(r)' /\ LookedInto(r)'
    BY <1>2, <2>3, <2>4 DEF InvAt, Located, LookedInto, HasChat
  <2>7. QED
    BY <1>1, <2>4, <2>5, <2>6, OneMoves
    DEF InvAt, IInv, Moves, TypeOK, RecordsWhole, RecordsStay, NoRecord
<1>5. QED
  BY <1>3, <1>4

LEMMA InvBind ==
  ASSUME IInv, NEW r \in Request, Bind(r)
  PROVE  IInv' /\ Moves(r)
<1> DEFINE s     == IF req[r].endpoint = "chat" THEN SessionOf[r] ELSE NoSession
           fresh == [token |-> req[r].token, chat |-> req[r].chat]
<1>1. UNCHANGED <<members, rest, owed, spared, memo, used>>
  BY DEF Bind, pool, upstream
<1>2. req[r] \in Local /\ InvAt(r) /\ req[r].pc = "bind" /\ TypeOK
  BY DEF IInv, TypeOK, Bind
<1>3. /\ req[r].chat \in Chat /\ req[r].token \in Token \cup {NoToken}
      /\ s # NoSession => s \in Session /\ SessionOf[r] = s
  BY <1>2, GatewayAssumption DEF InvAt, Located, HasChat, Local
<1>4. CASE s = NoSession /\ Goto(r, "stash") /\ UNCHANGED affinity
  <2>1. Moves(r) /\ req'[r] = [req[r] EXCEPT !.pc = "stash"]
    BY <1>2, <1>4, GotoMoves DEF Labels
  <2>2. InvAt(r)'
    BY <1>2, <2>1 DEF InvAt, Located, LookedInto, Limited, HasChat, Local
  <2>3. QED
    BY <1>1, <1>4, <2>1, <2>2, OneMoves
    DEF affinity, IInv, Moves, TypeOK, RecordsWhole, RecordsStay, NoRecord
<1>5. CASE s # NoSession /\ bound' = [bound EXCEPT ![s] = fresh]
           /\ Goto(r, "stash") /\ UNCHANGED writer
  <2>1. Moves(r) /\ req'[r] = [req[r] EXCEPT !.pc = "stash"]
    BY <1>2, <1>5, GotoMoves DEF Labels
  <2>2. InvAt(r)'
    BY <1>2, <2>1 DEF InvAt, Located, LookedInto, Limited, HasChat, Local
  <2>3. /\ bound' \in [Session -> [token : Token \cup {NoToken}, chat : Chat \cup {NoChat}]]
        /\ bound'[s] = fresh /\ \A t \in Session \ {s} : bound'[t] = bound[t]
    BY <1>2, <1>3, <1>5 DEF TypeOK
  <2>4. fresh # NoRecord
    BY <1>3, GatewayAssumption DEF NoRecord
  <2>5. RecordsStay /\ RecordsWhole'
    BY <1>3, <2>3, <2>4 DEF RecordsStay, RecordsWhole, IInv, NoRecord
  <2>6. QED
    BY <1>1, <1>5, <2>1, <2>2, <2>3, <2>5, OneMoves DEF IInv, Moves, TypeOK
<1>6. CASE s # NoSession /\ bound[s] # NoRecord
           /\ bound' = [bound EXCEPT ![s].token = fresh.token]
           /\ writer' = r /\ Goto(r, "bindChat")
  <2>1. Moves(r) /\ req'[r] = [req[r] EXCEPT !.pc = "bindChat"]
    BY <1>2, <1>6, GotoMoves DEF Labels
  <2>2. InvAt(r)'
    BY <1>2, <1>3, <1>6, <2>1 DEF InvAt, Located, LookedInto, Limited, HasChat, Local
  <2>3. /\ bound' \in [Session -> [token : Token \cup {NoToken}, chat : Chat \cup {NoChat}]]
        /\ bound'[s].chat = bound[s].chat
        /\ \A t \in Session \ {s} : bound'[t] = bound[t]
    BY <1>2, <1>3, <1>6 DEF TypeOK
  <2>4. bound[s].chat \in Chat
    BY <1>3, <1>6 DEF IInv, RecordsWhole
  <2>5. RecordsStay /\ RecordsWhole'
    <3>1. \A t \in Session : bound'[t].chat = bound[t].chat
      BY <2>3
    <3>2. bound'[s] # NoRecord
      BY <2>3, <2>4, GatewayAssumption DEF NoRecord
    <3>3. QED
      BY <2>3, <2>4, <3>1, <3>2 DEF RecordsStay, RecordsWhole, IInv, NoRecord
  <2>6. QED
    BY <1>1, <1>6, <2>1, <2>2, <2>3, <2>5, OneMoves DEF IInv, Moves, TypeOK
<1>7. QED
  BY <1>4, <1>5, <1>6 DEF Bind

LEMMA InvBindChat ==
  ASSUME IInv, NEW r \in Request, BindChat(r)
  PROVE  IInv' /\ Moves(r)
<1> DEFINE s == SessionOf[r]
<1>1. UNCHANGED <<members, rest, owed, spared, memo, used>>
  BY DEF BindChat, pool, upstream
<1>2. req[r] \in Local /\ InvAt(r) /\ req[r].pc = "bindChat" /\ TypeOK
  BY DEF IInv, TypeOK, BindChat
<1>3. req[r].chat \in Chat /\ s \in Session
  BY <1>2 DEF InvAt, Located, HasChat
<1>4. Moves(r) /\ req'[r] = [req[r] EXCEPT !.pc = "stash"]
  BY <1>2, GotoMoves DEF BindChat, Labels
<1>5. InvAt(r)'
  BY <1>2, <1>4 DEF InvAt, Located, LookedInto, Limited, HasChat, Local
<1>6. /\ bound' \in [Session -> [token : Token \cup {NoToken}, chat : Chat \cup {NoChat}]]
      /\ bound'[s].chat = req[r].chat
      /\ \A t \in Session \ {s} : bound'[t] = bound[t]
  BY <1>2, <1>3 DEF BindChat, TypeOK
<1>7. bound'[s] # NoRecord
  BY <1>3, <1>6, GatewayAssumption DEF NoRecord
<1>8. RecordsStay /\ RecordsWhole'
  BY <1>3, <1>6, <1>7 DEF RecordsStay, RecordsWhole, IInv, NoRecord
<1>9. writer' = Nobody
  BY DEF BindChat, Unlocked
<1>10. QED
  BY <1>1, <1>4, <1>5, <1>6, <1>8, <1>9, OneMoves DEF IInv, Moves, TypeOK

LEMMA InvStash ==
  ASSUME IInv, NEW r \in Request, Stash(r)
  PROVE  IInv' /\ Moves(r)
<1>1. UNCHANGED <<members, rest, owed, spared, bound, writer, used>>
  BY DEF Stash, pool, affinity, upstream
<1>2. req[r] \in Local /\ InvAt(r) /\ req[r].pc = "stash" /\ TypeOK
  BY DEF IInv, TypeOK, Stash
<1>3. memo' \in [Key -> Chat \cup {NoChat}]
  <2>1. req[r].chat \in Chat /\ (Memo!Remember(RespKey[r], req[r].chat) \/ UNCHANGED memo)
    BY <1>2 DEF InvAt, Located, HasChat, Stash
  <2>2. QED
    BY <1>2, <2>1, MemoTyped DEF TypeOK
<1>4. Moves(r) /\ InvAt(r)'
  <2> DEFINE reply == IF req[r].outcome = "empty" THEN "empty" ELSE "content"
  <2>1. Finish(r, reply)
    BY DEF Stash
  <2>2. reply \in {"none", "content", "empty", "unavailable", "failed"}
    OBVIOUS
  <2>3. reply = "empty" => req[r].origin # "cache"
    BY <1>2 DEF InvAt, LookedInto
  <2>4. QED
    BY <1>2, <2>1, <2>2, <2>3, FinishMoves
<1>5. QED
  BY <1>1, <1>3, <1>4, OneMoves DEF IInv, Moves, TypeOK, RecordsWhole, RecordsStay, NoRecord

\* What happens around the handlers leaves their locals and the records alone.
LEMMA InvAround ==
  ASSUME IInv, Reload \/ Tick \/ Forget
  PROVE  IInv'
<1>1. UNCHANGED <<bound, writer, used, req>>
  BY DEF Reload, Tick, Forget, affinity, upstream
<1>2. \A r \in Request : InvAt(r)'
  BY <1>1 DEF IInv, InvAt, Located, LookedInto, Limited, NoRecord
<1>3. RecordsWhole'
  BY <1>1 DEF IInv, RecordsWhole, NoRecord
<1>4. TypeOK'
  <2>1. CASE Reload
    <3>1. PICK set \in TokenSets :
            /\ Pool!Install(set)
            /\ owed' = [v \in Token |-> IF v \in set \cap members THEN owed[v] ELSE 0]
            /\ spared' = spared \cap set \cap members
      BY <2>1 DEF Reload
    <3>2. set \subseteq Token /\ UNCHANGED memo
      BY <2>1, GatewayAssumption DEF Reload
    <3>3. QED
      BY <1>1, <3>1, <3>2 DEF Pool!Install, IInv, TypeOK
  <2>2. CASE Tick
    BY <1>1, <2>2 DEF Tick, Pool!Elapse, Less, IInv, TypeOK
  <2>3. CASE Forget
    BY <1>1, <2>3, MemoTyped DEF Forget, pool, IInv, TypeOK
  <2>4. QED
    BY <2>1, <2>2, <2>3
<1>5. QED
  BY <1>2, <1>3, <1>4 DEF IInv

LEMMA InvStep ==
  ASSUME IInv, NEW r \in Request, Step(r)
  PROVE  IInv' /\ Moves(r)
BY InvLookupSession, InvReadToken, InvReadChat, InvTake, InvFind, InvCreate, InvIndex,
   InvStore, InvComplete, InvPreflight, InvDropKey, InvAfterError, InvAfterEmpty, InvBind,
   InvBindChat, InvStash
DEF Step

LEMMA InvNext == IInv /\ [Next]_vars => IInv'
<1> SUFFICES ASSUME IInv, [Next]_vars PROVE IInv'
  OBVIOUS
<1>1. CASE UNCHANGED vars
  BY <1>1 DEF vars, IInv, TypeOK, RecordsWhole, InvAt, Located, LookedInto, Limited, NoRecord
<1>2. ASSUME NEW r \in Request, Step(r) PROVE IInv'
  BY <1>2, InvStep
<1>3. QED
  BY <1>1, <1>2, InvAround DEF Next

\* Every request's locals, every session's record, the cache and the pool hold
\* only what the handlers may put there, whatever the interleaving.
THEOREM TypeCorrect == Spec => []TypeOK
<1>1. IInv => TypeOK
  BY DEF IInv
<1>2. QED
  BY <1>1, IInvInit, InvNext, PTL DEF Spec

\* chat.go:323: no client is sent the empty stream of a chat its request took
\* from the cache, however many requests share the cache and the upstream.
THEOREM NeverServed == Spec => []CachedChatNeverServedEmpty
<1>1. IInv => CachedChatNeverServedEmpty
  BY DEF IInv, InvAt, LookedInto, CachedChatNeverServedEmpty
<1>2. QED
  BY <1>1, IInvInit, InvNext, PTL DEF Spec

\* chat.go:348: a chat request makes at most the configured attempts and the
\* extra ones, however often the upstream answers it with an empty stream.
THEOREM Capped == Spec => []AttemptsCapped
<1>1. IInv => AttemptsCapped
  <2> SUFFICES ASSUME IInv, NEW r \in Request, req[r].endpoint = "chat"
               PROVE  req[r].attempt <= MaxAttempts + MaxExtraRetries
    BY DEF AttemptsCapped
  <2>1. req[r].attempt \in Nat /\ req[r].limit \in Nat
    BY DEF IInv, TypeOK, Local
  <2>2. MaxAttempts \in Nat /\ MaxExtraRetries \in Nat
    BY GatewayAssumption
  <2>3. /\ req[r].attempt <= req[r].limit
        /\ req[r].limit <= MaxAttempts + MaxExtraRetries
    BY DEF IInv, InvAt, Limited
  <2>4. QED
    BY <2>1, <2>2, <2>3
<1>2. QED
  BY <1>1, IInvInit, InvNext, PTL DEF Spec

-----------------------------------------------------------------------------
\* The rest a rejected token is owed.
LEMMA DebtsInit == Init => DebtsRested
BY GatewayAssumption DEF Init, DebtsRested, Start, Pool!Init

\* Only a failed attempt puts a token to rest.
LEMMA OnlyErrorsCool ==
  ASSUME NEW r \in Request, Step(r), ~ AfterError(r)
  PROVE  UNCHANGED <<members, rest, owed, spared>>
BY DEF Step, LookupSession, ReadToken, ReadChat, Take, Find, Create, Index, Store, Complete,
       Preflight, DropKey, AfterEmpty, Bind, BindChat, Stash, pool

LEMMA DebtsAfterError ==
  ASSUME IInv, DebtsRested, NEW r \in Request, AfterError(r)
  PROVE  DebtsRested'
<1> DEFINE me == req[r]
           again == shouldRetry(me.outcome) /\ me.attempt < me.limit
<1>1. /\ members \subseteq Token /\ rest \in [Token -> Nat] /\ owed \in [Token -> Nat]
      /\ Cooldown \in Nat
  BY GatewayAssumption DEF IInv, TypeOK
<1>2. members' = members
  BY DEF AfterError, FinalMark, MarkOnRetry, Pool!Cool
<1>3. owed' = IF me.outcome = "auth" /\ me.token \in members
              THEN [owed EXCEPT ![me.token] = Cooldown] ELSE owed
  BY DEF AfterError
<1>4. \A v \in Token : owed'[v] <= Cooldown
  BY <1>1, <1>3 DEF DebtsRested
<1>5. ASSUME NEW v \in members, v \notin spared'
      PROVE  owed'[v] <= rest'[v]
  <2>1. CASE v = me.token /\ me.outcome = "auth"
    <3>1. ~ (me.endpoint = "claude" /\ ~ again)
      BY <1>5, <2>1 DEF AfterError
    <3>2. Pool!Cool(me.token)
      BY <2>1, <3>1 DEF AfterError, FinalMark, MarkOnRetry
    <3>3. rest'[v] = Cooldown
      BY <1>1, <2>1, <3>2 DEF Pool!Cool
    <3>4. QED
      BY <1>1, <1>4, <3>3
  <2>2. CASE ~ (v = me.token /\ me.outcome = "auth")
    <3>1. v \notin spared /\ owed'[v] = owed[v]
      BY <1>1, <1>3, <1>5, <2>2 DEF AfterError
    <3>2. owed[v] <= rest[v] /\ owed[v] <= Cooldown
      BY <1>1, <3>1 DEF DebtsRested
    <3>3. Pool!Cool(me.token) \/ UNCHANGED rest
      BY DEF AfterError, FinalMark, MarkOnRetry
    <3>4. CASE Pool!Cool(me.token)
      <4>1. rest' = [rest EXCEPT ![me.token] = IF me.token \in members THEN Cooldown ELSE 0]
        BY <3>4 DEF Pool!Cool
      <4>2. rest'[v] = rest[v] \/ rest'[v] = Cooldown
        BY <1>1, <4>1
      <4>3. QED
        BY <3>1, <3>2, <4>2
    <3>5. QED
      BY <3>1, <3>2, <3>3, <3>4
  <2>3. QED
    BY <2>1, <2>2
<1>6. QED
  BY <1>2, <1>4, <1>5 DEF DebtsRested

LEMMA DebtsNext == IInv /\ DebtsRested /\ [Next]_vars => DebtsRested'
<1> SUFFICES ASSUME IInv, DebtsRested, [Next]_vars PROVE DebtsRested'
  OBVIOUS
<1>1. /\ members \subseteq Token /\ rest \in [Token -> Nat] /\ owed \in [Token -> Nat]
      /\ Cooldown \in Nat
  BY GatewayAssumption DEF IInv, TypeOK
<1>2. CASE UNCHANGED vars
  BY <1>2 DEF vars, DebtsRested
<1>3. ASSUME NEW r \in Request, Step(r) PROVE DebtsRested'
  <2>1. CASE AfterError(r)
    BY <2>1, DebtsAfterError
  <2>2. CASE ~ AfterError(r)
    BY <1>3, <2>2, OnlyErrorsCool DEF DebtsRested
  <2>3. QED
    BY <2>1, <2>2
<1>4. CASE Reload
  <2>1. PICK set \in TokenSets :
          /\ Pool!Install(set)
          /\ owed' = [v \in Token |-> IF v \in set \cap members THEN owed[v] ELSE 0]
          /\ spared' = spared \cap set \cap members
    BY <1>4 DEF Reload
  <2>2. set \subseteq Token
    BY GatewayAssumption
  <2>3. \A v \in Token : owed'[v] <= Cooldown
    BY <1>1, <2>1 DEF DebtsRested
  <2>4. ASSUME NEW v \in set, v \notin spared'
        PROVE  owed'[v] <= rest'[v]
    BY <1>1, <2>1, <2>2, <2>4 DEF DebtsRested, Pool!Install
  <2>5. QED
    BY <2>1, <2>3, <2>4 DEF DebtsRested, Pool!Install
<1>5. CASE Tick
  <2>1. /\ UNCHANGED members
        /\ rest' = [v \in Token |-> IF rest[v] > 0 THEN rest[v] - 1 ELSE 0]
        /\ owed' = [v \in Token |-> IF owed[v] > 0 THEN owed[v] - 1 ELSE 0]
        /\ spared' = {v \in spared : owed'[v] > 0}
    BY <1>1, <1>5 DEF Tick, Pool!Elapse, Less, IInv, TypeOK
  <2>2. \A v \in Token : owed'[v] <= Cooldown
    BY <1>1, <2>1 DEF DebtsRested
  <2>3. ASSUME NEW v \in members, v \notin spared'
        PROVE  owed'[v] <= rest'[v]
    <3>1. v \in Token
      BY <1>1
    <3>2. CASE v \in spared
      BY <1>1, <2>1, <2>3, <3>1, <3>2
    <3>3. CASE v \notin spared
      <4>1. owed[v] <= rest[v]
        BY <3>3 DEF DebtsRested
      <4>2. QED
        BY <1>1, <2>1, <3>1, <4>1
    <3>4. QED
      BY <3>2, <3>3
  <2>4. QED
    BY <2>1, <2>2, <2>3 DEF DebtsRested
<1>6. CASE Forget
  BY <1>6 DEF Forget, pool, DebtsRested
<1>7. QED
  BY <1>2, <1>3, <1>4, <1>5, <1>6 DEF Next

\* No request at any endpoint is handed a rejected token before its cooldown is
\* over, through any reloads of the pool, unless the last rejection of it was what
\* a claude request gave up over.
THEOREM TokenRests == Spec => MarkedTokenRests
<1>1. ASSUME IInv, DebtsRested, Next, NEW r \in Request, NEW t \in Token, IsHanded(r, t)
      PROVE  owed[t] = 0 \/ t \in spared
  <2>0. req[r].pc = "take" /\ req'[r].pc = "find" /\ req'[r].token = t
    BY <1>1 DEF IsHanded
  <2>1. PICK q \in Request : Step(q)
    BY <1>1, <2>0 DEF Next, Reload, Tick, Forget
  <2>2. q = r
    BY <1>1, <2>0, <2>1, InvStep DEF Moves
  <2>3. Take(r)
    BY <2>0, <2>1, <2>2
    DEF Step, LookupSession, ReadToken, ReadChat, Find, Create, Index, Store, Complete,
        Preflight, DropKey, AfterError, AfterEmpty, Bind, BindChat, Stash
  <2>4. PICK v \in members :
          /\ rest[v] = 0
          /\ req' = [req EXCEPT ![r].pc = "find", ![r].token = v,
                                ![r].chat = NoChat, ![r].looked = 0]
    <3>1. ASSUME Finish(r, "unavailable") PROVE FALSE
      <4>1. req'[r].pc = "done"
        BY <1>1, <3>1, FinishMoves DEF IInv
      <4>2. QED
        BY <2>0, <4>1
    <3>2. QED
      BY <2>3, <3>1 DEF Take, Pool!Ready
  <2>5. req'[r].token = v
    BY <1>1, <2>4 DEF IInv, TypeOK, Local
  <2>6. v \notin spared => owed[v] <= rest[v]
    BY <1>1 DEF DebtsRested
  <2>7. owed[v] \in Nat
    BY <1>1 DEF IInv, TypeOK
  <2>8. QED
    BY <2>0, <2>4, <2>5, <2>6, <2>7
<1>2. IInv /\ DebtsRested /\ [Next]_vars
        => [\A r \in Request, v \in Token :
              IsHanded(r, v) => owed[v] = 0 \/ v \in spared]_vars
  BY <1>1
<1>3. QED
  BY <1>2, IInvInit, InvNext, DebtsInit, DebtsNext, PTL DEF Spec, MarkedTokenRests

=============================================================================
