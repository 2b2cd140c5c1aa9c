------------------------------ MODULE Gateway ------------------------------
(***************************************************************************)
(* internal/server: how the three chat endpoints get an upstream stream    *)
(* for a request.  handleChatCompletions, handleClaudeMessages and         *)
(* handleResponses run the same attempt loop with differences that matter: *)
(* take a token, look the prompt up in the chat cache, create a chat if it *)
(* is not there, open the completion, look at what a cached chat answers,  *)
(* and on a failure drop the keys, punish the token and go round again.    *)
(*                                                                         *)
(* Requests interleave at every access to something they share: the pool,  *)
(* the cache, the affinity store and the upstream.  The pool and the cache *)
(* are the services TokenPool and PromptCache are shown to implement.      *)
(* Left out: image upload (such a request looks up and stores nothing: it  *)
(* is one whose keys are all NoKey), the content of prompts and answers,   *)
(* logging and metrics.                                                    *)
(***************************************************************************)
EXTENDS Naturals, Sequences

CONSTANTS
  Request,                           \* one handler goroutine each
  Endpoints,                         \* of "chat", "claude", "responses", those explored
  Key, NoKey,                        \* cache keys
  CacheKey, LookupKey, StoreKey,     \* per request: prompt, prefix and full-history hash
  PrevKey, RespKey,                  \* per request: previous_response_id, own response id
  Session, NoSession, SessionOf,     \* affinity sessions (chat endpoint only)
  Chat, NoChat,                      \* upstream chat ids
  Token, NoToken, Cooldown, TokenSets,
  MaxAttempts,                       \* Config.Retry.MaxAttempts
  RetryOnFailure,                    \* Config.Features.RetryOnTokenFailure
  MaxExtraRetries,                   \* maxExtraRetries, 3 in chat.go
  Faults,                            \* the upstream errors an instance explores
  Nobody                             \* no request holds the affinity lock

ASSUME GatewayAssumption ==
  /\ Endpoints \subseteq {"chat", "claude", "responses"}
  /\ NoKey \notin Key /\ NoChat \notin Chat /\ NoToken \notin Token
  /\ NoSession \notin Session /\ Nobody \notin Request
  /\ {CacheKey, LookupKey, StoreKey, PrevKey, RespKey}
        \subseteq [Request -> Key \cup {NoKey}]
  /\ SessionOf \in [Request -> Session \cup {NoSession}]
  /\ Faults \subseteq {"auth", "limit", "other"}
  /\ TokenSets \subseteq SUBSET Token
  /\ MaxAttempts \in Nat \ {0} /\ MaxExtraRetries \in Nat /\ Cooldown \in Nat
  /\ RetryOnFailure \in BOOLEAN

VARIABLES
  members, rest,   \* the token pool, as TokenService
  memo,            \* the chat cache, as ChatMemo
  bound, writer,   \* affinity: the record of each session, the holder of its lock
  used,            \* upstream: chats that had a completion
  req,             \* the local variables of each handler
  owed,            \* history: ticks a token rejected with 401/403 should rest
  spared           \* history: those whose rejection ended a claude request

vars == <<members, rest, memo, bound, writer, used, req, owed, spared>>

Pool == INSTANCE TokenService WITH handed <- NoToken, call <- << >>, Renewals <- {}
Memo == INSTANCE ChatMemo WITH found <- NoChat, call <- << >>

pool     == <<members, rest, owed, spared>>
affinity == <<bound, writer>>
upstream == used

NoRecord == [token |-> NoToken, chat |-> NoChat]

Local == [endpoint : Endpoints,
          pc      : {"session", "readToken", "readChat", "take", "find", "create", "index",
                     "store", "complete", "preflight", "drop", "react", "bind", "bindChat",
                     "stash", "done"},
          attempt : Nat, limit : Nat,                 \* attempt and maxAttempts
          token   : Token \cup {NoToken},
          chat    : Chat \cup {NoChat},
          looked  : Nat,                              \* cache lookups made this attempt
          hit     : BOOLEAN,                          \* cacheHit
          origin  : {"none", "fresh", "cache", "affinity"},  \* where chat came from
          outcome : {"none", "ok", "empty", "auth", "limit", "other"},
          todrop  : Seq(Key),                         \* keys still to invalidate
          answer  : {"none", "content", "empty", "unavailable", "failed"}]

-----------------------------------------------------------------------------
\* A key a handler uses only if it is set, as the list of the keys to use.
IfSet(k) == IF k = NoKey THEN << >> ELSE <<k>>

\* The keys each handler looks up, in its order.
ChatKeys(r)      == IfSet(CacheKey[r]) \o IfSet(LookupKey[r])
ClaudeKeys(r)    == IfSet(LookupKey[r]) \o IfSet(CacheKey[r])
ResponsesKeys(r) == IfSet(PrevKey[r]) \o IfSet(LookupKey[r]) \o IfSet(CacheKey[r])

LookupOrder(r) ==
  CASE req[r].endpoint = "chat"      -> ChatKeys(r)
    [] req[r].endpoint = "claude"    -> ClaudeKeys(r)
    [] req[r].endpoint = "responses" -> ResponsesKeys(r)

\* What a handler invalidates after a cached chat's empty stream, in its order.
DropsUnset(r) == <<CacheKey[r], LookupKey[r], StoreKey[r]>>    \* mutant: no test for an unset key

ChatEmptyDrops(r)      == IfSet(CacheKey[r]) \o IfSet(LookupKey[r]) \o IfSet(StoreKey[r])

DropsNothing(r)        == << >>                                 \* mutant
ClaudeEmptyDrops(r)    == IfSet(CacheKey[r]) \o IfSet(LookupKey[r]) \o IfSet(StoreKey[r])

ResponsesEmptyDrops(r) == IfSet(PrevKey[r]) \o IfSet(LookupKey[r]) \o IfSet(StoreKey[r]) \o IfSet(CacheKey[r])

DropsOnEmpty(r) ==
  CASE req[r].endpoint = "chat"      -> ChatEmptyDrops(r)
    [] req[r].endpoint = "claude"    -> ClaudeEmptyDrops(r)
    [] req[r].endpoint = "responses" -> ResponsesEmptyDrops(r)

\* What it invalidates when Completions fails on a cached chat: the chat
\* handler its prompt key only, the others all of their keys.
ChatErrorDrops(r)      == IfSet(CacheKey[r])
ClaudeErrorDrops(r)    == IfSet(LookupKey[r]) \o IfSet(StoreKey[r]) \o IfSet(CacheKey[r])
ResponsesErrorDrops(r) == ResponsesEmptyDrops(r)

DropsOnError(r) ==
  CASE req[r].endpoint = "chat"      -> ChatErrorDrops(r)
    [] req[r].endpoint = "claude"    -> ClaudeErrorDrops(r)
    [] req[r].endpoint = "responses" -> ResponsesErrorDrops(r)

\* shouldRetry: 401, 403 and 429 may go away with another token.
shouldRetry(outcome) == outcome \in {"auth", "limit"}

\* The upstream: a chat that had a completion may answer with an empty stream
\* or may continue, one that had none answers.
Streams(c) == IF c \in used THEN {"ok", "empty"} ELSE {"ok"}

\* A chat id nobody refers to any more stands for a new one.
Referenced ==
  {memo[k] : k \in Key} \cup {bound[s].chat : s \in Session} \cup {req[r].chat : r \in Request}
Free == Chat \ Referenced
NewId == CHOOSE c \in Chat : c \in Free

Goto(r, label) == req' = [req EXCEPT ![r].pc = label]

\* A handler's local variables when its attempts begin.
Start(r, endpoint) ==
  [endpoint |-> endpoint,
   pc      |-> IF endpoint = "chat" /\ SessionOf[r] # NoSession THEN "session" ELSE "take",
   attempt |-> 1,
   limit   |-> IF RetryOnFailure THEN MaxAttempts ELSE 1,
   token   |-> NoToken, chat |-> NoChat,
   looked  |-> 0, hit |-> FALSE, origin |-> "none",
   outcome |-> "none", todrop |-> << >>, answer |-> "none"]

\* The attempts are over; of the locals only the answer and where it came from
\* matter from here on.
Finish(r, reply) ==
  req' = [req EXCEPT ![r] = [Start(r, req[r].endpoint) EXCEPT !.pc = "done", !.answer = reply,
                                             !.origin = req[r].origin]]

-----------------------------------------------------------------------------
Init ==
  /\ Pool!Init
  /\ Memo!Init
  /\ bound   = [s \in Session |-> NoRecord]
  /\ writer  = Nobody
  /\ used    = {}
  /\ owed    = [v \in Token |-> 0]
  /\ spared  = {}
  /\ \E endpoint \in Endpoints : req = [r \in Request |-> Start(r, endpoint)]

\* Affinity.Lookup returns a pointer to the live record (or a miss: no record,
\* or one past its TTL); only this call is under the store's lock.
LookupSession(r) ==
  /\ req[r].pc = "session"
  /\ writer = Nobody
  /\ \/ bound[SessionOf[r]] # NoRecord /\ Goto(r, "readToken")
     \/ Goto(r, "take")
  /\ UNCHANGED <<pool, memo, affinity, upstream>>

\* The handler then reads the record's fields one by one, without the lock.
ReadToken(r) ==
  /\ req[r].pc = "readToken"
  /\ req' = [req EXCEPT ![r].pc = "readChat", ![r].token = bound[SessionOf[r]].token]
  /\ UNCHANGED <<pool, memo, affinity, upstream>>

ReadChat(r) ==
  /\ req[r].pc = "readChat"
  /\ req' = [req EXCEPT ![r].pc = "store", ![r].origin = "affinity",
                        ![r].chat = bound[SessionOf[r]].chat]
  /\ UNCHANGED <<pool, memo, affinity, upstream>>

Take(r) ==
  /\ req[r].pc = "take"
  /\ \/ \E v \in members :
          /\ Pool!Ready(v)
          /\ req' = [req EXCEPT ![r].pc = "find", ![r].token = v,
                                ![r].chat = NoChat, ![r].looked = 0]
     \/ Pool!NoneReady /\ Finish(r, "unavailable")
  /\ UNCHANGED <<pool, memo, affinity, upstream>>

\* One Cache.Get: the next key of the handler's order.
Find(r) ==
  LET next == req[r].looked + 1
  IN /\ req[r].pc = "find"
     /\ \/ /\ next <= Len(LookupOrder(r))
           /\ LET c == memo[LookupOrder(r)[next]]
              IN IF c # NoChat
                 THEN req' = [req EXCEPT ![r].pc = "store", ![r].chat = c,
                                         ![r].hit = TRUE, ![r].origin = "cache"]
                 ELSE req' = [req EXCEPT ![r].looked = next]
        \/ next > Len(LookupOrder(r)) /\ Goto(r, "create")
     /\ UNCHANGED <<pool, memo, affinity, upstream>>

\* Qwen.NewChat.
Create(r) ==
  /\ req[r].pc = "create"
  /\ \/ /\ Free # {}      \* bound: an instance has ids enough for every request to hold a new one
        /\ req' = [req EXCEPT ![r].pc = IF CacheKey[r] # NoKey THEN "index" ELSE "store",
                              ![r].chat = NewId, ![r].origin = "fresh"]
        /\ used' = used \ Free
     \/ \E fault \in Faults :
          /\ req' = [req EXCEPT ![r].pc = "react", ![r].outcome = fault]
          /\ UNCHANGED upstream
  /\ UNCHANGED <<pool, memo, affinity>>

\* Cache.Put of a fresh chat under the prompt's key, before anything is known
\* of its completion.
Index(r) ==
  /\ req[r].pc = "index"
  /\ Memo!Remember(CacheKey[r], req[r].chat)
  /\ Goto(r, "store")
  /\ UNCHANGED <<pool, affinity, upstream>>

\* Cache.Put under the key the next turn will look up, on a hit as well.
Store(r) ==
  /\ req[r].pc = "store"
  /\ IF StoreKey[r] # NoKey THEN Memo!Remember(StoreKey[r], req[r].chat) ELSE UNCHANGED memo
  /\ Goto(r, "complete")
  /\ UNCHANGED <<pool, affinity, upstream>>

\* Whether a stream is looked into before it is used: when the chat is a cached one.
NoPreflight(hit) == FALSE                                      \* mutant

PreflightIf(hit) == hit

\* Qwen.Completions: a stream, or an error after which the chat may be used up.
Complete(r) ==
  LET me == req[r]
      drops == IF me.hit THEN DropsOnError(r) ELSE << >>
  IN /\ me.pc = "complete"
     /\ \/ \E stream \in Streams(me.chat) :
             /\ req'  = [req EXCEPT ![r].outcome = stream,
                                    ![r].pc = IF PreflightIf(me.hit) THEN "preflight" ELSE "bind"]
             /\ used' = used \cup {me.chat}
        \/ \E fault \in Faults :
             /\ req' = [req EXCEPT ![r].pc = "drop", ![r].outcome = fault,
                                   ![r].todrop = drops,
                                   ![r].hit = req[r].endpoint = "chat" /\ me.hit /\ drops = << >>]
             /\ used' \in {used, IF fault = "other" THEN used \cup {me.chat} ELSE used}
     /\ UNCHANGED <<pool, memo, affinity>>

\* preflightChatIDReuseDebug reads ahead in a cached chat's stream.
Preflight(r) ==
  /\ req[r].pc = "preflight"
  /\ IF req[r].outcome = "empty"
     THEN req' = [req EXCEPT ![r].pc = "drop", ![r].todrop = DropsOnEmpty(r), ![r].hit = FALSE]
     ELSE Goto(r, "bind")
  /\ UNCHANGED <<pool, memo, affinity, upstream>>

\* Cache.Invalidate, one key at a time.
DropKey(r) ==
  /\ req[r].pc = "drop"
  /\ \/ /\ req[r].todrop # << >>
        /\ Memo!Erase(Head(req[r].todrop))
        /\ req' = [req EXCEPT ![r].todrop = Tail(@)]
     \/ /\ req[r].todrop = << >>
        /\ Goto(r, "react")
        /\ UNCHANGED memo
  /\ UNCHANGED <<pool, affinity, upstream>>

\* What a handler does to the token when it gives up: chat and responses call
\* handleUpstreamFailure, which marks it on 401/403; claude writes its error.
FinalMark(r) ==
  IF req[r].outcome = "auth" /\ req[r].endpoint # "claude"
  THEN Pool!Cool(req[r].token)
  ELSE UNCHANGED <<members, rest>>

NoMark(v) == UNCHANGED <<members, rest>>                       \* mutant

MarkOnRetry(v) == Pool!Cool(v)

\* An upstream error: MarkBad and another attempt, or the error to the client.
AfterError(r) ==
  LET me == req[r]
      again == shouldRetry(me.outcome) /\ me.attempt < me.limit
  IN /\ me.pc = "react" /\ me.outcome # "empty"
     /\ IF again
        THEN /\ MarkOnRetry(me.token)
             /\ req' = [req EXCEPT ![r].pc = "take", ![r].attempt = @ + 1, ![r].outcome = "none"]
        ELSE FinalMark(r) /\ Finish(r, "failed")
     /\ owed' = IF me.outcome = "auth" /\ me.token \in members
                THEN [owed EXCEPT ![me.token] = Cooldown] ELSE owed
     /\ spared' = IF me.outcome = "auth" /\ me.token \in members
                  THEN IF me.endpoint = "claude" /\ ~ again
                       THEN spared \cup {me.token} ELSE spared \ {me.token}
                  ELSE spared
     /\ UNCHANGED <<memo, affinity, upstream>>

\* The chat handler's cap on the attempts it adds for empty streams.
NeverOut(r) == FALSE                                           \* mutant

OutOfExtras(r) ==
  req[r].endpoint = "chat" /\ req[r].limit >= MaxAttempts + MaxExtraRetries

\* An empty stream from a cached chat: another attempt, an extra one if the
\* limit is reached.  The claude and responses handlers only compare attempt
\* with limit, so an extra attempt, which raises both by one, leaves them alone.
AfterEmpty(r) ==
  LET me    == req[r]
      extra == me.attempt >= me.limit
      grows == IF extra /\ req[r].endpoint # "chat" THEN 0 ELSE 1
  IN /\ me.pc = "react" /\ me.outcome = "empty"
     /\ IF extra /\ OutOfExtras(r)
        THEN Finish(r, "failed")
        ELSE req' = [req EXCEPT ![r].pc = "take", ![r].outcome = "none",
                                ![r].attempt = @ + grows,
                                ![r].limit = IF extra THEN me.attempt + grows ELSE @]
     /\ UNCHANGED <<pool, memo, affinity, upstream>>

\* Affinity.Bind, under the store's write lock: a new record appears whole, an
\* existing one gets its token first and its chat second.
Bind(r) ==
  LET s == IF req[r].endpoint = "chat" THEN SessionOf[r] ELSE NoSession
      fresh == [token |-> req[r].token, chat |-> req[r].chat]
  IN /\ req[r].pc = "bind"
     /\ \/ s = NoSession /\ Goto(r, "stash") /\ UNCHANGED affinity
        \/ /\ s # NoSession /\ writer = Nobody /\ bound[s] = NoRecord
           /\ bound' = [bound EXCEPT ![s] = fresh]
           /\ Goto(r, "stash")
           /\ UNCHANGED writer
        \/ /\ s # NoSession /\ writer = Nobody /\ bound[s] # NoRecord
           /\ bound' = [bound EXCEPT ![s].token = fresh.token]
           /\ writer' = r
           /\ Goto(r, "bindChat")
     /\ UNCHANGED <<pool, memo, upstream>>

StillLocked(r) == r                                            \* mutant: no Unlock

Unlocked(r) == Nobody

BindChat(r) ==
  /\ req[r].pc = "bindChat"
  /\ bound'  = [bound EXCEPT ![SessionOf[r]].chat = req[r].chat]
  /\ writer' = Unlocked(r)
  /\ Goto(r, "stash")
  /\ UNCHANGED <<pool, memo, upstream>>

\* The responses handler stores the chat under the response id it answers
\* with; then every handler streams what it has to the client.
Stash(r) ==
  /\ req[r].pc = "stash"
  /\ IF req[r].endpoint = "responses" /\ RespKey[r] # NoKey
     THEN Memo!Remember(RespKey[r], req[r].chat)
     ELSE UNCHANGED memo
  /\ Finish(r, IF req[r].outcome = "empty" THEN "empty" ELSE "content")
  /\ UNCHANGED <<pool, affinity, upstream>>

Step(r) ==
  \/ LookupSession(r) \/ ReadToken(r) \/ ReadChat(r)
  \/ Take(r) \/ Find(r) \/ Create(r) \/ Index(r) \/ Store(r)
  \/ Complete(r) \/ Preflight(r) \/ DropKey(r) \/ AfterError(r) \/ AfterEmpty(r)
  \/ Bind(r) \/ BindChat(r) \/ Stash(r)

-----------------------------------------------------------------------------
\* What happens around the handlers: the operator reloads the tokens, time
\* passes, the cache expires and evicts.
Less(t) == IF t > 0 THEN t - 1 ELSE 0

Reload ==
  /\ \E set \in TokenSets :
       /\ Pool!Install(set)
       /\ owed' = [v \in Token |-> IF v \in set \cap members THEN owed[v] ELSE 0]
       /\ spared' = spared \cap set \cap members
  /\ UNCHANGED <<memo, affinity, upstream, req>>

Tick ==
  /\ Pool!Elapse
  /\ owed' = [v \in Token |-> Less(owed[v])]
  /\ spared' = {v \in spared : Less(owed[v]) > 0}
  /\ UNCHANGED <<memo, affinity, upstream, req>>

Forget ==
  /\ \E k \in Key : memo[k] # NoChat /\ Memo!Erase(k)
  /\ UNCHANGED <<pool, affinity, upstream, req>>

Next == (\E r \in Request : Step(r)) \/ Reload \/ Tick \/ Forget

Spec == Init /\ [][Next]_vars

\* Go schedules every runnable goroutine; the upstream is assumed to answer or to
\* fail, since the streaming client has no timeout of its own (client.go:105).
FairSpec == Spec /\ \A r \in Request : WF_vars(Step(r))

-----------------------------------------------------------------------------
TypeOK ==
  /\ members \subseteq Token /\ rest \in [Token -> Nat]
  /\ memo \in [Key -> Chat \cup {NoChat}]
  /\ bound \in [Session -> [token : Token \cup {NoToken}, chat : Chat \cup {NoChat}]]
  /\ writer \in Request \cup {Nobody}
  /\ used \subseteq Chat
  /\ owed \in [Token -> Nat]
  /\ spared \subseteq Token
  /\ req \in [Request -> Local]

\* chat.go:323 "Detect that and retry with a fresh chat_id before any bytes are
\* sent to the client": a client is never sent the empty stream of a chat the
\* request itself took from the cache, whatever other requests store, drop and
\* use up meanwhile.
CachedChatNeverServedEmpty ==
  \A r \in Request : req[r].answer = "empty" => req[r].origin # "cache"

\* The same for every request, which the code does not ensure: it looks into
\* the stream only of a chat it found in the cache itself, not of one it created
\* and another request used first, nor of one its session is bound to.
NeverServedEmpty == \A r \in Request : req[r].answer # "empty"

\* chat.go:348 "Cap extra retries to prevent unbounded loops": a chat request
\* makes no more attempts than the configured number and the extra ones, although
\* every empty stream raises its limit and other requests refill the cache.
AttemptsCapped ==
  \A r \in Request :
    req[r].endpoint = "chat" => req[r].attempt <= MaxAttempts + MaxExtraRetries

IsHanded(r, v) == req[r].pc = "take" /\ req'[r].pc = "find" /\ req'[r].token = v

\* README.md:125 "A token that returns 401/403 is put on cooldown": once a
\* handler is through with a rejection, no request is handed that token before
\* the cooldown has elapsed.  The code does not ensure it: the claude handler's
\* last attempt writes its error and leaves the token as it is.
RejectedTokenRests ==
  [][\A r \in Request, v \in Token : IsHanded(r, v) => owed[v] = 0]_vars

\* What it does ensure, at every endpoint: the rejections of an attempt that is
\* followed by another, and of the last one at chat and responses, rest the token,
\* through reloads, other requests and other rejections of it.
MarkedTokenRests ==
  [][\A r \in Request, v \in Token : IsHanded(r, v) => owed[v] = 0 \/ v \in spared]_vars

\* Every request is answered: no attempt loop spins for ever on empty streams
\* and no handler waits for ever on the affinity lock.
EveryRequestAnswered == \A r \in Request : <>(req[r].pc = "done")

=============================================================================
