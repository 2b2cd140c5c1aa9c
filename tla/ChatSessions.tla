---------------------------- MODULE ChatSessions ----------------------------
(* The chat handler's use of the sessions (server/chat.go): shape the        *)
(* messages, resolve the session of the prior context, put its summary in    *)
(* front of the prompt, store the turn, and every few turns have the         *)
(* upstream write a new summary in the background. The process may die and   *)
(* load what was saved.                                                      *)
EXTENDS SessionStore, ChatHistory

CONSTANTS
  Conversations,       \* the message lists clients may send, by data directory
  Streaming,           \* the callers that ask for a stream
  Model,               \* the request's model, aliases resolved
  contextWindow,       \* GetContextWindow of the model, in tokens
  RollingHistoryK,     \* messages from which on a summary is sent
  SummaryEveryNTurns,  \* by data directory
  Clients,             \* who may call, by data directory and start
  MaxRestarts          \* by data directory

ASSUME ConversationsAssumption ==
    \A d \in DataDirs : Conversations[d] \subseteq Seq(Message)

VARIABLES
  request,   \* each request: where its handler is, its locals, and what was asked
  restarts,
  appended,  \* history: the units stored under each key, in order
  loaded     \* history: how many sessions the last start loaded

vars == <<storeVars, request, restarts, appended, loaded>>
locals == <<restarts, appended, loaded>>

Idle == [pc |-> "idle", asked |-> <<>>, msgs |-> <<>>, key |-> NoKey, sess |-> None,
         prefix |-> {}, current |-> {}, batch |-> 0]
Pointers == {request[q].sess : q \in Callers}
Done(r) == request' = [request EXCEPT ![r].pc = "done", ![r].sess = None]
To(r, pc) == IF pc = "done" THEN Done(r) ELSE request' = [request EXCEPT ![r].pc = pc]

Init ==
    /\ StoreInit
    /\ request = [r \in Callers |-> Idle]
    /\ restarts = 0
    /\ appended = <<>>
    /\ loaded = 0

\* The messages are shaped, and ResolveByContextHash looks for their session
\* under the read lock; Create is a step of its own.
Resolve(r) ==
    /\ request[r].pc = "idle" /\ r \in Clients[dataDir][restarts + 1] /\ lock = None
    /\ \E msgs \in Conversations[dataDir] :
         LET shaped == Shaped(msgs, contextWindow)
             key == HashMessages(shaped, Model)
             found == key # NoKey /\ ~Absent(sessions, key)
         IN request' = [request EXCEPT ![r] =
              [Idle EXCEPT !.asked = msgs, !.msgs = shaped, !.key = key,
                 !.sess = IF found THEN sessions[key] ELSE None,
                 !.pc = IF key = NoKey \/ found THEN "prompt" ELSE "create"]]
    /\ UNCHANGED <<storeVars, locals>>

CreateSession(r) ==
    /\ request[r].pc = "create"
    /\ Create(request[r].key, Pointers)
    /\ request' = [request EXCEPT ![r].pc = "prompt", ![r].sess = Fresh(Pointers)]
    /\ UNCHANGED locals

\* sess.Summary is read through the pointer, without the lock, and the prompt
\* is sent. The upstream fails, or answers; a streamed answer's text is not
\* stored.
SummaryRead(r) ==
    IF Len(request[r].msgs) > RollingHistoryK THEN object[request[r].sess].summary ELSE {}
Prompt(r) ==
    /\ request[r].pc = "prompt"
    /\ \E outcome \in {"failed", "answered"} :
         IF request[r].sess = None THEN To(r, "done")
         ELSE request' = [request EXCEPT
                ![r].prefix = SummaryRead(r),
                ![r].pc = IF outcome = "failed" THEN "done" ELSE "append",
                ![r].sess = None,
                ![r].batch = Len(MessagesFromOpenAI(request[r].msgs))
                             + IF r \in Streaming THEN 0 ELSE 1]
    /\ UNCHANGED <<storeVars, locals>>

\* What is stored of a turn: its messages with a text, then the answer.
Units(r) == [i \in 1..request[r].batch |-> <<r, i>>]
Store(r) ==
    LET key == request[r].key
    IN /\ request[r].pc = "append"
       /\ IF Absent(sessions, key)
          THEN lock = None /\ To(r, "count") /\ UNCHANGED <<storeVars, appended>>
          ELSE /\ Append1(r, key, Units(r))
               /\ appended' = IF Absent(appended, key) THEN Set(appended, key, Units(r))
                              ELSE [appended EXCEPT ![key] = @ \o Units(r)]
               /\ To(r, "turn")
       /\ UNCHANGED <<restarts, loaded>>

Turn(r) ==
    /\ request[r].pc = "turn"
    /\ Append2(r, request[r].key)
    /\ To(r, "trim")
    /\ UNCHANGED locals

Trim(r) ==
    /\ request[r].pc = "trim"
    /\ Append3(r, request[r].key)
    /\ To(r, "count")
    /\ UNCHANGED locals

\* storeSessionAndMaybeSummarize: the turn count, then the summary so far.
SummaryDue(turns) == turns > 0 /\ turns % SummaryEveryNTurns[dataDir] = 0
Count(r) ==
    /\ request[r].pc = "count" /\ lock = None
    /\ To(r, IF SummaryDue(GetTurnCount(request[r].key)) THEN "due" ELSE "done")
    /\ UNCHANGED <<storeVars, locals>>

Due(r) ==
    /\ request[r].pc = "due" /\ lock = None
    /\ request' = [request EXCEPT ![r].pc = "summarise",
                                  ![r].current = GetSummary(request[r].key)]
    /\ UNCHANGED <<storeVars, locals>>

\* GenerateSummary tells of the summary it was given and of this turn; it may
\* fail, or come back empty.
NewSummary(r) == request[r].current \cup {r}
Summarise(r) ==
    /\ request[r].pc = "summarise"
    /\ \/ UNCHANGED storeVars
       \/ SetSummary(r, request[r].key, NewSummary(r))
    /\ To(r, "done")
    /\ UNCHANGED locals

Write1(w) == Persist(w) /\ UNCHANGED <<request, locals>>

Die ==
    /\ restarts < MaxRestarts[dataDir]
    /\ restarts' = restarts + 1
    /\ Restart
    /\ loaded' = Cardinality(Loaded)
    /\ request' = [r \in Callers |->
          IF request[r].pc = "idle" THEN Idle
          ELSE [request[r] EXCEPT !.pc = "done", !.sess = None]]
    /\ UNCHANGED appended

Next ==
    \/ \E r \in Callers : Resolve(r) \/ CreateSession(r) \/ Prompt(r) \/ Store(r)
         \/ Turn(r) \/ Trim(r) \/ Count(r) \/ Due(r) \/ Summarise(r)
    \/ \E w \in Writers : Write1(w)
    \/ Die

Spec == Init /\ [][Next]_vars

---------------------------------------------------------------------------
\* What is in memory, and what a restart would load.
Live == {object[sessions[k]] : k \in DOMAIN sessions}
Saved == {inode[path[k]] : k \in Loaded}
Units_(key) == IF Absent(appended, key) THEN <<>> ELSE appended[key]
Position(key, u) == CHOOSE i \in DOMAIN Units_(key) : Units_(key)[i] = u

\* The state keeps its types, and there are never more sessions than the limit
\* or, after a start, than it loaded (store.go:166-170, 222-250).
TypeOK ==
    /\ Cardinality(DOMAIN sessions) <= Max({maxSessions, loaded})
    /\ \A k \in DOMAIN sessions : sessions[k] \in Objects
    /\ \A s \in Live \cup Saved :
         /\ s.summary \subseteq Callers /\ s.turns \in Nat /\ s.updated \in 0..clock
         /\ \A i \in DOMAIN s.messages : s.messages[i] \in Callers \X Nat
    /\ lock \in Callers \cup {None}
    /\ DOMAIN tmp \cup DOMAIN path \subseteq {request[r].key : r \in Callers}

\* However appends and trims fall between the reads of a saving goroutine, and
\* whichever goroutine writes last, a session in memory or on disk holds
\* messages stored under its own key, in the order they were stored in, none
\* twice (store.go:106-121 against 180-213).
StoredInOrder ==
    \A s \in Live \cup Saved :
      /\ \A i \in DOMAIN s.messages : \E n \in DOMAIN Units_(s.key) :
            Units_(s.key)[n] = s.messages[i]
      /\ \A i, j \in DOMAIN s.messages : i < j =>
            Position(s.key, s.messages[i]) < Position(s.key, s.messages[j])

\* A session has counted every turn it holds messages of, but the one being
\* appended; a goroutine may save that one uncounted, and a restart bring it
\* back so: at most one for each start (store.go:113-114 against 184-194). The
\* count decides when a summary is due (chat.go:869).
TurnsIn(s) == {s.messages[i][1] : i \in DOMAIN s.messages}
Appending(key) == \E r \in Callers : request[r].pc = "turn" /\ request[r].key = key
TurnsCounted ==
    /\ \A k \in DOMAIN sessions : LET s == object[sessions[k]] IN
         Cardinality(TurnsIn(s)) <= s.turns + restarts + IF Appending(k) THEN 1 ELSE 0
    /\ \A s \in Saved : Cardinality(TurnsIn(s)) <= s.turns + restarts + 1

\* The summary put before a prompt tells only of turns whose prior context has
\* the same hashed text, though it is read through a pointer that may be stale,
\* outlives eviction and restarts, and is written by goroutines that come late.
SummaryOfSameText ==
    \A r \in Callers : \A q \in request[r].prefix :
      HashedText(request[q].msgs) = HashedText(request[r].msgs)

\* hash.go:13: the same prior context is the same session. Contexts that differ
\* after 4000 bytes, or in where a line of a text is taken for a message, share
\* one, and its summary.
SummaryOfSameContext ==
    \A r \in Callers : \A q \in request[r].prefix :
      LET Context(p) == [i \in 1..Len(request[p].msgs) - 1 |->
              <<request[p].msgs[i].role, request[p].msgs[i].text>>]
      IN Context(q) = Context(r)

\* detector.go:1-5: on a change of topic the history can be discarded, to keep
\* stale context from the model. The summary put before the prompt may tell of
\* turns about the very messages that were discarded (chat.go:76, 139-155).
TopicChangeForgets ==
    \A r \in Callers : \A q \in request[r].prefix :
      LET asked == request[r].asked
          discarded == Range(asked) \ Range(applyTopicIsolation(asked))
      IN Range(request[q].msgs) \cap discarded = {}
=============================================================================
