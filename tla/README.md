# qwen2api in TLA+

qwen2api is a gateway: it speaks the OpenAI chat, OpenAI responses and Claude
messages protocols to its clients and the web protocol of chat.qwen.ai to its
upstream. This directory holds TLA+ models of it, the TLC configurations that
check them on small instances, and TLAPS proofs about them. Everything is
translated from the Go source; line numbers refer to it.

```
tlc -config MCGateway.cfg MCGateway        # check a run of PROJECT.json
tlapm TokenPoolProofs.tla                  # check the proofs of a module
```

## The system

A request passes through the parts below, each a goroutine's calls into shared,
mutex-protected stores. What makes it hard is that handlers run concurrently and
hold what they read (a token, a chat id, a pointer to a record) across network
calls, while other handlers, the operator and time change where it came from;
and that three protocols are fed from one stream of text in which tool calls are
told from prose only as they arrive.

| part | state | operations | must be true |
|---|---|---|---|
| token pool (`tokenpool`) | slots, cursor, cooldown per slot | Take, MarkBad, SetTokens, Replace | no healthy token starves; a token marked bad rests; reloads keep the rest and cost a waiting token a round |
| chat cache (`promptcache`) | map, eviction queue, expiry per entry | Get, Put, Invalidate | map and queue agree; capacity; a hit is the last Put |
| session affinity (`affinity`) | record per session: token, chat | Lookup, Bind | a record pairs a chat with its owner's token |
| attempt loops (`chat.go`, `claude_handler.go`, `responses_handler.go`) | locals of each handler: attempt, token, chat, cacheHit | take, look up, create, complete, look ahead, drop keys, retry, bind | no cached chat's empty stream reaches a client; retries are bounded; every request is answered |
| look-ahead (`stream_pacer.go`) | captured bytes, events seen | preflight, replay | the verdict is right; the replay is the stream, as far as it was captured |
| stream pacer (`stream_pacer.go`) | channel, lastEmit, ticker | run, loop | events in order; keepalives in pauses; no goroutine left behind |
| stream protocols (chat with tools, Claude blocks, responses items) | open block or item, held-back text | one call per event, a final flush | blocks open and close one at a time; no text lost, doubled or leaked from a tool call; all tell the same reply |
| tool calls (`toolcall`, `jsonrepair`, `hallucination`) | text | parse, repair, continue | no answer ends inside a call |
| sessions (`session`) | history and summary per context, files | resolve, append, evict, persist, summarise, load | messages in order under their own key; a summary tells only of contexts with the same hash |
| admin (`config_api.go`, `v2_handlers.go`, `config.go`) | configuration, its file, the pool | add, remove, save, load | what was answered has taken effect |
| error tracker | list, file, saving goroutines | Track, cleanup, Clear, persist | the file catches up |
| tunnel | mutex, `running`, cloudflared processes | Start, Stop, Status | no process the manager does not know of |
| request log | open file and backups | Log, rotate | the newest entries, in order |
| tools' settings (`cliconfig`) | files shared with users and tools | Check, Apply, Reset | the user's own settings stay; a call has done what it says |
| file cache (`filecache`) | list and index, expiry per entry | Put, Get | an unchanged file expands to what was last stored for it |

Interactions: a handler calls pool, cache and affinity one locked call at a time
and the upstream between them; it hands the upstream's body to the look-ahead (if
the chat came from the cache) and then to a pacer, whose goroutine reads while
the handler writes what the stream protocols make of each event; it shapes the
messages, reads the session of their context before the prompt and appends to it
after the answer. Admin handlers call SetTokens under running requests. The
components, modelled or not, are listed in `PROJECT.json`.

## Modules

| module | models | state and actions |
|---|---|---|
| `TokenService` | what callers rely on from the pool | a set of tokens and how long each rests; Take hands out some rested one |
| `TokenPool` | `tokenpool.go` | `ptr` and `slot` are the slice of `*slot` pointers and the slots they lead to (SetTokens can alias, New cannot); one action per method |
| `ChatMemo` | what callers rely on from the cache | the last chat under a key, which may be lost but is never wrong |
| `PromptCache` | `promptcache/cache.go` | `entries` and `order` are the map and the queue; one action per method |
| `Gateway` | the three attempt loops and `affinity/store.go` | `req` holds each handler's locals and a program counter; one action per access to shared state; INSTANCEs `TokenService` and `ChatMemo` |
| `Sieve` | the filter both sides of the look-ahead apply to lines, and the parser to tokens | `Only`, a recursive function |
| `Preflight` | `preflightChatIDReuseDebug`, `capturedReader`, `replayBody`, the scanner | lines of a few units instead of bytes; `pos` what was read, `Captured` what was kept |
| `StreamPacer` | `streamPacer.run` and `loop` | `reader`/`holding` the goroutine, `channel`, `loop`, the clock |
| `StreamPath` | a handler's stream | composes the two: the replayed or fresh body becomes the pacer's stream |
| `ToolText` | `toolcall/parser.go`, `continuation.go`, `jsonrepair`, `hallucination` | operators on text: which calls a text holds in which format, what is left of it, what is mended, how a continuation is joined |
| `ChatStream` | the chunk stream, the collected answer and its continuation (`chat.go`, `continuer.go`) | `chat` and `once`: text read, text sent, calls; one action per event, end, and answer to a continuation |
| `ClaudeStream` | content blocks (`claude_handler.go`) | `claude`: the block open and its index, `emittedLen`, the events sent |
| `ResponsesStream` | output items (`responses_handler.go`) | `responses`: the same of items |
| `ReplyStreams` | one upstream reply given to all of them | composes the three; `Deliver` cuts the reply into events in every way |
| `ChatHistory` | topic isolation, compaction, the context's hash | operators on message lists |
| `SessionStore` | `session/store.go` | `sessions` and `object` are the map and the heap its pointers lead into; `writer` the saving goroutines; `path`, `tmp`, `inode` the files |
| `ChatSessions` | the chat handler's use of the sessions | composes the two: resolve, prompt, store (messages, count and trim are three steps under the lock, since the saving goroutines take none), summarise, die and load |
| `AdminConfig` | `config_api.go`, `v2_handlers.go`, `config.go` | `config`, `pool`, `disk`; an edit is the sequence of its reads and writes, as no lock is held |
| `CliConfig` | `cliconfig.go` and its endpoints | `files` the settings files, `task` what each call has read and is to write; reading, truncating and writing are steps of their own, as no lock is held |
| `ErrorTracker`, `Tunnel`, `ReqLog`, `FileCache` | the package or file of that name | see each module's header |
| `Stores` | pool and cache beside each other | `focus`: a behaviour lets one of them be called |
| `Operations` | the last six beside each other | `focus`: a behaviour lets one of them run |

Two pairs are refinements: `PoolIsService` in `TokenPool` and `CacheIsMemo` in
`PromptCache` (INSTANCE ... WITH), both checked and proved, so what `Gateway`
shows over the services holds over the code's pool and cache. An `MC` module and
its configurations give each its values; a `Proofs` module holds its theorems.
`Loops` holds the lemmas several of them share: counting up to a number, what a
loop over a sequence has after each round, and that one element more is one round
more.

Conventions. An operator whose comment says *mutant* is not part of the model: it
is a plausible mistake next to the operator it would replace, and `PROJECT.json`
names the property that must then fail. Time is relative: a cooldown, an expiry
or the age of `lastEmit` is a number of ticks. A variable whose comment says
*history* exists for a property only.

What the models take from outside the source: a chat that had a completion may
answer with an empty stream, one that had none answers (`stream_pacer.go:199-205`
says so of chat.qwen.ai); tokens are rejected, limited or fail at any call;
cloudflared prints and exits when it likes; a user edits and breaks the tools'
files; a write to a file may fail before, after or in the middle of it.

Abstractions worth knowing.

- *Text* (`ToolText`) is a sequence of cells of about five bytes, so that a tag
  the stream handlers hold back is several cells and can be cut by an event
  inside it: `<tool_call` is two, `<function_calls` three, the JSON of a call two
  halves. Other tags and calls are one cell. The JSON repair is one operator on a
  call: what it mends becomes whole, what it cannot is left.
- *Replies as prompted* (`AsPrompted` in `ReplyStreams`): the gateway tells the
  model to write calls as `<tool_call>` blocks. `ClaudeBlocksInOrder` and, of
  replies with a call, `ResponsesDeltasAreTheText` are about replies that do; one
  that writes bare or XML calls is streamed as text before it is known to be a
  call, which no handler can take back. They also suppose that the reply does not
  begin with white space (`BeginsWithInk`): the parser trims the text it leaves
  (`parser.go:118`) while the handlers count what they have sent in the text as it
  came. Of a reply that does, a Responses client loses text
  (`ResponsesSendTheCleanedText` is where the model shows it), and a Claude client
  that was sent the white space only may get its block left open, since no text
  seems to be left of it; the run's replies begin with white space too.
  `ClaudeBlocksInOrder` and `ResponsesItemsInOrder` are checked on replies whose
  thoughts come first, as the handlers expect. The other properties of the run are
  about every reply.
- *What a handler writes* for an event is left open (`MayWrite` in `StreamPacer`):
  a comment always is forwarded, `[DONE]` and what does not parse never is, and of
  any other event nothing may be written, as of a thought in a Responses stream.
- *A context's hash* (`HashedText` in `ChatHistory`) is the sequence of what is
  hashed: the pieces of a text that tell texts apart within 4000 bytes, roles and
  line ends among them, so that two contexts may have the same one. SHA-256 itself
  is taken for one-to-one.
- *Sessions* are objects of a heap, because `Create` replaces and evicts sessions
  that handlers and goroutines still point at; *files* are inodes, because a
  temporary file can be renamed while another goroutine writes to it.
- `PausesBridged` (`StreamPacer`) counts what is written to the ResponseWriter.
  Whether it leaves the server at once is another matter: `server.New` always puts
  `ErrorLoggingMiddleware` around the handlers, its `responseWriter`
  (`error_middleware.go:84-103`) has no `Flush`, the handlers find no Flusher, and
  frames and keepalives wait in net/http's buffer. That follows from the type, and
  no module is about it.
- *A settings file* (`CliConfig`) is what the package selects, and the user's own.
  Model names, `API_TIMEOUT_MS` and `hasCompletedOnboarding`, which Apply writes and
  Reset drops or leaves, belong to the package and are left out. So is a file that
  holds the JSON `null`, over which `ApplyClaude` panics.

## Runs

| run | shows |
|---|---|
| `stores` | pool: types, waiting times, rest of bad tokens and the refinement, over reloads that grow, shrink, reorder and empty it; cache: types, queue and map agree, capacity and the refinement, with one key more than places |
| `gateway` | three identical requests at each endpoint, one token, rejections: no cached chat's empty stream is served, the chat handler's retries are capped while the others refill the cache, tokens marked as rejected rest |
| `gateway_turns` | a turn and its follow-up, found by history hash, `previous_response_id` or session, two tokens that the operator removes and adds, rate limits and transport errors: every request is answered |
| `stream_path` | the look-ahead's verdict, order, keepalives in pauses, what comes through of a stream, readers that leave, streams that end |
| `reply_streams` | one reply in every cut: no marker leaks, the chat text is exact, Claude's blocks and Responses' items are in order, a broken reply without a call is told, the deltas are the text, streamed and collected answers agree, none ends inside a call |
| `chat_sessions` | what is in memory or on disk is in order under its own key, the count of turns lags by one for each start at most, a summary tells only of contexts with the same hash |
| `operations` | edits that were answered are in effect, the error file catches up, no cloudflared is orphaned, the log keeps its newest entries, a user's settings stay and a tool's call nobody disturbed has done what it was answered for, unchanged files expand to what was last stored |

A violation run checks one property that a comment or document of the repository
states and the code does not keep; the finding in `PROJECT.json` quotes it.

| violation run | shows | what does hold |
|---|---|---|
| `served_empty_race` | the creator of a chat is served the empty stream after another request used it first | `CachedChatNeverServedEmpty` |
| `claude_rejection_unmarked` | a token rejected on a Claude request's last attempt is handed out at once | `MarkedTokenRests` |
| `claude_text_repeated` | a Claude client is sent the text before a call twice | `ClaudeBlocksInOrder` |
| `tracker_clear` | Clear waits for itself, the file keeps the errors | `TrackerFileCatchesUp` |
| `tunnel_stop` | Start's timeout calls Stop under the mutex Stop takes: nobody stops the tunnel again | `NoOrphanTunnel` |

More statements of the repository that the code does not keep are written as
definitions beside the property that says what it does keep, and are in no run's
list. Adding one to the configuration named shows it violated: INVARIANT or, of
the two marked (p), PROPERTY.

| stated | where | how the code fails it | what does hold | add to |
|---|---|---|---|---|
| `ClientKeptAlive` | `stream_pacer.go:31-32`: a keepalive "when no real frame has been written by the handler" | an event that writes nothing, as a thought behind the first in a Responses stream (`responses_handler.go:771-778`), sets `lastEmit` too (125) | `PausesBridged` | `MCStreamPath` |
| `CleanMeansComplete` | `stream_pacer.go:208-210`: the replay "hands back the buffered bytes first, then continues to read fresh bytes" | what is read past the capture (322) is in neither; the line that ends there is lost | `CaptureComesThrough` | `MCStreamPath` |
| `NoStreamStalls` (p) | `qwen/stream.go:64-65`: "stalled upstream connections produce a timeout error instead of blocking forever" | no body has a `SetReadDeadline` (29) | `StreamEnds` | `MCStreamPath` |
| `ClaudeIsToldOfCut` | `claude_handler.go:512-513`: "signal truncation so claude-code can detect it" | after a call, 542 sets `tool_use` over it, as for a whole reply | `CutIsTold` | `MCReplyStreams` |
| `ResponsesSendTheCleanedText` | `responses_handler.go:724`: "then emit only the cleaned text portion" | text that began with white space loses as much at its end (861) | `ResponsesDeltasAreTheText` | `MCReplyStreams` |
| `SummaryOfSameContext` | `hash.go:13`: "same prior context = same session" | contexts that differ behind 4000 bytes, or in what is a message and what a line, have one hash (23-31) | `SummaryOfSameText` | `MCChatSessions` |
| `TopicChangeForgets` | `topicisolation/detector.go:3-4`: "discard history to prevent stale context" | what is left has another conversation's context, whose summary tells of what was discarded (`rolling_history_k` is 1 in the run, 10 by default) | | `MCChatSessions` |
| `CreatedKeysNotSaved` | `v2_handlers.go:100`: "in-memory only; not persisted" | the next token edit saves the whole configuration | `EditsTakeEffect` | `MCOperations` |
| `OnlyTheKeyDeleted` (p) | `v2_handlers.go:132`: "by exact value match" | keys with that name or masked form go too (150) | `EditsTakeEffect` | `MCOperations` |
| `ResetIsDone` | `config_api.go:304`: "resets a CLI tool config to defaults" | Cline's Reset drops the errors of its writes (`cliconfig.go:311`) and is answered as done | `CliSettingsHold` | `MCOperations` |
| `HintsExpandToReal` | `filecache/cache.go:1-3`: hints are replaced "with the real cached content" | a content with a hint's phrase in it is taken for one (`chat.go:1715`): it is not stored, and the older one replaces it | `HintsExpandToLast` | `MCOperations` |

What the passing properties leave to the others, or to nobody:
`EditsTakeEffect` speaks of edits that did not overlap (`alone`) and, for what a
restart must find, were saved (`saved`), and says nothing while the process does not
start (`up`); `CliSettingsHold` of calls nobody disturbed, and lets a file hold what
a call read before the user's last edit; `ReaderLeaves` of readers not stuck on a
full channel.

Deviations the models contain and no definition states, for want of a text that
says otherwise (all are hazards in `PROJECT.json`): a token listed twice is handed out
while its first slot rests; reloads without end can keep passing a token over; a
session's record read field by field can pair one account's token with another's
chat; the chat stream finishes a broken reply with a call as it does a whole one
(`chat.go:1409`); a thought that follows text opens its item or block inside the
open message; a continuation after several calls loses those behind the first
closing tag; of two overlapping edits of the token list one is lost, and so is an
edit the user makes of a settings file between a call's read and its write; Apply
replaces a settings file that does not parse; a reader stuck behind a client that
left never leaves.

### Bounds

*Pool*: three listed tokens and a fourth as a renewed value, cooldown 2: a
reload can keep, drop and move the cursor's slot while another one cools, and
pass a waiting token over (`<<b, a, c>>` for `<<a, b, c>>`); two reloads
(`MaxReloads`), so that one can undo or repeat what the other did. *Cache*:
three keys, two places, TTL 2: every order of insertion, update, expiry and
eviction occurs. *Gateway*: three equal requests (symmetric) in `gateway`, so
that one of them can be given two used chats, one more than the extra attempt it
may make (3 in the code: the cap is compared with, never counted down) and one
can be between the others' steps; two requests where a turn follows another,
one or two attempts, cooldown 1. Chat ids nobody refers to are reused, so five
or six stand for any number. *Streams*: a look-ahead of 3 events (6 in the
code), a capture and a scanner buffer of 6 units (64 KiB each, equal as in the
code), a channel of 2 (256) that every longer stream fills, a keepalive of 2
ticks (the shortest that distinguishes a reset from a tick). Ten bodies cover the
verdict's cases and two lines that end past the capture; each is cut into reads in
every way, and ends, breaks or stalls.

*Replies*: 87 bodies, each a beginning (none, text with white space behind it or
before it, a thought before text), a call in one of eleven forms (none, as
prompted, twice with one to mend, twice the same, fenced, with null arguments,
empty, XML, hybrid, Claude's, bare) and an end (none, text). Events are one or two
cells, so that every marker is cut at every place and a second cell can complete
it; all breaks, finish reasons and clients that leave; four answers to a
continuation: nothing, the rest of the call, another half, a whole call; three
attempts (10 by default): the first, one that is followed by another, the last.
With tools and the multi-format parser on, with tools alone, and with neither.

*Sessions*: room for one, so that a second context always evicts; two messages of
history, so that every second turn trims; three lists of messages, one that is
compacted and one whose topic changes, the latter then having the first one's
context; where files and summaries come together also lists whose contexts differ
behind 4000 bytes only, or in whether a line is a message. Without files three
callers summarise after each turn; with files two take turns, the process dies once
anywhere and the loaded files are served again. Summaries and files together have
one caller before and one after the restart. Each append or summary starts one
goroutine, at every interleaving.

*Operations*: a behaviour lets one component run (`focus`), as they share nothing:
the sum of their states instead of the product. Two administrators and three
edits, a token of the environment's and one of the file's, two keys, of which one's
value can be the other's name; two errors
kept of four; three callers, two cloudflared processes; backups of two entries,
three of them (`MaxBackups` is 3 in the code too) and ten entries, two more than
the log and its backups hold; two calls (symmetric) of one of four tools' endpoints, as
no third reads or writes but as the second does, and one setting of the user's per
file; three files, two places, TTL 2, contents of which one is taken for a hint.

Deadlock is not checked where things come to their end: streams, replies,
sessions, operations. It is checked in the stores' and the gateway's runs, whose
clock never stops.

### Fairness

`Gateway!FairSpec` is weak fairness of each handler: Go runs every runnable
goroutine, and no action waits for anything but the affinity lock, which is held
for one further step. It assumes that the upstream answers or fails; the code has
no timeout that would enforce it. `StreamPath!FairSpec` is weak fairness of the
look-ahead, the reader goroutine, the loop, and the look-ahead's end when the
client has left. `ErrorTracker!FairTracker` is weak fairness of the saving
goroutines. `Tunnel!FairTunnel` is weak
fairness of each request's next step, Start's thirty-second timer among them; of
cloudflared, which may neither print nor exit, nothing is assumed. Time, the
client's leaving, reloads and cache losses have none: nothing makes them happen.

## Proofs

Each theorem holds for every value of the constants that the named assumptions
allow; the last column says what else it supposes. Between them they state every
invariant the passing runs check and both refinements.

| theorem | states | supposing |
|---|---|---|
| `TokenPoolProofs!TypeCorrect`, `NoTokenStarvesEver` | types; fair rotation, over reloads | |
| `TokenPoolProofs!BadTokenRestsEver`, `PoolImplementsService` | rest of bad tokens; the refinement | no list holds a token twice (`DistinctLists`) |
| `PromptCacheProofs!TypeCorrect`, `QueueAlwaysMatches`, `CapacityKept`, `CacheImplementsMemo` | types; queue and map; capacity; the refinement | |
| `GatewayProofs!TypeCorrect`, `NeverServed`, `Capped`, `TokenRests` | types; no cached chat's empty stream is served; retries are capped; a token whose rejection was marked rests | |
| `StreamPathProofs!TypesHold`, `InOrderAlways` | types; events in order | |
| `StreamPathProofs!VerdictExactAlways` | `PreflightExact` | no upstream sends content behind the end of its stream (`NothingAfterEnd`) |
| `StreamPathProofs!CaptureAlwaysThrough`, `PausesAlwaysBridged` | `CaptureComesThrough`, `PausesBridged` | |
| `ReplyStreamsProofs!StreamsTyped`, `MarkerNeverGoesOut`, `ChatTextOnce`, `CutToldUnlessCalls`, `NoTruncatedAnswerEver` | types; `MarkerHeldBack`, `ChatTextExact`, `CutIsTold`, `NoTruncatedAnswer` | |
| `ReplyStreamsProofs!ResponsesDeltasMakeTheText` | `ResponsesDeltasAreTheText` | |
| `ReplyStreamsProofs!ResponsesItemsComeInOrder`, `ClaudeBlocksComeInOrder`, `StreamsAndAnswersAgree` | `ResponsesItemsInOrder`, `ClaudeBlocksInOrder`, `AnswersAgree` | every reply's thoughts come before its text (`ThoughtsFirst`) |
| `ChatSessionsProofs!SessionsTyped`, `NothingOutOfOrder`, `TurnsLagByOneAStart`, `OnlyOwnSummaries` | types; `StoredInOrder`, `TurnsCounted`, `SummaryOfSameText` | |
| `OperationsProofs!FileCatchesUp`, `NoOrphanEver`, `KeepsNewestEver`, `SettingsHoldEver`, `HintsExpandEver`, `EditsEverTakeEffect` | the property of each component, by its own specification | |
| `OperationsProofs!OperationsTyped`, `OperationsHold` | types and all six properties, of the components beside each other | |

The assumptions on the constants are those the code makes. Limits are positive:
`PoolAssumption`, `CacheAssumption`, `PacerAssumption`, `AttemptsAssumption`,
`StoreAssumption`, `ErrorsAssumption`, `LogAssumption`, `FilesAssumption`. Values
standing for "none" are none of the others: `GatewayAssumption`,
`ProcsAssumption`, `StoreAssumption`. Inputs are of their kind:
`PreflightAssumption`, `WidthAssumption`, `BodiesAssumption`,
`FeaturesAssumption`, `TextAssumption`, `ConversationsAssumption`,
`EnvAssumption`. The bounds that keep a run finite are arbitrary numbers in the
theorems (`MaxReloads`, `MaxTracked`, `MaxEntries`, `MaxProcs`, `MaxEdits`,
`MaxRestarts`), and
so are the guards that ask for room: a free chat id in `Gateway!Create`, an
unreferenced object in `SessionStore`.

### The invariants behind them

None of the properties but a few is inductive. What each needs:

*Pool.* `NoTokenStarves`, that a token has sat out fewer Takes than are `due`,
follows from `Rotation`: what it has sat out and what the cursor has still to walk
to it (`Steps`) are together fewer. A reload may move the token anywhere, and adds
a round of the new pool to what is due, which is more than any distance in it.
`BadTokenRests` needs `CoolInv`: a token's promised rest is never longer than what
its (single) slot has left, with no slot at two positions; without `DistinctLists`
the code does not keep it. The refinement maps each method's step to the service's
action of the same name; both modules keep the last call and its arguments in
`call`, so that a step cannot pass for a call with other arguments. `PromptCache`
and `ChatMemo` do the same.

*Cache.* `CacheInv` is types, `QueueMatchesMap` and `WithinCapacity` together:
eviction counts the map but walks the queue, so the capacity needs the agreement
of both, and the agreement needs that a key is queued once.

*Gateway.* `IInv` says by program counter what a handler's locals hold
(`Located`), that a cached chat is known for one until the look-ahead and does
not pass it with an empty stream (`LookedInto`), that a chat request's moving
limit stays below the cap (`Limited`), and that a session's record names a chat
(`RecordsWhole`). `TokenRests` adds `DebtsRested`: every token in the pool
but the one `spared`, whose rejection ended a Claude request, rests at least as
long as it owes.

*Stream.* `Flow` says that what was handed out, what the channel holds and what
the reader is sending are consecutive events of the stream; it speaks of the
channel only while the loop listens, because a returned loop may leave an end
behind. `Clock`: the client's silence or the upstream's pause is
as long as `lastEmit` is old, since an event begins both anew, written or not, and
this age is bounded by where the ticker stands: below an interval right
after a tick was served, below two when one is due. `LookInv`: what the look-ahead
knows are the events of the lines it took, and it stopped where one of its
reasons says so. `EndInv`: a failure is the last item pushed, and the clean end
comes when every event was pushed.

*Replies.* `ReplyInv` joins one invariant per stream (`ChatInv`, `ClaudeInv`,
`ResponsesInv`, `OnceInv`): the gathered text is the text of the events read so
far, and `emittedLen` never passes the first marker of the *whole* text, though
the handler knows a prefix only. What the parser finds plays no part in it. That
the first marker of a prefix is, up to what is held back, that of the whole is the
lemma it turns on.

What the clients make of the events needs the parser, and `ToldInv`, which adds to
`ReplyInv`: `ItemsInv`, that the item a Responses client sees open is the one the
handler's flags say, under `outputIdx`, and that the deltas sent are the first
`emittedLen` cells of the text; `BlocksInv`, the same of the Claude blocks;
`ChatAnswered` and `OnceAnswered`, that the calls told are those the parser finds
in the text, unless they came from a continuation; and `Alike`, that the four
handlers serve the same request and end together. The step that turns a finished
reply into events is where it could go wrong: what the parser leaves of the text
may be shorter than what was already sent, and a Claude text block is stopped by
`CleanText` only when text is left. `ParsedIs` and `FrontStays` exclude that: of a
reply as prompted, every pass of the parser (`ScannedIs`, `PassesThen`) leaves the
tokens before the first `<tool_call>` alone, so what went out, white space at its
end aside (`TrimFront`), is the beginning of what is left (`DeltasMakeTheText`),
and of a reply of which text went out some text is left (`SomeIsLeft`). How a
client folds events into blocks is `Viewed`; `CallsFollow` says what a run of calls
does to it, by counting through the run.

`ThoughtsFirst` is a real limit: on a body such as `<<"p","p","p","p","p","t">>`
the Responses handler opens a reasoning item under the index of the message that
is still open, and the Claude handler a thinking block inside the text block. The
upstream as the handlers know it thinks before it answers, and the run's bodies
do so too. The proof of `AnswersAgree` supposes it because a collected answer that
ends in a thought gets a closing `</think>` behind its text before it is parsed:
TLC finds no short body on which that word changes the calls, but that it never
does is not proved.

*Sessions.* `SessionsInv` joins seven parts: each request's copy of what it read, the
lock, map and heap, the writers, the files, and the ghost of what was appended.
The hard ones: `WriterInv`, in which what a goroutine has marshalled and what it
may still read (`Partial`) goes on in order though the session changes under it;
and `FileInv`, that an inode is used for one key only, whichever goroutine renames
it last. `CountInv`, beside it, is about the turns: what a session holds of them, or
a goroutine has read of it, was counted but for the one being appended (`Pending`)
and one for each start, since what is written between the messages and the count is
what the next start loads (`Lag`).

*Operations.* `TunnelInv`: a process is alive only while the manager says so, it
is the one started last, and the mutex is held by a Start that is not done.
`TrackerInv`: every change of the list has a write to come (that a cleanup which
drops nothing leaves the very list is a lemma). `LogInv`: files are younger than
their backups entry by entry, and while no rename failed backups are full and
contiguous. `CliInv`: what a file holds is the user's by `left` (`FileFits`), so is
the text a call is to write (`TaskFits`), which, while nobody disturbs the call,
finds the file as it left it itself, truncated; and what was answered holds
(`AnswerFits`). `FilesInv`: a content that is gone early was pushed out by as many
others as there are places. `AdminInv`: what the request under way has computed, stored
and written keeps what was promised to those answered.

### Not proved

- *Liveness* (`EveryRequestAnswered`, `StreamEnds`, `ReaderLeaves`,
  `StopTerminates`): the prover has no rule for fairness over quantified actions.
- The five *violation* runs and the statements in no run are counterexamples, not
  theorems.
- That the parser finds *all* the calls a reader would find in a text is nobody's
  claim: the theorems relate what the handlers do with what it finds.

For the proofs some definitions took another form of the same meaning, which
the runs check as before: recursion and folds became recursive functions (`Only`,
`Until`, `EventsOf`, `Lex`, `Blocks`, `Viewed`, `ChatHistory`'s `At`), the four block
parsers are one `Blocks` told which kind of block it reads instead of being given
an operator, a cleanup of the error list keeps any sublist in
order, `LogKeepsNewest` compares entries pairwise, `FileCache` keeps as a history
which files were used `since`.

## Plan

1. Done: pool, cache, attempt loops, affinity, look-ahead, pacer; the reply
   streams with tool calls and continuation; sessions with crash and reload;
   admin configuration, error tracker, tunnel, request log, tools' settings, file
   cache.
2. Done: a theorem for every invariant and action property of the passing runs,
   and for both refinements.
3. Left, should the code change there: replies whose thoughts come between their
   text (the handlers would have to close the open item or block first), the
   hazards of `PROJECT.json` that have no property, and the image requests.

## Not modelled

- *Upstream client* (`qwen/client.go`, `browserengine`, `fingerprint`, `ssxmod`,
  `clientprofile`): the values of headers around one HTTP call. What handlers see
  of it is in `Gateway` and `StreamPacer`.
- *Image requests* (`imageupload.go`, `images_handler.go`, `ossupload`): network
  calls in sequence, around a map no property would be about.
- *Chat garbage collector*, *login client*, `contextoffload`, `fewshot`, `affinity`'s
  `AddFile` and `CleanExpired`, `aggregateStream`, `DetectRefusal`: nothing calls
  them. The *database* is not opened by the server.
- *Prompt shaping* beyond topic isolation and compaction, the converters between
  protocols, token counting, tool-name obfuscation, schema compression: pure
  functions from texts to texts, which decide no state.
- *The HTTP surface* (`server.go`, `error_middleware.go`): routing, and writers
  around writers, of which Abstractions says what follows for flushing.
- *The dashboard's reads, metrics, the models cache, the log's broadcast, key
  expiry times, each environment variable's parsing*: one assignment or one read
  each.
- *Admin log-in and the manual test program*: input and output.
