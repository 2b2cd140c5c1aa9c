----------------------------- MODULE PromptCache -----------------------------
(***************************************************************************)
(* internal/promptcache: chat ids by request hash, with a TTL and a        *)
(* capacity.  The map (entries) and the eviction queue (order) are kept    *)
(* apart by the code and have to agree: eviction walks the queue and       *)
(* counts the map.  Every method holds the mutex, so each is one action.   *)
(* Time is relative: an entry carries the ticks left until expiresAt.      *)
(* The hit and miss counters are left out.                                 *)
(***************************************************************************)
EXTENDS Naturals, Sequences, FiniteSets

CONSTANTS
  Key,     \* cache keys
  Chat,    \* chat ids
  NoChat,  \* the empty chat_id
  Max,     \* capacity; 0 disables the cache
  TTL      \* ticks an entry lives after its last Put

ASSUME CacheAssumption ==
  /\ NoChat \notin Chat
  /\ Max \in Nat
  /\ TTL \in Nat \ {0}

VARIABLES
  entries,  \* c.entries: key -> chat and ticks left
  order,    \* c.order: keys, the oldest insertion first
  found,    \* what the last call returned: a chat after a hit, else NoChat
  asked     \* the last call and its arguments (history; the code keeps none)

cacheVars == <<entries, order, found, asked>>

Entry  == [chat : Chat, left : Nat]
Cached == DOMAIN entries
Live(k) == k \in Cached /\ entries[k].left > 0

Drop(f, keys) == [k \in DOMAIN f \ keys |-> f[k]]

LeftInQueue(k) == order
\* order with the first occurrence of k taken out.
Without(k) ==
  LET first == CHOOSE i \in 1 .. Len(order) :
                 order[i] = k /\ \A j \in 1 .. i - 1 : order[j] # k
  IN IF \E i \in 1 .. Len(order) : order[i] = k
     THEN SubSeq(order, 1, first - 1) \o SubSeq(order, first + 1, Len(order))
     ELSE order

removeLocked(k) ==
  IF k \in Cached
  THEN entries' = Drop(entries, {k}) /\ order' = Without(k)
  ELSE UNCHANGED <<entries, order>>

-----------------------------------------------------------------------------
CacheInit ==
  /\ entries = << >>
  /\ order   = << >>
  /\ found   = NoChat
  /\ asked   = << >>

\* An expired entry is removed on the way to the miss.  (A disabled cache is
\* empty, so its Get is the miss.)
Get(k) ==
  /\ \/ /\ Live(k)
        /\ found' = entries[k].chat
        /\ UNCHANGED <<entries, order>>
     \/ /\ ~Live(k)
        /\ removeLocked(k)
        /\ found' = NoChat
  /\ asked' = <<"get", k>>

OverFull(n) == Cardinality(Cached \ {order[i] : i \in 1 .. n}) > Max
\* The loop condition "len(c.entries) >= c.max" after n evictions.
StillFull(n) == Cardinality(Cached \ {order[i] : i \in 1 .. n}) >= Max

\* How many of the oldest keys Put evicts before it inserts a new one.
Evictions ==
  CHOOSE n \in 0 .. Len(order) :
    /\ n = Len(order) \/ ~StillFull(n)
    /\ \A m \in 0 .. n - 1 : StillFull(m)

EmptyStored(c) == Max > 0
Stored(c) == Max > 0 /\ c # NoChat

FirstChatKept(k, c) == [entries[k] EXCEPT !.left = TTL]
Refreshed(k, c) == [chat |-> c, left |-> TTL]

\* Updating an entry renews its TTL and leaves its place in the queue.
Put(k, c) ==
  /\ \/ /\ Stored(c) /\ k \in Cached
        /\ entries' = [entries EXCEPT ![k] = Refreshed(k, c)]
        /\ UNCHANGED order
     \/ /\ Stored(c) /\ k \notin Cached
        /\ LET gone == {order[i] : i \in 1 .. Evictions}
           IN entries' = [j \in (Cached \ gone) \cup {k} |->
                            IF j = k THEN [chat |-> c, left |-> TTL] ELSE entries[j]]
        /\ order' = Append(SubSeq(order, Evictions + 1, Len(order)), k)
     \/ ~Stored(c) /\ UNCHANGED <<entries, order>>
  /\ found' = NoChat
  /\ asked'  = <<"put", k, c>>

Invalidate(k) ==
  /\ removeLocked(k)
  /\ found' = NoChat
  /\ asked'  = <<"invalidate", k>>

CacheTick ==
  /\ entries' = [k \in Cached |-> [entries[k] EXCEPT !.left = IF @ > 0 THEN @ - 1 ELSE 0]]
  /\ found'   = NoChat
  /\ asked'    = << >>
  /\ UNCHANGED order

CacheNext ==
  \/ \E k \in Key : Get(k) \/ Invalidate(k)
  \/ \E k \in Key, c \in Chat \cup {NoChat} : Put(k, c)
  \/ CacheTick

CacheSpec == CacheInit /\ [][CacheNext]_cacheVars

-----------------------------------------------------------------------------
\* Keys lead to entries with a chat (a Put of the empty chat_id is ignored)
\* and the queue holds keys.
CacheTypeOK ==
  /\ Cached \subseteq Key
  /\ entries \in [Cached -> Entry]
  /\ order \in Seq(Key)
  /\ found \in Chat \cup {NoChat}

\* The eviction queue holds every cached key exactly once and no ghost, after
\* any sequence of expiries, invalidations, updates and evictions: a ghost
\* would be evicted in place of a live entry, and a key missing from the
\* queue could never be evicted.
QueueMatchesMap ==
  /\ {order[i] : i \in 1 .. Len(order)} = Cached
  /\ \A i, j \in 1 .. Len(order) : order[i] = order[j] => i = j

\* "Evicts oldest entries when at capacity": the cache never holds more than
\* Max entries, and none at all when disabled.
WithinCapacity == Cardinality(Cached) <= Max

Memory == [k \in Key |-> IF Live(k) THEN entries[k].chat ELSE NoChat]
Memo   == INSTANCE ChatMemo WITH memo <- Memory, call <- asked

\* A hit returns the chat last put under that very key and not invalidated
\* since: expiry and eviction may lose an entry, nothing ever changes one.
CacheIsMemo == Memo!Spec

=============================================================================
