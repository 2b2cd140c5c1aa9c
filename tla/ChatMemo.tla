------------------------------ MODULE ChatMemo ------------------------------
(***************************************************************************)
(* What the request handlers rely on from internal/promptcache: a memory   *)
(* of the last chat_id put under a key, which may be lost at any time      *)
(* (expiry, eviction) but is never wrong.  PromptCache, with its capacity, *)
(* insertion order and TTL, implements it; Gateway is built on it.         *)
(***************************************************************************)
CONSTANTS
  Key,     \* cache keys, hashes of request payloads in the code
  Chat,    \* upstream chat ids
  NoChat   \* the empty chat_id, what a miss returns

VARIABLES
  memo,    \* the chat remembered under each key, or NoChat
  found,   \* the answer of the last call, NoChat unless it was a Get
  call     \* the last call with its arguments; << >> for a loss nobody asked for

memoVars == <<memo, found, call>>

Init ==
  /\ memo  = [k \in Key |-> NoChat]
  /\ found = NoChat
  /\ call  = << >>

\* What a call does to the memory.  Remembering a chat may push others out
\* (or itself, when the cache is disabled), never change them.
Remember(k, c) ==
  \E lost \in SUBSET Key :
    memo' = [j \in Key |-> IF j \in lost THEN NoChat ELSE IF j = k THEN c ELSE memo[j]]

Erase(k) == memo' = [memo EXCEPT ![k] = NoChat]

Get(k) ==
  /\ found' = memo[k]
  /\ call'  = <<"get", k>>
  /\ UNCHANGED memo

Put(k, c) ==
  /\ IF c = NoChat THEN UNCHANGED memo ELSE Remember(k, c)
  /\ found' = NoChat
  /\ call'  = <<"put", k, c>>

Invalidate(k) ==
  /\ Erase(k)
  /\ found' = NoChat
  /\ call'  = <<"invalidate", k>>

\* Expiry, which nobody asks for.
Lose ==
  /\ \E lost \in SUBSET Key :
       memo' = [j \in Key |-> IF j \in lost THEN NoChat ELSE memo[j]]
  /\ found' = NoChat
  /\ call'  = << >>

Next ==
  \/ \E k \in Key : Get(k) \/ Invalidate(k)
  \/ \E k \in Key, c \in Chat \cup {NoChat} : Put(k, c)
  \/ Lose

Spec == Init /\ [][Next]_memoVars

=============================================================================
