---------------------------- MODULE SessionStore ----------------------------
(* internal/session/store.go: the sessions by context hash, and the files    *)
(* they are saved to.                                                        *)
(*                                                                           *)
(* Callers and saving goroutines hold pointers to sessions that Create may   *)
(* replace or evict, so a session is an object of a heap. A saving goroutine *)
(* marshals the live object without the lock: it reads the summary, how many *)
(* messages there are, each message where the slice now has it, and then the *)
(* turn count, while AppendMessages assigns the slice, the count, the time   *)
(* and the slice again. It then writes the key's one temporary file (opened  *)
(* truncated, then written) and renames it.                                  *)
(* Time is the number of updates so far.                                     *)
EXTENDS Sequences, FiniteSetsExt

CONSTANTS
  Callers,      \* who may append or set a summary, each once
  maxSessions,  \* StoreConfig.MaxSessions
  maxHistory,   \* StoreConfig.MaxHistory
  Objects,      \* the heap: any number of sessions
  DataDirs,     \* values of StoreConfig.DataDir: None for ""
  None          \* no pointer, no file

ASSUME StoreAssumption ==
  /\ maxSessions \in Nat \ {0} /\ maxHistory \in Nat \ {0}
  /\ IsFiniteSet(Objects) /\ Objects \subseteq Nat
  /\ None \notin Objects \cup Callers

VARIABLES
  dataDir,   \* Store.dataDir: None if nothing is saved
  sessions,  \* Store.sessions: an object for each key there is a session of
  object,    \* the heap
  lock,      \* the caller that holds Store.mu over more than one step, or None
  clock,     \* time.Now()
  writer,    \* the goroutines of persistSession
  path,      \* the inode of each key's file
  tmp,       \* the inode of each key's temporary file
  inode      \* what each inode holds

storeVars == <<dataDir, sessions, object, lock, clock, writer, path, tmp, inode>>

\* The goroutine an AppendMessages starts, and the one a SetSummary starts.
Writers == Callers \X {"append", "summary"}
Inodes == Writers
NewSession(key, now) ==
    [key |-> key, summary |-> {}, messages |-> <<>>, turns |-> 0, updated |-> now]
IdleWriter == [pc |-> "idle", obj |-> None, count |-> 0, data |-> None, inode |-> None]
Empty == [broken |-> "empty"]  \* a file truncated and not yet written
Torn == [broken |-> "torn"]    \* a file two goroutines wrote, or a failed write
Absent(f, key) == key \notin DOMAIN f
Set(f, key, v) == [k \in DOMAIN f \cup {key} |-> IF k = key THEN v ELSE f[k]]
Unset(f, key) == [k \in DOMAIN f \ {key} |-> f[k]]

StoreInit ==
    /\ dataDir \in DataDirs
    /\ sessions = <<>>
    /\ object = [o \in Objects |-> None]
    /\ lock = None
    /\ clock = 0
    /\ writer = [w \in Writers |-> IdleWriter]
    /\ path = <<>> /\ tmp = <<>>
    /\ inode = [i \in Inodes |-> Empty]

\* An object nobody points at: the garbage collector's work.
Unreferenced(pointers) ==
    Objects \ (pointers \cup {sessions[k] : k \in DOMAIN sessions}
                       \cup {writer[w].obj : w \in Writers})
Fresh(pointers) == Min(Unreferenced(pointers))

---------------------------------------------------------------------------
\* evictOldest: of the sessions in the map, the one not updated the longest.
Oldest == CHOOSE k \in DOMAIN sessions : \A j \in DOMAIN sessions :
              object[sessions[k]].updated <= object[sessions[j]].updated
\* mutant: makes room only when there is one too many
OneOver(live) == IF Cardinality(DOMAIN live) > maxSessions THEN Unset(live, Oldest) ELSE live
Room(live) == IF Cardinality(DOMAIN live) >= maxSessions THEN Unset(live, Oldest) ELSE live

\* Create, with the pointers callers hold: also when the key has a session,
\* which it replaces. The heap has room for it (the bound on Objects).
Create(key, pointers) ==
    LET o == Fresh(pointers)
    IN /\ lock = None /\ Unreferenced(pointers) # {}
       /\ sessions' = Set(Room(sessions), key, o)
       /\ object' = [object EXCEPT ![o] = NewSession(key, clock + 1)]
       /\ clock' = clock + 1
       /\ UNCHANGED <<dataDir, lock, writer, path, tmp, inode>>

\* persistSession starts its goroutine if there is a data directory.
Spawned(w, o) ==
    IF dataDir = None THEN writer
    ELSE [writer EXCEPT ![w] = [IdleWriter EXCEPT !.pc = "begin", !.obj = o]]

\* AppendMessages, which keeps the lock over all of it: first the messages.
Append1(c, key, msgs) ==
    /\ lock = None
    /\ ~Absent(sessions, key)
    /\ lock' = c
    /\ object' = [object EXCEPT ![sessions[key]].messages = @ \o msgs]
    /\ UNCHANGED <<dataDir, sessions, clock, writer, path, tmp, inode>>

\* mutant: a turn that overflows the history is not counted
CountedIfRoom(live) ==
    [live EXCEPT !.turns = IF Len(live.messages) > maxHistory THEN @ ELSE @ + 1]
\* Then the count of turns.
Counted(live) == [live EXCEPT !.turns = @ + 1]
Append2(c, key) ==
    /\ lock = c
    /\ object' = [object EXCEPT ![sessions[key]] = Counted(@)]
    /\ UNCHANGED <<dataDir, sessions, lock, clock, writer, path, tmp, inode>>

\* mutant: a ring buffer, where the newest messages overwrite the oldest in place
RingTrimmed(msgs) ==
    SubSeq(msgs, maxHistory + 1, Len(msgs)) \o SubSeq(msgs, 1, Min({maxHistory, Len(msgs)}))
\* Then the time and the trim, which nothing reads together: the time is read
\* after the messages, the messages before the time. Then the saving goroutine.
Trimmed(msgs) == SubSeq(msgs, Max({1, Len(msgs) - maxHistory + 1}), Len(msgs))
Append3(c, key) ==
    /\ lock = c
    /\ object' = [object EXCEPT ![sessions[key]].updated = clock + 1,
                                ![sessions[key]].messages = Trimmed(@)]
    /\ clock' = clock + 1
    /\ writer' = Spawned(<<c, "append">>, sessions[key])
    /\ lock' = None
    /\ UNCHANGED <<dataDir, sessions, path, tmp, inode>>

SetSummary(c, key, summary) ==
    /\ lock = None
    /\ IF Absent(sessions, key) THEN UNCHANGED storeVars
       ELSE /\ object' = [object EXCEPT ![sessions[key]].summary = summary,
                                        ![sessions[key]].updated = clock + 1]
            /\ clock' = clock + 1
            /\ writer' = Spawned(<<c, "summary">>, sessions[key])
            /\ UNCHANGED <<dataDir, sessions, lock, path, tmp, inode>>

GetSummary(key) == IF Absent(sessions, key) THEN {} ELSE object[sessions[key]].summary
GetTurnCount(key) == IF Absent(sessions, key) THEN 0 ELSE object[sessions[key]].turns

---------------------------------------------------------------------------
\* persistSession's goroutine. MarshalIndent walks the fields in their order.
Begin(w) ==
    LET live == object[writer[w].obj]
    IN /\ writer[w].pc = "begin"
       /\ writer' = [writer EXCEPT ![w].pc = "element",
                                   ![w].count = Len(live.messages),
                                   ![w].data = [live EXCEPT !.messages = <<>>]]
       /\ UNCHANGED <<dataDir, sessions, object, lock, clock, path, tmp, inode>>

\* One more element, read from the slice as it is now. If it has been trimmed
\* in between, indexing it panics, and the goroutine recovers and is gone.
Element(w) ==
    LET live == object[writer[w].obj].messages
        next == Len(writer[w].data.messages) + 1
    IN /\ writer[w].pc = "element" /\ next <= writer[w].count
       /\ writer' = IF next > Len(live) THEN [writer EXCEPT ![w] = IdleWriter]
                    ELSE [writer EXCEPT ![w].data.messages = Append(@, live[next])]
       /\ UNCHANGED <<dataDir, sessions, object, lock, clock, path, tmp, inode>>

\* The fields after the messages; then os.WriteFile opens the temporary file,
\* truncating the one that is there; a new one gets the goroutine's own inode.
Marshalled(data, live) ==
    [data EXCEPT !.turns = live.turns, !.updated = live.updated]
Open(w) ==
    LET key == writer[w].data.key
        i == IF Absent(tmp, key) THEN w ELSE tmp[key]
    IN /\ writer[w].pc = "element"
       /\ Len(writer[w].data.messages) = writer[w].count
       /\ tmp' = Set(tmp, key, i)
       /\ inode' = [inode EXCEPT ![i] = Empty]
       /\ writer' = [writer EXCEPT ![w].pc = "write", ![w].inode = i,
                                   ![w].data = Marshalled(@, object[writer[w].obj])]
       /\ UNCHANGED <<dataDir, sessions, object, lock, clock, path>>

\* What a write from the start of the file leaves of what another goroutine
\* wrote since: nothing, or a longer text's end.
Overwritten(old, data) == IF old \in {Empty, data} THEN {data} ELSE {data, Torn}

Write(w) ==
    LET i == writer[w].inode
    IN /\ writer[w].pc = "write"
       /\ \/ /\ \E new \in Overwritten(inode[i], writer[w].data) :
                   inode' = [inode EXCEPT ![i] = new]
             /\ writer' = [writer EXCEPT ![w].pc = "rename"]
          \/ /\ inode' = [inode EXCEPT ![i] = Torn]
             /\ writer' = [writer EXCEPT ![w] = IdleWriter]
       /\ UNCHANGED <<dataDir, sessions, object, lock, clock, path, tmp>>

\* Another goroutine may have renamed the temporary file: then it fails.
Rename(w) ==
    LET key == writer[w].data.key
    IN /\ writer[w].pc = "rename"
       /\ IF Absent(tmp, key) THEN UNCHANGED <<path, tmp>>
          ELSE path' = Set(path, key, tmp[key]) /\ tmp' = Unset(tmp, key)
       /\ writer' = [writer EXCEPT ![w] = IdleWriter]
       /\ UNCHANGED <<dataDir, sessions, object, lock, clock, inode>>

Persist(w) == Begin(w) \/ Element(w) \/ Open(w) \/ Write(w) \/ Rename(w)

---------------------------------------------------------------------------
\* load: every file that parses, however many there are.
Readable(data) == data \notin {Empty, Torn}
Loaded == {k \in DOMAIN path : Readable(inode[path[k]])}

\* The process dies and is started again: what was in memory is gone. The heap
\* has room for what is loaded (the bound on Objects).
Restart ==
    LET place == CHOOSE f \in Injection(Loaded, Objects) : TRUE
        Owners(o) == {k \in Loaded : place[k] = o}
    IN /\ ExistsInjection(Loaded, Objects)
       /\ sessions' = place
       /\ object' = [o \in Objects |->
             IF Owners(o) = {} THEN None ELSE inode[path[CHOOSE k \in Owners(o) : TRUE]]]
       /\ lock' = None
       /\ writer' = [w \in Writers |-> IdleWriter]
       /\ UNCHANGED <<dataDir, clock, path, tmp, inode>>
=============================================================================
