----------------------------- MODULE FileCache -----------------------------
(***************************************************************************)
(* The contents of files clients have sent (filecache/cache.go), by which  *)
(* processFileCache (chat.go:1688) replaces a later "file unchanged since  *)
(* last read": the least recently used list of a client's path, content    *)
(* and expiry.  A request's file blocks are looked up and stored one       *)
(* locked call at a time, among those of every other request.              *)
(***************************************************************************)
EXTENDS Naturals, Sequences, SequencesExt, FiniteSets

CONSTANTS File_,     \* pairs of an API key and a path
          Text_,     \* contents
          Hint_,     \* those with a phrase of unchangedRe in them, Claude Code's
                     \* placeholder for a file it has sent before among them
          MaxFiles,  \* maxEntries, 200 as main.go makes it
          FileTTL    \* ttl in ticks, 15 minutes as main.go makes it

VARIABLES ll,        \* the list, most recently used first; items is its index
          since,     \* history: the files used since each file was
          sent,      \* history: the content last sent of each file that is not
                     \* taken for a hint, and for how much longer it is kept
          newer      \* history: the files whose last content was taken for one

fileVars == <<ll, since, sent, newer>>

ASSUME FilesAssumption == MaxFiles \in Nat \ {0} /\ FileTTL \in Nat \ {0}

Placeholder == "placeholder"

Entry == [file: File_, content: Text_, left: 0..FileTTL]

FilesInit == ll = <<>> /\ since = <<>> /\ sent = <<>> /\ newer = {}

Held == {ll[i].file : i \in DOMAIN ll}
Place(file) == CHOOSE i \in DOMAIN ll : ll[i].file = file
OthersThan(file) == IF file \in Held THEN RemoveAt(ll, Place(file)) ELSE ll

\* Mutant of ToFront: an entry that is there stays in its place.
InPlace(e) ==
  IF e.file \in Held THEN [i \in DOMAIN ll |-> IF ll[i].file = e.file THEN e ELSE ll[i]]
  ELSE <<e>> \o ll

ToFront(e) == <<e>> \o OthersThan(e.file)

\* The entries from the back go until there is room; an update evicts nothing.
Evicted(list) == SubSeq(list, 1, IF Len(list) > MaxFiles THEN MaxFiles ELSE Len(list))

Use(file) ==
  since' = [f \in DOMAIN sent' |-> IF f = file THEN {} ELSE since[f] \union {file}]

Put(file, content) ==
  LET e == [file |-> file, content |-> content, left |-> FileTTL]
  IN /\ ll' = IF file \in Held THEN ToFront(e) ELSE Evicted(ToFront(e))
     /\ sent' = [f \in DOMAIN sent \union {file} |-> IF f = file THEN e ELSE sent[f]]
     /\ Use(file)

\* A hit is used once more, though not kept for longer; what has expired is
\* removed; without a hit the hint stays in the message.
Get(file) ==
  /\ UNCHANGED sent
  /\ \/ /\ file \in Held /\ ll[Place(file)].left > 0
        /\ ll' = ToFront(ll[Place(file)]) /\ Use(file)
     \/ /\ file \in Held /\ ll[Place(file)].left = 0
        /\ ll' = OthersThan(file) /\ UNCHANGED since
     \/ file \notin Held /\ UNCHANGED <<ll, since>>

IsUnchangedHint(content) == content \in Hint_ \union {Placeholder}

\* A block of a message: a client's file, or the placeholder for it.
FileBlock(file, content) ==
  /\ IF IsUnchangedHint(content) THEN Get(file) ELSE Put(file, content)
  /\ newer' = CASE content = Placeholder -> newer
                [] IsUnchangedHint(content) -> newer \union {file}
                [] OTHER -> newer \ {file}

Older(e) == [e EXCEPT !.left = IF @ = 0 THEN 0 ELSE @ - 1]
FilesTick ==
  /\ ll' = [i \in DOMAIN ll |-> Older(ll[i])]
  /\ sent' = [f \in DOMAIN sent |-> Older(sent[f])]
  /\ UNCHANGED <<since, newer>>

FilesNext ==
  \/ \E file \in File_, content \in Text_ \union {Placeholder} : FileBlock(file, content)
  \/ FilesTick

FilesSpec == FilesInit /\ [][FilesNext]_fileVars
----------------------------------------------------------------------------
FilesTypeOK ==
  /\ ll \in Seq(Entry) /\ Len(ll) <= MaxFiles
  /\ DOMAIN sent \subseteq File_ /\ since \in [DOMAIN sent -> SUBSET File_]
  /\ newer \subseteq File_

\* An "unchanged" file gets the content its client last sent for that path
\* (of those that are not taken for hints themselves), whatever was sent, looked
\* up, evicted or expired meanwhile, and gets it for sure while that has not
\* expired and fewer than MaxFiles other files were used since.
HintsExpandToLast ==
  /\ \A e \in ToSet(ll) : e = sent[e.file]
  /\ \A f \in DOMAIN sent :
       sent[f].left > 0 /\ Cardinality(since[f]) < MaxFiles => f \in Held

\* cache.go:1-3: hints are replaced "with the real cached content".  A file
\* with a hint's phrase in it is taken for one (chat.go:1715): it is not stored,
\* and it and the hints after it get the content that it has replaced.
HintsExpandToReal == \A e \in ToSet(ll) : e.left > 0 => e.file \notin newer
============================================================================
