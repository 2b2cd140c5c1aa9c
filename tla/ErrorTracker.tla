---------------------------- MODULE ErrorTracker ----------------------------
(***************************************************************************)
(* The error tracker (error_tracker.go): the latest errors in memory under *)
(* one mutex, and errors.json, written whole by goroutines that Track and  *)
(* CleanupOldErrors start.  Every failed upstream request waits for its    *)
(* mutex (handleUpstreamFailure, chat.go:537-578).  main.go gives it the   *)
(* log's path as its directory, so it exists only where that path is a     *)
(* directory: elsewhere the handlers find it nil and report nothing.       *)
(***************************************************************************)
EXTENDS Naturals, Sequences, SequencesExt

CONSTANTS MaxErrors,   \* maxErrors, 1000 in the code
          MaxTracked   \* errors tracked in a behaviour

VARIABLES errors,      \* ErrorTracker.errors: errors are numbered as they come
          file,        \* errors.json
          clearing,    \* Clear holds the mutex
          persists,    \* goroutines that wait to persist
          tracked,     \* number of the latest error
          failed       \* a write has failed, or a file did not load

trackerVars == <<errors, file, clearing, persists, tracked, failed>>

ASSUME ErrorsAssumption == MaxErrors \in Nat \ {0} /\ MaxTracked \in Nat

TrackerInit ==
  /\ errors = <<>>
  /\ file = [whole |-> TRUE, list |-> <<>>]
  /\ clearing = FALSE /\ persists = 0 /\ tracked = 0 /\ failed = FALSE

\* Mutant of Latest: one error too many is kept.
OneTooMany(list) == IF Len(list) > MaxErrors + 1 THEN SubSeq(list, 2, Len(list)) ELSE list

Latest(list) == IF Len(list) > MaxErrors
                THEN SubSeq(list, Len(list) - MaxErrors + 1, Len(list)) ELSE list

Track ==
  /\ ~clearing /\ tracked < MaxTracked
  /\ tracked' = tracked + 1
  /\ errors' = Latest(Append(errors, tracked + 1))
  /\ persists' = persists + 1
  /\ UNCHANGED <<file, clearing, failed>>

\* The positions of the errors younger than the cutoff, in order.  An error is
\* stamped before it waits for the mutex (chat.go:548, 567), so the old ones
\* may be anywhere in the list.
Younger == {at \in UNION {[1..k -> DOMAIN errors] : k \in 0..Len(errors)} :
              \A i, j \in DOMAIN at : i < j => at[i] < at[j]}

Kept(at) == [i \in DOMAIN at |-> errors[at[i]]]

\* Mutant of CleanupOldErrors: the list is cut but not persisted.
CleanedInMemory(at) ==
  /\ ~clearing /\ errors' = Kept(at)
  /\ UNCHANGED <<file, clearing, persists, tracked, failed>>

CleanupOldErrors(at) ==
  /\ ~clearing
  /\ errors' = Kept(at)
  /\ persists' = IF Len(Kept(at)) < Len(errors) THEN persists + 1 ELSE persists
  /\ UNCHANGED <<file, clearing, tracked, failed>>

\* persist holds the mutex from its reading of the list to the end of its write.
Persist ==
  /\ ~clearing /\ persists > 0
  /\ persists' = persists - 1
  /\ file' = [whole |-> TRUE, list |-> errors]
  /\ failed' = FALSE
  /\ UNCHANGED <<errors, clearing, tracked>>

PersistFails ==
  /\ ~clearing /\ persists > 0
  /\ persists' = persists - 1
  /\ file' \in {file, [whole |-> FALSE, list |-> <<>>]}
  /\ failed' = TRUE
  /\ UNCHANGED <<errors, clearing, tracked>>

\* Clear empties the list and calls persist, which waits for the mutex that
\* Clear holds: neither it nor anybody else goes on.
Clear ==
  /\ ~clearing /\ clearing' = TRUE
  /\ errors' = <<>>
  /\ UNCHANGED <<file, persists, tracked, failed>>

\* A restart loads the file; one that does not parse is left, and the list empty.
TrackerRestart ==
  /\ clearing' = FALSE /\ persists' = 0
  /\ errors' = IF file.whole THEN file.list ELSE <<>>
  /\ failed' = ~file.whole
  /\ UNCHANGED <<file, tracked>>

\* The process dies while persist has truncated the file.
TrackerCrash ==
  /\ ~clearing /\ persists > 0
  /\ clearing' = FALSE /\ persists' = 0
  /\ file' = [whole |-> FALSE, list |-> <<>>]
  /\ errors' = <<>>
  /\ failed' = TRUE
  /\ UNCHANGED tracked

TrackerNext ==
  \/ Track \/ Persist \/ PersistFails \/ Clear \/ TrackerRestart \/ TrackerCrash
  \/ \E at \in Younger : CleanupOldErrors(at)

TrackerSpec == TrackerInit /\ [][TrackerNext]_trackerVars

\* Whoever can have the mutex gets it.
FairTracker == TrackerSpec /\ WF_trackerVars(Persist)
----------------------------------------------------------------------------
TrackerTypeOK ==
  /\ errors \in Seq(1..MaxTracked) /\ Len(errors) <= MaxErrors
  /\ file \in [whole: BOOLEAN, list: Seq(1..MaxTracked)]
  /\ clearing \in BOOLEAN /\ failed \in BOOLEAN
  /\ persists \in Nat /\ tracked \in 0..MaxTracked

\* Once nobody is at work on them, the file holds the list: no goroutine has
\* written an older list over a newer one, and no change was left without a
\* write (error_tracker.go:86, 184-197, 214-218), but one that failed.  A Clear
\* is at work for ever: what becomes of the file then is ClearRemovesAll's.
\* Memory and file keep the errors in the order they came.
TrackerFileCatchesUp ==
  /\ persists = 0 /\ ~clearing /\ ~failed => file = [whole |-> TRUE, list |-> errors]
  /\ \A list \in {errors, file.list} :
       \A i, j \in DOMAIN list : i < j => list[i] < list[j]

\* error_tracker.go:161: Clear removes all tracked errors, those in the file
\* too, unless a restart cuts it off first.  It waits for a mutex it holds
\* itself: the file keeps them, and a restart brings them back.
ClearRemovesAll ==
  \A n \in 1..MaxTracked :
    clearing /\ n <= tracked ~>
      \/ n \notin ToSet(errors) \union ToSet(file.list)
      \/ ~clearing
============================================================================
