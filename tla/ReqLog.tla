------------------------------- MODULE ReqLog -------------------------------
(***************************************************************************)
(* The rotating request log (reqlog.go).  An entry is its number, a file   *)
(* the entries it holds; the size limit counts entries.  A rotation        *)
(* ignores renames that fail, and one that cannot reopen the file leaves   *)
(* the closed one in place, so that nothing is logged until a restart.     *)
(***************************************************************************)
EXTENDS Naturals, Sequences, SequencesExt

CONSTANTS MaxSize,     \* size at which the file is rotated, 50 MiB in the code
          MaxBackups,  \* maxBackups, 3 in the code
          MaxEntries   \* entries logged in a behaviour

VARIABLES logs,       \* logs[0] is the log, logs[i] its i-th backup
          open,        \* the log file is open
          logged,      \* number of the latest entry
          faulty       \* a rename or a reopen has failed

logVars == <<logs, open, logged, faulty>>

ASSUME LogAssumption == /\ MaxSize \in Nat \ {0} /\ MaxBackups \in Nat \ {0}
                        /\ MaxEntries \in Nat

Exists(i) == logs[i] # <<>>

LogInit ==
  /\ logs = [i \in 0..MaxBackups |-> <<>>]
  /\ open = TRUE /\ logged = 0 /\ faulty = FALSE

\* Each backup moves up one place, the eldest first and over the last, and the
\* log becomes the first; the renames in stuck fail.
Moved(stuck) == {i \in 0..(MaxBackups - 1) : Exists(i) /\ i \notin stuck}
\* Mutant of Shifted: the youngest backup is renamed first.
YoungestFirst(stuck) ==
  [i \in 0..MaxBackups |-> IF i = 1 THEN logs[0]
                           ELSE IF i = MaxBackups /\ Exists(1) THEN logs[1] ELSE <<>>]

Shifted(stuck) ==
  [i \in 0..MaxBackups |-> IF i > 0 /\ i - 1 \in Moved(stuck) THEN logs[i - 1]
                           ELSE IF i \in Moved(stuck) THEN <<>> ELSE logs[i]]

Rotated(stuck) == IF Len(logs[0]) < MaxSize THEN logs ELSE Shifted(stuck)

Log ==
  /\ open /\ logged < MaxEntries
  /\ logged' = logged + 1
  /\ \E stuck \in SUBSET (0..(MaxBackups - 1)) :
       /\ Len(logs[0]) < MaxSize => stuck = {}
       /\ logs' = [Rotated(stuck) EXCEPT ![0] = Append(@, logged + 1)]
       /\ faulty' = (faulty \/ stuck # {})
  /\ UNCHANGED open

\* The reopen after the renames fails: this entry and all that follow are lost.
ReopenFails ==
  /\ open /\ logged < MaxEntries /\ Len(logs[0]) >= MaxSize
  /\ logged' = logged + 1
  /\ logs' = Rotated({})
  /\ open' = FALSE /\ faulty' = TRUE

LogClosed ==
  /\ ~open /\ logged < MaxEntries
  /\ logged' = logged + 1
  /\ UNCHANGED <<logs, open, faulty>>

\* A new process appends to the file that is there (NewLogger).
LogRestart ==
  /\ open' = TRUE
  /\ UNCHANGED <<logs, logged, faulty>>

LogNext == Log \/ ReopenFails \/ LogClosed \/ LogRestart

LogSpec == LogInit /\ [][LogNext]_logVars
----------------------------------------------------------------------------
LogTypeOK ==
  /\ logs \in [0..MaxBackups -> Seq(1..MaxEntries)]
  /\ open \in BOOLEAN /\ faulty \in BOOLEAN
  /\ logged \in 0..MaxEntries

Entries == UNION {ToSet(logs[i]) : i \in DOMAIN logs}

\* Read from the last backup to the log, the entries are in the order they were
\* logged, each once, whatever renames fail.  While none does, they are the
\* newest without a gap, and an entry is given up only when every backup is
\* full (reqlog.go:154-179).
LogKeepsNewest ==
  /\ \A i, j \in DOMAIN logs : \A p \in DOMAIN logs[i], q \in DOMAIN logs[j] :
       i > j \/ (i = j /\ p < q) => logs[i][p] < logs[j][q]
  /\ ~faulty =>
       /\ \A e \in Entries : e..logged \subseteq Entries
       /\ \/ 1..logged \subseteq Entries
          \/ Exists(0) /\ \A i \in 1..MaxBackups : Len(logs[i]) >= MaxSize
============================================================================
