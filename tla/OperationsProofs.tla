-------------------------- MODULE OperationsProofs --------------------------
(***************************************************************************)
(* Proofs about the operator's side of the server and the file cache: the  *)
(* tunnel, the error tracker, the request log, the settings of the command *)
(* line tools, the contents of files and the configuration, each by its    *)
(* own specification and for any values of its constants; then all of them *)
(* beside each other.                                                      *)
(***************************************************************************)
EXTENDS Operations, Loops, SequenceTheorems, FiniteSetTheorems, TLAPS

-----------------------------------------------------------------------------
\* The tunnel.  A process is alive only while the manager says so, it is the
\* one started last, and the mutex is held by a Start that is not done.
TunnelInv ==
  /\ TunnelTypeOK
  /\ Current \in Nat
  /\ Live \subseteq {Current}
  /\ ~ manager.running => Live = {}
  /\ lock # None => manager.running /\ call[lock] \in {"select", "stop"}
  /\ \A c \in Callers : call[c] = "select" => lock = c
  /\ server = "stopped" => Live = {} /\ \A c \in Callers : call[c] = "idle"

LEMMA Sized ==
  ASSUME NEW n \in Nat, NEW f, DOMAIN f = 1..n
  PROVE  Cardinality(DOMAIN f) = n
BY FS_Interval

LEMMA TunnelInvInit == TunnelInit => TunnelInv
<1> SUFFICES ASSUME TunnelInit PROVE TunnelInv
  OBVIOUS
<1>1. Current = 0
  <2>1. DOMAIN procs = 1..0
    BY DEF TunnelInit
  <2>2. QED
    BY <2>1, Sized DEF Current, Started
<1>2. Live = {}
  BY DEF TunnelInit, Live, Started
<1>3. TunnelTypeOK
  BY <1>1, ProcsAssumption DEF TunnelInit, TunnelTypeOK, Started
<1>4. QED
  BY <1>1, <1>2, <1>3 DEF TunnelInit, TunnelInv

\* The process that is killed, or exits, leaves the others as they are.
LEMMA KilledLive ==
  ASSUME TunnelInv, procs' = Killed
  PROVE  /\ procs' \in [1..Current -> {"live", "failed", "done"}]
         /\ Current' = Current /\ Started' = Started /\ Live' = {}
<1>1. procs \in [1..Current -> {"live", "failed", "done"}] /\ Started = 1..Current
  BY DEF TunnelInv, TunnelTypeOK, Started
<1>2. procs' \in [1..Current -> {"live", "failed", "done"}]
  BY <1>1 DEF Killed
<1>3. Current' = Current /\ Started' = Started
  BY <1>1, <1>2 DEF Current, Started
<1>4. \A p \in Started : procs'[p] # "live"
  BY <1>1 DEF Killed, TunnelInv, Live
<1>5. QED
  BY <1>2, <1>3, <1>4 DEF Live

LEMMA TunnelInvNext == TunnelInv /\ [TunnelNext]_tunnelVars => TunnelInv'
<1> SUFFICES ASSUME TunnelInv, [TunnelNext]_tunnelVars PROVE TunnelInv'
  OBVIOUS
<1>0. /\ procs \in [1..Current -> {"live", "failed", "done"}] /\ Started = 1..Current
      /\ Current \in Nat /\ Current <= MaxProcs /\ MaxProcs \in Nat
      /\ call \in [Callers -> {"idle", "start", "stop", "status", "select"}]
      /\ manager \in [running: BOOLEAN, url: BOOLEAN]
      /\ "none" \notin Callers
  BY ProcsAssumption DEF TunnelInv, TunnelTypeOK, Started
\* Steps that start and end no process and do not touch the manager.
<1>1. ASSUME NEW c \in Callers, Request(c) \/ AlreadyRunning(c) \/ SpawnFails(c) \/ Status(c)
      PROVE  TunnelInv'
  <2>1. UNCHANGED <<lock, manager, procs, printed, server>> /\ server = "up"
    BY <1>1 DEF Request, AlreadyRunning, SpawnFails, Status, Free
  <2>2. PICK pc \in {"idle", "start", "stop", "status"} : Go(c, pc)
    BY <1>1 DEF Request, AlreadyRunning, SpawnFails, Status
  <2>3. lock # c
    BY <1>0, <1>1 DEF Request, AlreadyRunning, SpawnFails, Status, Free, None, TunnelInv
  <2>4. call' \in [Callers -> {"idle", "start", "stop", "status", "select"}]
        /\ call'[c] = pc /\ \A d \in Callers \ {c} : call'[d] = call[d]
    BY <1>0, <2>2 DEF Go
  <2>5. TunnelTypeOK' /\ Live' = Live /\ Current' = Current
    BY <2>1, <2>4 DEF TunnelInv, TunnelTypeOK, Live, Current, Started
  <2>6. QED
    BY <1>0, <2>1, <2>2, <2>3, <2>4, <2>5 DEF TunnelInv, TunnelTypeOK, None
<1>2. ASSUME NEW c \in Callers, Spawn(c) PROVE TunnelInv'
  <2>1. /\ lock = None /\ lock' = c /\ server' = "up" /\ server = "up" /\ ~ manager.running
        /\ manager' \in [running: BOOLEAN, url: BOOLEAN] /\ manager'.running
        /\ Current < MaxProcs /\ Live = {} /\ UNCHANGED printed
        /\ call[c] = "start"
    BY <1>0, <1>2 DEF Spawn, Free, TunnelInv
  <2>2. /\ call' \in [Callers -> {"idle", "start", "stop", "status", "select"}]
        /\ call'[c] = "select" /\ \A d \in Callers \ {c} : call'[d] = call[d]
    BY <1>0, <1>2 DEF Spawn, Go
  <2>3. /\ procs' \in [1..(Current + 1) -> {"live", "failed", "done"}]
        /\ \A p \in 1..Current : procs'[p] = procs[p]
        /\ procs'[Current + 1] = "live"
    <3>1. procs' = [p \in 1..(Current + 1) |-> IF p \in Started THEN procs[p] ELSE "live"]
      BY <1>2 DEF Spawn
    <3>2. Current + 1 \notin Started
      BY <1>0
    <3>3. QED
      BY <1>0, <3>1, <3>2
  <2>4. Current' = Current + 1 /\ Started' = 1..(Current + 1)
    <3>1. DOMAIN procs' = 1..(Current + 1)
      BY <2>3
    <3>2. QED
      BY <1>0, <3>1, Sized DEF Current, Started
  <2>5. Live' \subseteq {Current + 1}
    BY <1>0, <2>1, <2>3, <2>4 DEF Live
  <2>6. TunnelTypeOK'
    BY <1>0, <2>1, <2>2, <2>3, <2>4 DEF TunnelInv, TunnelTypeOK
  <2>7. \A d \in Callers : call'[d] = "select" => d = c
    BY <1>0, <2>1, <2>2 DEF TunnelInv, None
  <2>8. QED
    BY <1>0, <2>1, <2>2, <2>4, <2>5, <2>6, <2>7 DEF TunnelInv, None
\* The ways out of a Start.
<1>3. ASSUME NEW c \in Callers, GotURL(c) \/ GotError(c) PROVE TunnelInv'
  <2>1. lock = c /\ call[c] = "select" /\ manager.running /\ server # "stopped"
    BY <1>0, <1>3 DEF GotURL, GotError, TunnelInv, None
  <2>2. UNCHANGED <<procs, printed, server>> /\ lock' = None
    BY <1>3 DEF GotURL, GotError, Release
  <2>3. /\ call' \in [Callers -> {"idle", "start", "stop", "status", "select"}]
        /\ call'[c] = "idle" /\ \A d \in Callers \ {c} : call'[d] = call[d]
    BY <1>0, <1>3 DEF GotURL, GotError, Release, Go
  <2>4. manager' \in [running: BOOLEAN, url: BOOLEAN] /\ (manager'.running \/ Live = {})
    <3>1. CASE GotURL(c)
      BY <1>0, <2>1, <3>1 DEF GotURL
    <3>2. CASE GotError(c)
      BY <1>0, <3>2 DEF GotError, TunnelInv, Live
    <3>3. QED
      BY <1>3, <3>1, <3>2
  <2>5. Live' = Live /\ Current' = Current /\ Started' = Started
    BY <2>2 DEF Live, Current, Started
  <2>6. TunnelTypeOK'
    BY <2>2, <2>3, <2>4, <2>5 DEF TunnelInv, TunnelTypeOK
  <2>7. QED
    BY <1>0, <2>1, <2>2, <2>3, <2>4, <2>5, <2>6 DEF TunnelInv, None
<1>4. ASSUME NEW c \in Callers, TimedOut(c) PROVE TunnelInv'
  <2>1. lock = c /\ manager.running /\ server # "stopped"
    BY <1>0, <1>4 DEF TimedOut, TunnelInv, None
  <2>2. UNCHANGED <<lock, manager, procs, printed, server>>
    BY <1>4 DEF TimedOut
  <2>3. /\ call' \in [Callers -> {"idle", "start", "stop", "status", "select"}]
        /\ call'[c] = "stop" /\ \A d \in Callers \ {c} : call'[d] = call[d]
    BY <1>0, <1>4 DEF TimedOut, Go
  <2>4. TunnelTypeOK' /\ Live' = Live /\ Current' = Current
    BY <2>2, <2>3 DEF TunnelInv, TunnelTypeOK, Live, Current, Started
  <2>5. QED
    BY <1>0, <2>1, <2>2, <2>3, <2>4 DEF TunnelInv, None
\* A Stop by a caller that does not hold the mutex, and the end of the server.
<1>5. ASSUME Stopped
      PROVE  /\ procs' \in [1..Current -> {"live", "failed", "done"}]
             /\ Current' = Current /\ Started' = Started /\ Live' = {}
             /\ manager' \in [running: BOOLEAN, url: BOOLEAN] /\ ~ manager'.running
  <2>1. CASE manager.running
    <3>1. procs' = Killed /\ manager' = [running |-> FALSE, url |-> FALSE]
      BY <1>5, <2>1, Zenon DEF Stopped
    <3>2. manager' \in [running: BOOLEAN, url: BOOLEAN] /\ ~ manager'.running
      BY <3>1
    <3>3. QED
      BY <3>1, <3>2, KilledLive
  <2>2. CASE ~ manager.running
    BY <1>0, <1>5, <2>2 DEF Stopped, TunnelInv, Live, Started, Current
  <2>3. QED
    BY <2>1, <2>2
<1>6. ASSUME NEW c \in Callers, Stop(c) PROVE TunnelInv'
  <2>1. lock = None /\ server = "up" /\ UNCHANGED <<lock, printed, server>>
    BY <1>6 DEF Stop, Free
  <2>2. /\ call' \in [Callers -> {"idle", "start", "stop", "status", "select"}]
        /\ call'[c] = "idle" /\ \A d \in Callers \ {c} : call'[d] = call[d]
    BY <1>0, <1>6 DEF Stop, Go
  <2>3. /\ procs' \in [1..Current -> {"live", "failed", "done"}]
        /\ Current' = Current /\ Started' = Started /\ Live' = {}
        /\ manager' \in [running: BOOLEAN, url: BOOLEAN] /\ ~ manager'.running
    BY <1>5, <1>6 DEF Stop
  <2>4. TunnelTypeOK'
    BY <2>1, <2>2, <2>3 DEF TunnelInv, TunnelTypeOK
  <2>5. QED
    BY <1>0, <2>1, <2>2, <2>3, <2>4 DEF TunnelInv, None
<1>7. ASSUME Shutdown PROVE TunnelInv'
  <2>1. server = "up" /\ UNCHANGED <<lock, printed, call>>
    BY <1>7 DEF Shutdown
  <2>2. CASE \A c \in Callers : call[c] = "idle"
    <3>1. server' = "stopped" /\ Stopped
      BY <1>7, <2>2 DEF Shutdown
    <3>2. lock = None
      BY <2>2 DEF TunnelInv, TunnelTypeOK, None
    <3>3. TunnelTypeOK'
      BY <1>5, <2>1, <3>1 DEF TunnelInv, TunnelTypeOK
    <3>4. QED
      BY <1>0, <1>5, <2>1, <2>2, <3>1, <3>2, <3>3 DEF TunnelInv, None
  <2>3. CASE ~ \A c \in Callers : call[c] = "idle"
    <3>1. server' = "cut" /\ UNCHANGED <<procs, manager>>
      BY <1>7, <2>3 DEF Shutdown
    <3>2. TunnelTypeOK' /\ Live' = Live /\ Current' = Current
      BY <2>1, <3>1 DEF TunnelInv, TunnelTypeOK, Live, Current, Started
    <3>3. QED
      BY <1>0, <2>1, <3>1, <3>2 DEF TunnelInv, None
  <2>4. QED
    BY <2>2, <2>3
\* What the processes do themselves.
<1>8. ASSUME NEW p \in Started, Prints(p) PROVE TunnelInv'
  <2>1. UNCHANGED <<lock, manager, procs, call, server>> /\ printed' = printed \union {p}
    BY <1>8 DEF Prints
  <2>2. TunnelTypeOK' /\ Live' = Live /\ Current' = Current
    BY <1>8, <2>1 DEF TunnelInv, TunnelTypeOK, Live, Current, Started
  <2>3. QED
    BY <1>0, <2>1, <2>2 DEF TunnelInv, None
<1>9. ASSUME NEW p \in Started, Exits(p) PROVE TunnelInv'
  <2>1. UNCHANGED <<lock, manager, printed, call, server>>
    BY <1>9 DEF Exits
  <2>2. PICK how \in {"failed", "done"} : procs' = [procs EXCEPT ![p] = how]
    BY <1>9 DEF Exits
  <2>3. procs' \in [1..Current -> {"live", "failed", "done"}]
    BY <1>0, <2>2
  <2>4. Current' = Current /\ Started' = Started
    BY <1>0, <2>3 DEF Current, Started
  <2>5. Live' \subseteq Live
    BY <1>0, <2>2, <2>4 DEF Live
  <2>6. TunnelTypeOK'
    BY <2>1, <2>3, <2>4 DEF TunnelInv, TunnelTypeOK
  <2>7. QED
    BY <1>0, <2>1, <2>4, <2>5, <2>6 DEF TunnelInv, None
<1>10. CASE UNCHANGED tunnelVars
  BY <1>10 DEF tunnelVars, TunnelInv, TunnelTypeOK, Live, Current, Started, None
<1>11. QED
  BY <1>1, <1>2, <1>3, <1>4, <1>6, <1>7, <1>8, <1>9, <1>10 DEF TunnelNext

\* tunnel.go:37-39, 131, 158; main.go:199-201: at most one cloudflared exposes
\* the server, none unknown to the manager, none after a clean end, for any
\* number of admin requests and processes.
THEOREM NoOrphanEver == TunnelSpec => []NoOrphanTunnel
<1>1. TunnelInv => NoOrphanTunnel
  <2> SUFFICES ASSUME TunnelInv PROVE NoOrphanTunnel
    OBVIOUS
  <2>1. Live = {} \/ Live = {Current}
    BY DEF TunnelInv
  <2>2. Cardinality(Live) <= 1
    <3>1. Cardinality({}) = 0 /\ Cardinality({Current}) = 1
      BY FS_EmptySet, FS_Singleton, Zenon
    <3>2. QED
      BY <2>1, <3>1
  <2>3. QED
    BY <2>2 DEF TunnelInv, NoOrphanTunnel
<1>2. QED
  BY <1>1, TunnelInvInit, TunnelInvNext, PTL DEF TunnelSpec

-----------------------------------------------------------------------------
\* The error tracker.  Lists are in the order the errors came, none of them
\* from the future, and every change of the list has a write to come.
InOrder(list, n) ==
  /\ list \in Seq(Nat \ {0})
  /\ \A i \in 1..Len(list) : list[i] <= n
  /\ \A i, j \in 1..Len(list) : i < j => list[i] < list[j]

TrackerInv ==
  /\ tracked \in Nat /\ persists \in Nat
  /\ file = [whole |-> file.whole, list |-> file.list]
  /\ InOrder(errors, tracked) /\ InOrder(file.list, tracked)
  /\ persists = 0 /\ ~ clearing /\ ~ failed => file = [whole |-> TRUE, list |-> errors]

LEMMA EmptyInOrder ==
  ASSUME NEW n \in Nat
  PROVE  InOrder(<< >>, n)
BY EmptySeq DEF InOrder

LEMMA AppendInOrder ==
  ASSUME NEW n \in Nat, NEW list, InOrder(list, n)
  PROVE  InOrder(Append(list, n + 1), n + 1)
<1>1. list \in Seq(Nat \ {0}) /\ n + 1 \in Nat
  BY DEF InOrder
<1>2. /\ Append(list, n + 1) \in Seq(Nat \ {0})
      /\ Len(Append(list, n + 1)) = Len(list) + 1
      /\ \A i \in 1..Len(list) : Append(list, n + 1)[i] = list[i]
      /\ Append(list, n + 1)[Len(list) + 1] = n + 1
      /\ Len(list) \in Nat
  BY <1>1, AppendProperties, LenProperties
<1>3. ASSUME NEW i \in 1..(Len(list) + 1), NEW j \in 1..(Len(list) + 1), i < j
      PROVE  Append(list, n + 1)[i] < Append(list, n + 1)[j]
  <2>1. i \in 1..Len(list) /\ list[i] <= n /\ list[i] \in Nat
    BY <1>1, <1>2, <1>3 DEF InOrder
  <2>2. CASE j = Len(list) + 1
    BY <1>2, <2>1, <2>2
  <2>3. CASE j # Len(list) + 1
    <3>1. j \in 1..Len(list)
      BY <1>2, <2>3
    <3>2. QED
      BY <1>2, <1>3, <2>1, <3>1 DEF InOrder
  <2>4. QED
    BY <2>2, <2>3
<1>4. ASSUME NEW i \in 1..(Len(list) + 1)
      PROVE  Append(list, n + 1)[i] <= n + 1
  <2>1. CASE i = Len(list) + 1
    BY <1>2, <2>1
  <2>2. CASE i # Len(list) + 1
    <3>1. i \in 1..Len(list)
      BY <1>2, <2>2
    <3>2. list[i] <= n /\ list[i] \in Nat
      BY <1>1, <3>1 DEF InOrder
    <3>3. QED
      BY <1>2, <3>1, <3>2
  <2>3. QED
    BY <2>1, <2>2
<1>5. QED
  BY <1>2, <1>3, <1>4 DEF InOrder

\* The list is cut to its latest errors.
LEMMA LatestInOrder ==
  ASSUME NEW n \in Nat, NEW list, InOrder(list, n)
  PROVE  InOrder(Latest(list), n)
<1>1. list \in Seq(Nat \ {0}) /\ Len(list) \in Nat /\ MaxErrors \in Nat \ {0}
  BY LenProperties, ErrorsAssumption DEF InOrder
<1>2. CASE Len(list) > MaxErrors
  <2> DEFINE first == Len(list) - MaxErrors + 1
             cut   == SubSeq(list, first, Len(list))
  <2>1. first \in 1..(Len(list) + 1)
    BY <1>1, <1>2
  <2>2. /\ cut \in Seq(Nat \ {0}) /\ Len(cut) = MaxErrors
        /\ \A i \in 1..MaxErrors : cut[i] = list[first + i - 1]
    BY <1>1, <1>2, <2>1, SubSeqProperties
  <2>3. \A i \in 1..MaxErrors : first + i - 1 \in 1..Len(list)
    BY <1>1, <1>2
  <2>4. InOrder(cut, n)
    <3>1. \A i \in 1..MaxErrors : cut[i] <= n
      BY <2>2, <2>3 DEF InOrder
    <3>2. ASSUME NEW i \in 1..MaxErrors, NEW j \in 1..MaxErrors, i < j
          PROVE  cut[i] < cut[j]
      <4>1. first + i - 1 < first + j - 1
        BY <1>1, <3>2
      <4>2. QED
        BY <2>2, <2>3, <4>1 DEF InOrder
    <3>3. QED
      BY <2>2, <3>1, <3>2 DEF InOrder
  <2>5. QED
    BY <1>2, <2>4 DEF Latest
<1>3. CASE ~ (Len(list) > MaxErrors)
  BY <1>3 DEF Latest
<1>4. QED
  BY <1>2, <1>3

\* What is picked in order from a list in order is in order, and all of it is
\* the list.
LEMMA YoungerFacts ==
  ASSUME NEW at \in Younger, errors \in Seq(Nat \ {0})
  PROVE  /\ Len(errors) \in Nat
         /\ \E k \in 0..Len(errors) : at \in [1..k -> 1..Len(errors)]
         /\ \A i, j \in DOMAIN at : i < j => at[i] < at[j]
<1>1. Len(errors) \in Nat /\ DOMAIN errors = 1..Len(errors)
  BY LenProperties
<1>2. /\ at \in UNION {[1..k -> DOMAIN errors] : k \in 0..Len(errors)}
      /\ \A i, j \in DOMAIN at : i < j => at[i] < at[j]
  BY Zenon DEF Younger
<1>3. \E k \in 0..Len(errors) : at \in [1..k -> DOMAIN errors]
  BY <1>2, Zenon
<1>4. QED
  BY <1>1, <1>2, <1>3, Zenon

LEMMA KeptInOrder ==
  ASSUME NEW n \in Nat, InOrder(errors, n), NEW at \in Younger
  PROVE  InOrder(Kept(at), n) /\ Len(Kept(at)) \in 0..Len(errors)
<1>1. errors \in Seq(Nat \ {0})
  BY DEF InOrder
<1>2. PICK k \in 0..Len(errors) : at \in [1..k -> 1..Len(errors)]
  BY <1>1, YoungerFacts
<1>3. k \in Nat /\ Len(errors) \in Nat
  BY <1>1, LenProperties
<1>4. \A i \in 1..Len(errors) : errors[i] \in Nat \ {0}
  BY <1>1
<1>5. Kept(at) = [i \in 1..k |-> errors[at[i]]]
  BY <1>2 DEF Kept
<1>6. Kept(at) \in Seq(Nat \ {0}) /\ Len(Kept(at)) = k
  <2>1. \A i \in 1..k : errors[at[i]] \in Nat \ {0}
    BY <1>2, <1>4
  <2>2. QED
    BY <1>3, <1>5, <2>1
<1>7. \A i \in 1..k : Kept(at)[i] <= n
  BY <1>2, <1>5, <1>1, <1>3 DEF InOrder
<1>8. ASSUME NEW i \in 1..k, NEW j \in 1..k, i < j PROVE Kept(at)[i] < Kept(at)[j]
  <2>1. at[i] < at[j] /\ at[i] \in 1..Len(errors) /\ at[j] \in 1..Len(errors)
    BY <1>1, <1>2, <1>8, YoungerFacts
  <2>2. QED
    BY <1>5, <2>1 DEF InOrder
<1>9. QED
  BY <1>6, <1>7, <1>8 DEF InOrder

LEMMA AllKept ==
  ASSUME errors \in Seq(Nat \ {0}), NEW at \in Younger, ~ (Len(Kept(at)) < Len(errors))
  PROVE  Kept(at) = errors
<1> DEFINE n == Len(errors)
<1>1. PICK k \in 0..n : at \in [1..k -> 1..n]
  BY YoungerFacts
<1>2. n \in Nat /\ k \in Nat
  BY LenProperties
<1>3. Kept(at) = [i \in 1..k |-> errors[at[i]]]
  BY <1>1 DEF Kept
<1>4. Len(Kept(at)) = k
  <2>1. \A i \in 1..k : errors[at[i]] \in Nat \ {0}
    BY <1>1, <1>2
  <2>2. QED
    BY <1>2, <1>3, <2>1
<1>5. k = n /\ at \in [1..n -> 1..n]
  BY <1>1, <1>2, <1>4
<1>6. \A i, j \in 1..n : i < j => at[i] < at[j]
  BY <1>5, YoungerFacts
<1> HIDE DEF n
<1>7. \A i \in 1..n : at[i] >= i
  <2> DEFINE Low == {i \in 1..n : at[i] < i}
  <2>0. ASSUME NEW i \in 1..n, ~ (at[i] >= i) PROVE i \in Low
    BY <1>2, <1>5, <2>0
  <2>1. SUFFICES ASSUME Low # {} PROVE FALSE
    BY <2>0
  <2>2. Low \subseteq Nat
    BY <1>2
  <2>3. PICK i \in Low : \A j \in Low : ~ (<<j, i>> \in OpToRel(<, Nat))
    BY <2>1, <2>2, WFMin, NatLessThanWellFounded, Zenon
  <2>4. \A j \in Low : ~ (j < i)
    BY <2>2, <2>3 DEF OpToRel
  <2>5. i \in 1..n /\ at[i] < i /\ at[i] \in 1..n
    BY <1>2, <1>5
  <2>6. i - 1 \in 1..n /\ i - 1 < i
    BY <1>2, <2>5
  <2>7. at[i - 1] < at[i] /\ at[i - 1] \in 1..n
    BY <1>5, <1>6, <2>5, <2>6
  <2>8. i - 1 \in Low
    BY <1>2, <2>5, <2>6, <2>7
  <2>9. QED
    BY <2>4, <2>6, <2>8
<1>8. \A i \in 1..n : at[i] <= i
  <2> DEFINE High == {d \in 0..(n - 1) : at[n - d] > n - d}
  <2>1. SUFFICES High = {}
    <3>1. ASSUME NEW i \in 1..n, ~ (at[i] <= i) PROVE n - i \in High
      <4>1. n - i \in 0..(n - 1) /\ n - (n - i) = i /\ at[i] > i
        BY <1>2, <1>5, <3>1
      <4>2. QED
        BY <4>1
    <3>2. QED
      BY <3>1
  <2>2. SUFFICES ASSUME High # {} PROVE FALSE
    OBVIOUS
  <2>3. High \subseteq Nat
    BY <1>2
  <2>4. PICK d \in High : \A e \in High : ~ (<<e, d>> \in OpToRel(<, Nat))
    BY <2>2, <2>3, WFMin, NatLessThanWellFounded, Zenon
  <2>5. \A e \in High : ~ (e < d)
    BY <2>3, <2>4 DEF OpToRel
  <2>6. d \in 0..(n - 1) /\ at[n - d] > n - d /\ n - d \in 1..n /\ at[n - d] \in 1..n
    BY <1>2, <1>5
  <2>7. d # 0
    BY <1>2, <2>6
  <2>8. d - 1 \in 0..(n - 1) /\ n - (d - 1) \in 1..n /\ n - d < n - (d - 1)
    BY <1>2, <2>6, <2>7
  <2>9. at[n - d] < at[n - (d - 1)] /\ at[n - (d - 1)] \in 1..n
    BY <1>5, <1>6, <2>6, <2>8
  <2>10. d - 1 \in High
    BY <1>2, <2>6, <2>8, <2>9
  <2>11. ~ (d - 1 < d)
    BY <2>5, <2>10
  <2>12. QED
    BY <1>2, <2>6, <2>11
<1>9. \A i \in 1..n : at[i] = i
  BY <1>2, <1>5, <1>7, <1>8
<1>10. Kept(at) = [i \in 1..n |-> errors[i]]
  BY <1>3, <1>5, <1>9
<1>11. QED
  BY <1>10 DEF n

LEMMA TrackerInvInit == TrackerInit => TrackerInv
BY EmptyInOrder DEF TrackerInit, TrackerInv

LEMMA TrackerInvNext == TrackerInv /\ [TrackerNext]_trackerVars => TrackerInv'
<1> SUFFICES ASSUME TrackerInv, [TrackerNext]_trackerVars PROVE TrackerInv'
  OBVIOUS
<1>0. /\ tracked \in Nat /\ persists \in Nat
      /\ file = [whole |-> file.whole, list |-> file.list]
      /\ InOrder(errors, tracked) /\ InOrder(file.list, tracked)
  BY DEF TrackerInv
<1>1. CASE Track
  <2>1. /\ tracked' = tracked + 1 /\ persists' = persists + 1 /\ file' = file
        /\ errors' = Latest(Append(errors, tracked + 1))
    BY <1>1 DEF Track
  <2>2. InOrder(errors, tracked)' 
    BY <1>0, <2>1, AppendInOrder, LatestInOrder
  <2>3. InOrder(file.list, tracked)'
    BY <1>0, <2>1 DEF InOrder
  <2>4. persists' \in Nat /\ persists' # 0 /\ tracked' \in Nat
    BY <1>0, <2>1
  <2>5. QED
    BY <1>0, <2>1, <2>2, <2>3, <2>4 DEF TrackerInv
<1>2. ASSUME NEW at \in Younger, CleanupOldErrors(at) PROVE TrackerInv'
  <2>1. /\ ~ clearing /\ errors' = Kept(at)
        /\ persists' = IF Len(Kept(at)) < Len(errors) THEN persists + 1 ELSE persists
        /\ UNCHANGED <<file, clearing, tracked, failed>>
    BY <1>2 DEF CleanupOldErrors
  <2>2. InOrder(errors, tracked)' /\ InOrder(file.list, tracked)'
    BY <1>0, <2>1, KeptInOrder DEF InOrder
  <2>3. CASE Len(Kept(at)) < Len(errors)
    <3>1. persists' \in Nat /\ persists' # 0
      BY <1>0, <2>1, <2>3
    <3>2. QED
      BY <1>0, <2>1, <2>2, <3>1 DEF TrackerInv
  <2>4. CASE ~ (Len(Kept(at)) < Len(errors))
    <3>1. errors' = errors
      BY <1>0, <2>1, <2>4, AllKept DEF InOrder
    <3>2. persists' = persists
      BY <2>1, <2>4
    <3>3. QED
      BY <1>0, <2>1, <2>2, <3>1, <3>2 DEF TrackerInv
  <2>5. QED
    BY <2>3, <2>4
<1>3. CASE Persist
  <2>1. /\ persists > 0 /\ persists' = persists - 1
        /\ file' = [whole |-> TRUE, list |-> errors] /\ UNCHANGED <<errors, tracked>>
    BY <1>3 DEF Persist
  <2>2. persists' \in Nat
    BY <1>0, <2>1
  <2>3. QED
    BY <1>0, <2>1, <2>2 DEF TrackerInv
<1>4. CASE PersistFails
  <2>1. /\ persists > 0 /\ persists' = persists - 1 /\ failed' = TRUE
        /\ file' \in {file, [whole |-> FALSE, list |-> <<>>]} /\ UNCHANGED <<errors, tracked>>
    BY <1>4 DEF PersistFails
  <2>2. persists' \in Nat
    BY <1>0, <2>1
  <2>3. InOrder(file.list, tracked)' /\ file' = [whole |-> file'.whole, list |-> file'.list]
    BY <1>0, <2>1, EmptyInOrder
  <2>4. QED
    BY <1>0, <2>1, <2>2, <2>3 DEF TrackerInv
<1>5. CASE Clear
  BY <1>0, <1>5, EmptyInOrder DEF Clear, TrackerInv
<1>6. CASE TrackerRestart
  <2>1. /\ persists' = 0 /\ errors' = IF file.whole THEN file.list ELSE <<>>
        /\ failed' = ~ file.whole /\ UNCHANGED <<file, tracked>>
    BY <1>6 DEF TrackerRestart
  <2>2. CASE file.whole
    <3>1. errors' = file.list /\ InOrder(errors, tracked)' /\ InOrder(file.list, tracked)'
      BY <1>0, <2>1, <2>2
    <3>2. ~ failed' => file' = [whole |-> TRUE, list |-> errors']
      BY <1>0, <2>1, <2>2, <3>1
    <3>3. QED
      BY <1>0, <2>1, <3>1, <3>2 DEF TrackerInv
  <2>3. CASE ~ file.whole
    BY <1>0, <2>1, <2>3, EmptyInOrder DEF TrackerInv
  <2>4. QED
    BY <2>2, <2>3
<1>7. CASE TrackerCrash
  BY <1>0, <1>7, EmptyInOrder DEF TrackerCrash, TrackerInv
<1>8. CASE UNCHANGED trackerVars
  BY <1>8 DEF trackerVars, TrackerInv, InOrder
<1>9. QED
  BY <1>1, <1>2, <1>3, <1>4, <1>5, <1>6, <1>7, <1>8 DEF TrackerNext

\* error_tracker.go:86, 184-197, 214-218: when no write is to come, none has
\* failed and Clear does not hold the mutex, the file is the list in memory, for
\* any bound on the list; both are in the order the errors were tracked.
THEOREM FileCatchesUp == TrackerSpec => []TrackerFileCatchesUp
<1>1. TrackerInv => TrackerFileCatchesUp
  <2> SUFFICES ASSUME TrackerInv PROVE TrackerFileCatchesUp
    OBVIOUS
  <2>1. ASSUME NEW list \in {errors, file.list}, NEW i \in DOMAIN list, NEW j \in DOMAIN list, i < j
        PROVE  list[i] < list[j]
    <3>1. InOrder(list, tracked)
      BY DEF TrackerInv
    <3>2. DOMAIN list = 1..Len(list)
      BY <3>1, LenProperties DEF InOrder
    <3>3. QED
      BY <2>1, <3>1, <3>2 DEF InOrder
  <2>2. QED
    BY <2>1 DEF TrackerInv, TrackerFileCatchesUp
<1>2. QED
  BY <1>1, TrackerInvInit, TrackerInvNext, PTL DEF TrackerSpec

-----------------------------------------------------------------------------
\* The settings of the command line tools.  What a call is to write is the
\* user's, by the history, and does what the call is for; a call that nobody has
\* disturbed finds the file it truncated empty, and its first file as it left it.
Selects(t, content) ==
  /\ content.form = "map"
  /\ IF t = "claude" THEN content.base # "unset" ELSE content.provider = "openai"

FileFits(content, kept) ==
  /\ content.form = "map" => content.own \in kept
  /\ content.form = "absent" => {} \in kept

TextFits(e, t, lt) ==
  /\ e.text.form = "map"
  /\ e.file # "deepseek" => e.text.own \in lt[e.file]
  /\ e.file = t \/ (t = "cline" /\ e.file = "clineSecrets")
  /\ e.op = "apply" /\ e.file = t => Selects(t, e.text)
  /\ e.op = "reset" /\ e.file = t /\ t # "cline" => ~ PointsHere(t, e.text)

AloneFits(e, t, fs) ==
  /\ e.pc = "fill" => fs[e.file].form = "empty"
  /\ e.op = "apply" /\ (e.pc = "second" \/ (e.pc \in {"open", "fill"} /\ e.file = "clineSecrets"))
       => Selects(t, fs[t])

TaskFits(e, t, fs, lt) ==
  /\ e.pc # "idle" => e.op \in {"apply", "reset"}
  /\ e.pc = "second" => e.file = "cline" /\ t = "cline"
  /\ e.pc \in {"open", "fill"} => TextFits(e, t, lt)
  /\ e.alone => AloneFits(e, t, fs)

AnswerFits(a, t, fs) ==
  /\ a = [op |-> "apply", ok |-> TRUE, alone |-> TRUE] => Selects(t, fs[t])
  /\ a = [op |-> "reset", ok |-> TRUE, alone |-> TRUE] /\ t # "cline" => ~ PointsHere(t, fs[t])

CliInv ==
  /\ CliTypeOK
  /\ \A f \in File \ {"deepseek"} : FileFits(files[f], left[f])
  /\ \A c \in Calls : TaskFits(task[c], tool, files, left)
  /\ AnswerFits(answer, tool, files)

AnswerType == [op: {"none", "apply", "reset"}, ok: BOOLEAN, alone: BOOLEAN]

LEMMA CliConstants ==
  /\ Blank = [form |-> "map", provider |-> "unset", base |-> "unset", own |-> {}]
  /\ {Blank, Absent, Emptied, Bad} \subseteq Content
  /\ Absent.form = "absent" /\ Emptied.form = "empty" /\ Bad.form = "bad"
  /\ NoCall \in Call /\ NoCall.pc = "idle" /\ Silence \in AnswerType /\ Silence.op = "none"
  /\ Tool \subseteq File
<1>1. /\ Blank = [form |-> "map", provider |-> "unset", base |-> "unset", own |-> {}]
      /\ Blank \in Content
  BY DEF Blank, Content, Form, Provider, Base
<1>2. /\ Absent \in Content /\ Emptied \in Content /\ Bad \in Content
      /\ Absent.form = "absent" /\ Emptied.form = "empty" /\ Bad.form = "bad"
  BY <1>1 DEF Absent, Emptied, Bad, Content, Form
<1>3. NoCall \in Call /\ NoCall.pc = "idle"
  BY <1>1 DEF NoCall, Call, File
<1>4. QED
  BY <1>1, <1>2, <1>3 DEF Silence, AnswerType, Tool

LEMMA CliInvInit == CliInit => CliInv
<1> SUFFICES ASSUME CliInit PROVE CliInv
  OBVIOUS
<1>1. CliTypeOK
  BY CliConstants DEF CliInit, CliTypeOK, AnswerType
<1>2. \A f \in File : FileFits(files[f], left[f])
  BY CliConstants DEF CliInit, FileFits
<1>3. \A c \in Calls : TaskFits(task[c], tool, files, left)
  BY CliConstants DEF CliInit, TaskFits, AloneFits
<1>4. AnswerFits(answer, tool, files)
  BY CliConstants DEF CliInit, AnswerFits
<1>5. QED
  BY <1>1, <1>2, <1>3, <1>4 DEF CliInv

\* What the invariant comes to after a step, from the parts of it.
LEMMA CliInvFrom ==
  ASSUME tool' = tool, tool \in Tool, files' \in [File -> Content], left' \in [File -> SUBSET SUBSET Own],
         task' \in [Calls -> Call], answer' \in AnswerType,
         \A f \in File \ {"deepseek"} : FileFits(files'[f], left'[f]),
         \A c \in Calls : TaskFits(task'[c], tool, files', left'),
         AnswerFits(answer', tool, files')
  PROVE  CliInv'
<1>1. CliTypeOK'
  BY DEF CliTypeOK, AnswerType
<1>2. (\A f \in File \ {"deepseek"} : FileFits(files[f], left[f]))'
  OBVIOUS
<1>3. (\A c \in Calls : TaskFits(task[c], tool, files, left))'
  OBVIOUS
<1>4. AnswerFits(answer, tool, files)'
  OBVIOUS
<1>5. QED
  BY <1>1, <1>2, <1>3, <1>4 DEF CliInv

\* A step of one call that writes nothing.
LEMMA CallMoves ==
  ASSUME CliInv, NEW c \in Calls, NEW e \in Call, task' = [task EXCEPT ![c] = e],
         UNCHANGED <<tool, files>>, left' \in [File -> SUBSET SUBSET Own],
         \A f \in File : left[f] \subseteq left'[f],
         TaskFits(e, tool, files, left'), answer' \in AnswerType, AnswerFits(answer', tool, files)
  PROVE  CliInv'
<1>1. /\ tool \in Tool /\ files \in [File -> Content] /\ task \in [Calls -> Call]
      /\ left \in [File -> SUBSET SUBSET Own]
  BY DEF CliInv, CliTypeOK
<1>2. task' \in [Calls -> Call]
  BY <1>1
<1>3. \A f \in File \ {"deepseek"} : FileFits(files'[f], left'[f])
  BY DEF CliInv, FileFits
<1>4. ASSUME NEW d \in Calls PROVE TaskFits(task'[d], tool, files', left')
  <2>1. CASE d = c
    BY <1>1, <1>4, <2>1
  <2>2. CASE d # c
    <3>1. task'[d] = task[d] /\ task[d] \in Call /\ TaskFits(task[d], tool, files, left)
      BY <1>1, <2>2 DEF CliInv
    <3>2. task[d].file \in File
      BY <3>1 DEF Call
    <3>3. QED
      BY <3>1, <3>2 DEF TaskFits, TextFits
  <2>3. QED
    BY <2>1, <2>2
<1>5. AnswerFits(answer', tool, files')
  OBVIOUS
<1>6. tool' = tool /\ files' \in [File -> Content]
  BY <1>1
<1>7. QED
  BY <1>1, <1>2, <1>3, <1>4, <1>5, <1>6, CliInvFrom

\* The calls whose file somebody else has written, or may have.
LEMMA DisturbedFits ==
  ASSUME CliInv, NEW mine, NEW d \in Calls, d \notin mine, NEW fs, NEW lt,
         task[d].pc \in {"open", "fill"} /\ task[d].file # "deepseek" =>
           task[d].text.own \in lt[task[d].file]
  PROVE  Disturbed(mine)[d] \in Call /\ TaskFits(Disturbed(mine)[d], tool, fs, lt)
<1> DEFINE e == task[d]
<1>1. e \in Call /\ TaskFits(e, tool, files, left)
  BY DEF CliInv, CliTypeOK
<1>2. CASE e.pc = "idle"
  BY <1>1, <1>2 DEF Disturbed, TaskFits, AloneFits
<1>3. CASE e.pc # "idle"
  <2>1. Disturbed(mine)[d] = [e EXCEPT !.alone = FALSE]
    BY <1>3 DEF Disturbed
  <2> HIDE DEF e
  <2>2. PICK x : x = [e EXCEPT !.alone = FALSE]
    OBVIOUS
  <2>3. /\ x \in Call /\ ~ x.alone /\ x.op = e.op /\ x.pc = e.pc /\ x.file = e.file /\ x.text = e.text
    BY <1>1, <2>2 DEF Call
  <2>4. TaskFits(x, tool, fs, lt)
    BY <1>1, <2>3 DEF TaskFits, TextFits, e
  <2>5. QED
    BY <2>1, <2>2, <2>3, <2>4
<1>4. QED
  BY <1>2, <1>3

\* A step of one call that writes a file.
LEMMA CallWrites ==
  ASSUME CliInv, NEW c \in Calls, NEW e \in Call, NEW f \in File, NEW content \in Content,
         files' = [files EXCEPT ![f] = content], f # "deepseek" => FileFits(content, left[f]),
         task' = [Disturbed({c}) EXCEPT ![c] = e], UNCHANGED <<tool, left>>,
         TaskFits(e, tool, files', left), answer' \in AnswerType, AnswerFits(answer', tool, files')
  PROVE  CliInv'
<1>1. /\ tool \in Tool /\ files \in [File -> Content] /\ task \in [Calls -> Call]
      /\ left \in [File -> SUBSET SUBSET Own]
  BY DEF CliInv, CliTypeOK
<1>2. DOMAIN Disturbed({c}) = Calls
  BY DEF Disturbed
<1>3. files' \in [File -> Content] /\ \A g \in File \ {"deepseek"} : FileFits(files'[g], left'[g])
  BY <1>1 DEF CliInv
<1>4. ASSUME NEW d \in Calls PROVE task'[d] \in Call /\ TaskFits(task'[d], tool, files', left')
  <2>1. CASE d = c
    BY <1>2, <1>4, <2>1
  <2>2. CASE d # c
    <3>1. task[d].pc \in {"open", "fill"} /\ task[d].file # "deepseek" =>
            task[d].text.own \in left'[task[d].file]
      BY DEF CliInv, TaskFits, TextFits
    <3>2. Disturbed({c})[d] \in Call /\ TaskFits(Disturbed({c})[d], tool, files', left')
      BY <2>2, <3>1, DisturbedFits
    <3>3. QED
      BY <1>2, <2>2, <3>2
  <2>3. QED
    BY <2>1, <2>2
<1>5. task' \in [Calls -> Call]
  <2>1. DOMAIN task' = Calls /\ task' = [d \in Calls |-> task'[d]]
    BY <1>2
  <2>2. QED
    BY <1>4, <2>1
<1>6. QED
  BY <1>1, <1>3, <1>4, <1>5, CliInvFrom

\* A step of the user.
LEMMA UserWrites ==
  ASSUME CliInv, NEW f \in File, NEW content \in Content,
         files' = [files EXCEPT ![f] = content], task' = Disturbed({}), answer' = Silence,
         tool' = tool, left' \in [File -> SUBSET SUBSET Own],
         \A g \in File \ {f} : left'[g] = left[g], FileFits(content, left'[f]),
         \A d \in Calls : task[d].pc \in {"open", "fill"} /\ task[d].file = f /\ f # "deepseek"
                            => task[d].text.own \in left'[f]
  PROVE  CliInv'
<1>1. /\ tool \in Tool /\ files \in [File -> Content] /\ task \in [Calls -> Call]
  BY DEF CliInv, CliTypeOK
<1>2. files' \in [File -> Content] /\ \A g \in File \ {"deepseek"} : FileFits(files'[g], left'[g])
  BY <1>1 DEF CliInv
<1>3. ASSUME NEW d \in Calls PROVE task'[d] \in Call /\ TaskFits(task'[d], tool, files', left')
  <2>1. task[d].file \in File
    BY <1>1 DEF Call
  <2>2. task[d].pc \in {"open", "fill"} /\ task[d].file # "deepseek" =>
          task[d].text.own \in left'[task[d].file]
    BY <2>1 DEF CliInv, TaskFits, TextFits
  <2>3. Disturbed({})[d] \in Call /\ TaskFits(Disturbed({})[d], tool, files', left')
    BY <2>2, DisturbedFits
  <2>4. QED
    BY <2>3
<1>4. task' \in [Calls -> Call]
  <2>1. task' = [d \in Calls |-> task'[d]]
    BY DEF Disturbed
  <2>2. QED
    BY <1>3, <2>1
<1>5. answer' \in AnswerType /\ AnswerFits(answer', tool, files')
  BY CliConstants DEF AnswerFits
<1>6. QED
  BY <1>1, <1>2, <1>3, <1>4, <1>5, CliInvFrom

\* The text Apply writes: parsed, the user's settings kept, this server chosen.
LEMMA AppliedFacts ==
  ASSUME NEW t \in Tool, NEW content \in Content, NEW base \in {"local", "remote"}
  PROVE  /\ Parsed(content) \in Content /\ Parsed(content).form = "map"
         /\ Applied(t, content, base) \in Content
         /\ t # "deepseek" => Applied(t, content, base).own = Parsed(content).own
         /\ Selects(t, Applied(t, content, base))
<1>1. Parsed(content) \in Content /\ Parsed(content).form = "map"
  BY CliConstants DEF Parsed
<1>2. t \in {"claude", "cline", "deepseek", "qwen"}
  BY DEF Tool, File
<1>3. base \in Base /\ base # "unset" /\ "openai" \in Provider
  BY DEF Base, Provider
<1>4. CASE t = "claude"
  BY <1>1, <1>3, <1>4 DEF Applied, ApplyClaude, Content, Selects
<1>5. CASE t = "cline"
  BY <1>1, <1>3, <1>5 DEF Applied, ApplyCline, Content, Selects
<1>6. CASE t = "deepseek"
  BY <1>1, <1>3, <1>6, CliConstants DEF Applied, ApplyDeepSeek, Content, Selects
<1>7. CASE t = "qwen"
  BY <1>1, <1>3, <1>7 DEF Applied, ApplyQwen, Content, Selects
<1>8. QED
  BY <1>1, <1>2, <1>4, <1>5, <1>6, <1>7

LEMMA SecretsFacts ==
  ASSUME NEW content \in Content
  PROVE  /\ ApplySecrets(content) \in Content /\ ApplySecrets(content).form = "map"
         /\ ApplySecrets(content).own = Parsed(content).own
         /\ content.form = "map" => /\ ResetSecrets(content) \in Content
                                    /\ ResetSecrets(content).form = "map"
                                    /\ ResetSecrets(content).own = content.own
<1>1. Parsed(content) \in Content /\ Parsed(content).form = "map"
  BY CliConstants DEF Parsed
<1>2. QED
  BY <1>1 DEF ApplySecrets, ResetSecrets, Content, Base

\* The text Reset writes: the user's settings kept, this server not chosen.
LEMMA UndoneFacts ==
  ASSUME NEW t \in Tool, NEW content \in Content, content.form = "map" \/ t = "deepseek"
  PROVE  /\ Undone(t, content) \in Content /\ Undone(t, content).form = "map"
         /\ t # "deepseek" => Undone(t, content).own = content.own
         /\ ~ PointsHere(t, Undone(t, content))
<1>1. t \in {"claude", "cline", "deepseek", "qwen"}
  BY DEF Tool, File
<1>2. CASE t = "claude"
  BY <1>2 DEF Undone, ResetClaude, Content, Base, PointsHere
<1>3. CASE t = "cline"
  BY <1>3 DEF Undone, ResetCline, Content, Base, Provider, PointsHere
<1>4. CASE t = "deepseek"
  BY <1>4, CliConstants DEF Undone, ResetDeepSeek, Content, Provider, PointsHere
<1>5. CASE t = "qwen"
  <2>1. CASE content.provider = "unset" /\ content.base = "unset"
    BY <1>5, <2>1 DEF Undone, ResetQwen, PointsHere
  <2>2. CASE ~ (content.provider = "unset" /\ content.base = "unset")
    BY <1>5, <2>2 DEF Undone, ResetQwen, Content, Base, Provider, PointsHere
  <2>3. QED
    BY <2>1, <2>2
<1>6. QED
  BY <1>1, <1>2, <1>3, <1>4, <1>5

\* What Apply makes of a file is the user's, by the history it leaves.
LEMMA ForgottenFacts ==
  ASSUME CliInv, NEW f \in File, Forgotten(f)
  PROVE  /\ left' \in [File -> SUBSET SUBSET Own]
         /\ \A g \in File : left[g] \subseteq left'[g]
         /\ f # "deepseek" => Parsed(files[f]).own \in left'[f]
<1>1. left \in [File -> SUBSET SUBSET Own] /\ files[f].form \in Form
  BY DEF CliInv, CliTypeOK, Content
<1>2. f # "deepseek" => FileFits(files[f], left[f])
  BY DEF CliInv
<1>3. CASE files[f].form \in {"empty", "bad"}
  <2>1. left' = [left EXCEPT ![f] = left[f] \union {{}}] /\ Parsed(files[f]).own = {}
    BY <1>3, CliConstants DEF Forgotten, Parsed
  <2>2. QED
    BY <1>1, <2>1
<1>4. CASE files[f].form \notin {"empty", "bad"}
  <2>1. left' = left /\ files[f].form \in {"absent", "map"}
    BY <1>1, <1>4 DEF Forgotten, Form
  <2>2. QED
    BY <1>1, <1>2, <2>1, CliConstants DEF FileFits, Parsed
<1>5. QED
  BY <1>3, <1>4

\* A call that has made the text of its tool's file.
LEMMA StartsFits ==
  ASSUME CliInv, NEW c \in Calls, NEW op \in {"apply", "reset"}, NEW text \in Content,
         Starts(c, op, text), UNCHANGED <<tool, files>>, left' \in [File -> SUBSET SUBSET Own],
         \A f \in File : left[f] \subseteq left'[f],
         text.form = "map", tool # "deepseek" => text.own \in left'[tool],
         op = "apply" => Selects(tool, text),
         op = "reset" /\ tool # "cline" => ~ PointsHere(tool, text)
  PROVE  CliInv'
<1> DEFINE e == [op |-> op, pc |-> "open", file |-> tool, text |-> text, alone |-> TRUE]
<1>1. tool \in Tool /\ tool \in File /\ tool # "clineSecrets"
  BY CliConstants DEF CliInv, CliTypeOK, Tool
<1>2. e \in Call
  BY <1>1 DEF Call
<1>3. TaskFits(e, tool, files, left')
  BY <1>1 DEF TaskFits, TextFits, AloneFits
<1>4. task' = [task EXCEPT ![c] = e] /\ answer' = Silence
  BY DEF Starts
<1> HIDE DEF e
<1>5. answer' \in AnswerType /\ AnswerFits(answer', tool, files)
  BY <1>4, CliConstants DEF AnswerFits
<1>6. QED
  BY <1>2, <1>3, <1>4, <1>5, CallMoves

\* A call that is over, or refused, has an answer that fits and no text.
LEMMA NoCallFits ==
  ASSUME NEW t, NEW fs, NEW lt
  PROVE  TaskFits(NoCall, t, fs, lt)
BY CliConstants DEF TaskFits, AloneFits

LEMMA ApplyKeeps ==
  ASSUME CliInv, NEW c \in Calls, Apply(c)
  PROVE  CliInv'
<1>1. tool \in Tool /\ tool \in File /\ files[tool] \in Content
  BY CliConstants DEF CliInv, CliTypeOK
<1>2. PICK base \in {"local", "remote"} : Starts(c, "apply", Applied(tool, files[tool], base))
  BY DEF Apply
<1>3. Forgotten(tool) /\ UNCHANGED <<tool, files>>
  BY DEF Apply
<1>4. PICK text : text = Applied(tool, files[tool], base)
  OBVIOUS
<1>5. /\ text \in Content /\ text.form = "map" /\ Selects(tool, text)
      /\ tool # "deepseek" => text.own = Parsed(files[tool]).own
  BY <1>1, <1>4, AppliedFacts DEF Selects
<1>6. /\ left' \in [File -> SUBSET SUBSET Own]
      /\ \A f \in File : left[f] \subseteq left'[f]
      /\ tool # "deepseek" => Parsed(files[tool]).own \in left'[tool]
  BY <1>1, <1>3, ForgottenFacts
<1>7. QED
  BY <1>2, <1>3, <1>4, <1>5, <1>6, StartsFits

LEMMA ResetKeeps ==
  ASSUME CliInv, NEW c \in Calls, Reset(c)
  PROVE  CliInv'
<1>1. /\ tool \in Tool /\ tool \in File /\ files[tool] \in Content /\ task \in [Calls -> Call]
      /\ left \in [File -> SUBSET SUBSET Own]
      /\ tool # "deepseek" => FileFits(files[tool], left[tool])
  BY CliConstants DEF CliInv, CliTypeOK
<1>2. UNCHANGED <<tool, files, left>> /\ tool # "cline"
  BY DEF Reset
<1>3. CASE /\ files[tool].form = "map" \/ tool = "deepseek"
           /\ Starts(c, "reset", Undone(tool, files[tool]))
  <2>1. PICK text : text = Undone(tool, files[tool])
    OBVIOUS
  <2>2. /\ text \in Content /\ text.form = "map" /\ ~ PointsHere(tool, text)
        /\ tool # "deepseek" => text.own = files[tool].own /\ files[tool].form = "map"
    BY <1>1, <1>3, <2>1, UndoneFacts
  <2>3. tool # "deepseek" => text.own \in left'[tool]
    BY <1>1, <1>2, <2>2 DEF FileFits
  <2>4. QED
    BY <1>1, <1>2, <1>3, <2>1, <2>2, <2>3, StartsFits
<1>4. CASE /\ files[tool].form # "map" /\ tool # "deepseek"
           /\ answer' = [Silence EXCEPT !.op = "reset", !.ok = files[tool].form = "absent"]
           /\ UNCHANGED task
  <2>1. answer' \in AnswerType /\ answer'.op = "reset"
    BY <1>4 DEF Silence, AnswerType
  <2>2. AnswerFits(answer', tool, files)
    BY <1>4, <2>1 DEF AnswerFits, PointsHere
  <2>3. task' = [task EXCEPT ![c] = task[c]] /\ task[c] \in Call /\ TaskFits(task[c], tool, files, left')
    BY <1>1, <1>2, <1>4 DEF CliInv
  <2>4. QED
    BY <1>1, <1>2, <2>1, <2>2, <2>3, CallMoves
<1>5. QED
  BY <1>3, <1>4, Zenon DEF Reset

LEMMA ResetStateKeeps ==
  ASSUME CliInv, NEW c \in Calls, ResetClineState(c)
  PROVE  CliInv'
<1>1. /\ tool = "cline" /\ files["cline"] \in Content /\ task \in [Calls -> Call]
      /\ left \in [File -> SUBSET SUBSET Own] /\ FileFits(files["cline"], left["cline"])
  BY DEF CliInv, CliTypeOK, ResetClineState, File
<1>2. UNCHANGED <<tool, files, left>>
  BY DEF ResetClineState
<1>3. CASE /\ files["cline"].form = "map"
           /\ Starts(c, "reset", ResetCline(files["cline"]))
  <2>1. PICK text : text = ResetCline(files["cline"])
    OBVIOUS
  <2>2. text \in Content /\ text.form = "map" /\ text.own = files["cline"].own
    BY <1>1, <1>3, <2>1 DEF ResetCline, Content, Provider, Base
  <2>3. text.own \in left'["cline"]
    BY <1>1, <1>2, <1>3, <2>2 DEF FileFits
  <2>4. QED
    BY <1>1, <1>2, <1>3, <2>1, <2>2, <2>3, StartsFits
<1>4. CASE /\ task' = [task EXCEPT ![c] = [NoCall EXCEPT !.op = "reset", !.pc = "second", !.file = "cline"]]
           /\ answer' = Silence
  <2>1. PICK e : e = [NoCall EXCEPT !.op = "reset", !.pc = "second", !.file = "cline"]
    OBVIOUS
  <2>2. e \in Call /\ e.op = "reset" /\ e.pc = "second" /\ e.file = "cline"
    BY <2>1, CliConstants DEF Call, File
  <2>3. TaskFits(e, tool, files, left')
    BY <1>1, <2>2 DEF TaskFits, AloneFits
  <2>4. answer' \in AnswerType /\ AnswerFits(answer', tool, files)
    BY <1>4, CliConstants DEF AnswerFits
  <2>5. QED
    BY <1>1, <1>2, <1>4, <2>1, <2>2, <2>3, <2>4, CallMoves
<1>5. QED
  BY <1>3, <1>4 DEF ResetClineState

\* A call that ends without writing: Cline's, at its second file.
LEMMA EndsKeeps ==
  ASSUME CliInv, NEW c \in Calls, NEW ok \in BOOLEAN, task[c].pc = "second", Ends(c, ok),
         UNCHANGED <<tool, files, left>>
  PROVE  CliInv'
<1>1. /\ task[c] \in Call /\ TaskFits(task[c], tool, files, left)
      /\ left \in [File -> SUBSET SUBSET Own]
  BY DEF CliInv, CliTypeOK
<1>2. tool = "cline" /\ task[c].op \in {"apply", "reset"} /\ task[c].alone \in BOOLEAN
  BY <1>1 DEF TaskFits, Call
<1>3. answer' = [op |-> task[c].op, ok |-> ok, alone |-> task[c].alone]
      /\ task' = [task EXCEPT ![c] = NoCall]
  BY DEF Ends
<1>4. answer' \in AnswerType
  BY <1>2, <1>3 DEF AnswerType
<1>5. AnswerFits(answer', tool, files)
  BY <1>1, <1>2, <1>3 DEF AnswerFits, TaskFits, AloneFits
<1>6. QED
  BY <1>1, <1>3, <1>4, <1>5, NoCallFits, CliConstants, CallMoves

LEMMA SecondFileKeeps ==
  ASSUME CliInv, NEW c \in Calls, SecondFile(c)
  PROVE  CliInv'
<1> DEFINE now == files["clineSecrets"]
<1>1. /\ now \in Content /\ task \in [Calls -> Call] /\ left \in [File -> SUBSET SUBSET Own]
      /\ FileFits(now, left["clineSecrets"]) /\ "clineSecrets" \in File /\ "clineSecrets" # "deepseek"
      /\ TaskFits(task[c], tool, files, left) /\ task[c] \in Call
  BY DEF CliInv, CliTypeOK, File
<1>2. task[c].pc = "second" /\ UNCHANGED <<tool, files>>
  BY DEF SecondFile
<1>3. tool = "cline" /\ task[c].op \in {"apply", "reset"}
  BY <1>1, <1>2 DEF TaskFits
<1> HIDE DEF now
<1>4. ASSUME NEW text \in Content, text.form = "map", text.own \in left'["clineSecrets"],
             task' = [task EXCEPT ![c].pc = "open", ![c].file = "clineSecrets", ![c].text = text],
             answer' = Silence, left' \in [File -> SUBSET SUBSET Own],
             \A f \in File : left[f] \subseteq left'[f]
      PROVE  CliInv'
  <2>1. PICK e : e = [task[c] EXCEPT !.pc = "open", !.file = "clineSecrets", !.text = text]
    OBVIOUS
  <2>2. /\ e \in Call /\ e.op = task[c].op /\ e.pc = "open" /\ e.file = "clineSecrets"
        /\ e.text = text /\ e.alone = task[c].alone
    BY <1>1, <1>4, <2>1 DEF Call
  <2>3. TaskFits(e, tool, files, left')
    BY <1>1, <1>2, <1>3, <1>4, <2>2 DEF TaskFits, TextFits, AloneFits
  <2>4. answer' \in AnswerType /\ AnswerFits(answer', tool, files)
    BY <1>4, CliConstants DEF AnswerFits
  <2>5. task' = [task EXCEPT ![c] = e]
    BY <1>1, <1>4, <2>1
  <2>6. QED
    BY <1>2, <1>4, <2>2, <2>3, <2>4, <2>5, CallMoves
<1>5. CASE /\ task' = [task EXCEPT ![c].pc = "open", ![c].file = "clineSecrets",
                                   ![c].text = ApplySecrets(now)]
           /\ answer' = Silence /\ Forgotten("clineSecrets")
  <2>1. PICK text : text = ApplySecrets(now)
    OBVIOUS
  <2>2. text \in Content /\ text.form = "map" /\ text.own = Parsed(now).own
    BY <1>1, <2>1, SecretsFacts
  <2>3. /\ left' \in [File -> SUBSET SUBSET Own] /\ \A f \in File : left[f] \subseteq left'[f]
        /\ Parsed(now).own \in left'["clineSecrets"]
    BY <1>1, <1>5, ForgottenFacts DEF now
  <2>4. QED
    BY <1>4, <1>5, <2>1, <2>2, <2>3
<1>6. CASE /\ UNCHANGED left /\ now.form = "map" /\ answer' = Silence
           /\ task' = [task EXCEPT ![c].pc = "open", ![c].file = "clineSecrets",
                                   ![c].text = ResetSecrets(now)]
  <2>1. PICK text : text = ResetSecrets(now)
    OBVIOUS
  <2>2. text \in Content /\ text.form = "map" /\ text.own = now.own
    BY <1>1, <1>6, <2>1, SecretsFacts
  <2>3. text.own \in left'["clineSecrets"]
    BY <1>1, <1>6, <2>2 DEF FileFits
  <2>4. QED
    BY <1>1, <1>4, <1>6, <2>1, <2>2, <2>3
<1>7. CASE UNCHANGED left /\ Ends(c, TRUE)
  BY <1>2, <1>7, EndsKeeps
<1>8. QED
  BY <1>5, <1>6, <1>7 DEF SecondFile, now

LEMMA ReadFailsKeeps ==
  ASSUME CliInv, NEW c \in Calls, ReadFails(c)
  PROVE  CliInv'
<1>1. UNCHANGED <<tool, files, left>>
  BY DEF ReadFails
<1>2. CASE /\ \E op \in {"apply", "reset"} : answer' = [Silence EXCEPT !.op = op, !.ok = FALSE]
           /\ UNCHANGED task
  <2>1. PICK op \in {"apply", "reset"} : answer' = [op |-> op, ok |-> FALSE, alone |-> TRUE]
    BY <1>2 DEF Silence
  <2>2. answer' \in AnswerType /\ AnswerFits(answer', tool, files)
    BY <2>1 DEF AnswerType, AnswerFits
  <2>3. /\ task' = [task EXCEPT ![c] = task[c]] /\ task[c] \in Call
        /\ TaskFits(task[c], tool, files, left') /\ left' \in [File -> SUBSET SUBSET Own]
    BY <1>1, <1>2 DEF CliInv, CliTypeOK
  <2>4. QED
    BY <1>1, <2>2, <2>3, CallMoves
<1>3. CASE task[c].pc = "second" /\ Ends(c, FALSE)
  BY <1>1, <1>3, EndsKeeps
<1>4. QED
  BY <1>2, <1>3 DEF ReadFails

\* os.WriteFile truncates the file the call is at.
LEMMA OpenFileKeeps ==
  ASSUME CliInv, NEW c \in Calls, OpenFile(c)
  PROVE  CliInv'
<1> DEFINE e == task[c]
           f == e.file
<1>1. /\ e \in Call /\ TaskFits(e, tool, files, left) /\ f \in File /\ files \in [File -> Content]
      /\ left \in [File -> SUBSET SUBSET Own] /\ e.pc = "open"
  BY DEF CliInv, CliTypeOK, Call, OpenFile
<1>2. files' = [files EXCEPT ![f] = Emptied] /\ UNCHANGED <<tool, left>> /\ answer' = Silence
  BY DEF OpenFile
<1>3. PICK x : x = [e EXCEPT !.pc = "fill"]
  OBVIOUS
<1> HIDE DEF e
<1>4. /\ x \in Call /\ x.op = e.op /\ x.pc = "fill" /\ x.file = f /\ x.text = e.text
      /\ x.alone = e.alone
  BY <1>1, <1>3 DEF Call
<1>5. task' = [Disturbed({c}) EXCEPT ![c] = x]
  <2>1. Disturbed({c})[c] = e /\ c \in DOMAIN Disturbed({c})
    BY DEF Disturbed, e
  <2>2. QED
    BY <1>3, <2>1 DEF OpenFile
<1>6. TaskFits(x, tool, files', left)
  <2>1. files'[f].form = "empty" /\ \A g \in File : g # f => files'[g] = files[g]
    BY <1>1, <1>2, CliConstants
  <2>2. x.file = "clineSecrets" => tool = "cline" /\ tool # f /\ tool \in File
    BY <1>1, <1>4 DEF TaskFits, TextFits, CliInv, CliTypeOK, Tool, File
  <2>3. QED
    BY <1>1, <1>4, <2>1, <2>2 DEF TaskFits, TextFits, AloneFits
<1>7. FileFits(Emptied, left[f])
  BY CliConstants DEF FileFits
<1>8. answer' \in AnswerType /\ AnswerFits(answer', tool, files')
  BY <1>2, CliConstants DEF AnswerFits
<1>9. QED
  BY <1>1, <1>2, <1>4, <1>5, <1>6, <1>7, <1>8, CliConstants, CallWrites

\* A file has been dealt with: written as content, or left.
LEMMA ProceedsKeeps ==
  ASSUME CliInv, NEW c \in Calls, NEW ok \in BOOLEAN, NEW content \in Content,
         task[c].pc \in {"open", "fill"}, files' = [files EXCEPT ![task[c].file] = content],
         task[c].file # "deepseek" => FileFits(content, left[task[c].file]),
         Proceeds(c, ok), UNCHANGED <<tool, left>>,
         ok /\ task[c].alone /\ ~ (task[c].op = "reset" /\ tool = "cline") =>
           \/ content = task[c].text
           \/ task[c].op = "reset" /\ content.form = "absent"
  PROVE  CliInv'
<1> DEFINE e == task[c]
           f == e.file
           more == f = "cline" /\ ok
<1>1. /\ e \in Call /\ TaskFits(e, tool, files, left) /\ TextFits(e, tool, left)
      /\ f \in File /\ files \in [File -> Content] /\ left \in [File -> SUBSET SUBSET Own]
      /\ tool \in Tool /\ tool \in File /\ tool # "clineSecrets" /\ e.alone \in BOOLEAN
      /\ e.op \in {"apply", "reset"}
  BY CliConstants DEF CliInv, CliTypeOK, Call, TaskFits, Tool
<1>2. Disturbed({c})[c] = e /\ c \in DOMAIN Disturbed({c})
  BY DEF Disturbed
<1>3. /\ task' = [Disturbed({c}) EXCEPT
                    ![c] = IF more THEN [@ EXCEPT !.pc = "second", !.text = Blank] ELSE NoCall]
      /\ answer' = IF more THEN Silence ELSE [op |-> e.op, ok |-> ok, alone |-> e.alone]
  BY DEF Proceeds
<1>4. files'[f] = content /\ \A g \in File : g # f => files'[g] = files[g]
  BY <1>1
<1> HIDE DEF e
\* Undisturbed and answered as done, the tool's file has been written as it should.
<1>5. ASSUME ok, e.alone, f = tool, e.op = "apply" PROVE Selects(tool, files'[tool])
  <2>1. content = e.text
    BY <1>5 DEF e
  <2>2. QED
    BY <1>1, <1>4, <1>5, <2>1 DEF TextFits
<1>6. CASE more
  <2>1. PICK x : x = [e EXCEPT !.pc = "second", !.text = Blank]
    OBVIOUS
  <2>2. x \in Call /\ x.op = e.op /\ x.pc = "second" /\ x.file = f /\ x.alone = e.alone
    BY <1>1, <2>1, CliConstants DEF Call
  <2>3. task' = [Disturbed({c}) EXCEPT ![c] = x] /\ answer' = Silence
    BY <1>2, <1>3, <1>6, <2>1
  <2>4. f = "cline" /\ tool = "cline" /\ ok
    BY <1>1, <1>6 DEF TextFits
  <2>5. TaskFits(x, tool, files', left)
    BY <1>1, <1>5, <2>2, <2>4 DEF TaskFits, AloneFits
  <2>6. answer' \in AnswerType /\ AnswerFits(answer', tool, files')
    BY <2>3, CliConstants DEF AnswerFits
  <2>7. QED
    BY <1>1, <2>2, <2>3, <2>5, <2>6, CallWrites DEF e
<1>7. CASE ~ more
  <2>1. task' = [Disturbed({c}) EXCEPT ![c] = NoCall]
        /\ answer' = [op |-> e.op, ok |-> ok, alone |-> e.alone]
    BY <1>3, <1>7
  <2>2. answer' \in AnswerType
    BY <1>1, <2>1 DEF AnswerType
  <2>3. ASSUME answer' = [op |-> "apply", ok |-> TRUE, alone |-> TRUE] PROVE Selects(tool, files'[tool])
    <3>1. e.op = "apply" /\ ok /\ e.alone
      BY <2>1, <2>3
    <3>2. CASE f = tool
      BY <1>5, <3>1, <3>2
    <3>3. CASE f # tool
      <4>1. f = "clineSecrets" /\ tool = "cline"
        BY <1>1, <3>3 DEF TextFits
      <4>2. Selects(tool, files[tool])
        BY <1>1, <3>1, <4>1 DEF TaskFits, AloneFits, e
      <4>3. QED
        BY <1>1, <1>4, <3>3, <4>2
    <3>4. QED
      BY <3>2, <3>3
  <2>4. ASSUME answer' = [op |-> "reset", ok |-> TRUE, alone |-> TRUE], tool # "cline"
        PROVE  ~ PointsHere(tool, files'[tool])
    <3>1. e.op = "reset" /\ ok /\ e.alone
      BY <2>1, <2>4
    <3>2. f = tool
      BY <1>1, <2>4 DEF TextFits
    <3>3. content = e.text \/ content.form = "absent"
      BY <2>4, <3>1 DEF e
    <3>4. QED
      BY <1>1, <1>4, <2>4, <3>1, <3>2, <3>3 DEF TextFits, PointsHere
  <2>5. AnswerFits(answer', tool, files')
    BY <2>3, <2>4 DEF AnswerFits
  <2>6. QED
    BY <1>1, <2>1, <2>2, <2>5, NoCallFits, CliConstants, CallWrites DEF e
<1>8. QED
  BY <1>6, <1>7

LEMMA FillFileKeeps ==
  ASSUME CliInv, NEW c \in Calls, FillFile(c)
  PROVE  CliInv'
<1> DEFINE e == task[c]
           f == e.file
<1>1. /\ e \in Call /\ TaskFits(e, tool, files, left) /\ TextFits(e, tool, left)
      /\ f \in File /\ files[f] \in Content /\ e.text \in Content /\ e.pc = "fill"
      /\ f # "deepseek" => FileFits(files[f], left[f])
  BY DEF CliInv, CliTypeOK, Call, TaskFits, FillFile
<1>2. PICK content \in Filled(files[f], e.text) : files' = [files EXCEPT ![f] = content]
  BY DEF FillFile
<1>3. Proceeds(c, TRUE) /\ UNCHANGED <<tool, left>>
  BY DEF FillFile
<1> HIDE DEF e
<1>4. content \in {e.text, Bad, files[f]} /\ (e.alone => content = e.text)
  BY <1>1, <1>2 DEF Filled, TaskFits, AloneFits
<1>5. content \in Content /\ (f # "deepseek" => FileFits(content, left[f]))
  BY <1>1, <1>4, CliConstants DEF FileFits, TextFits
<1>6. QED
  BY <1>1, <1>2, <1>3, <1>4, <1>5, ProceedsKeeps DEF e

LEMMA WriteFailsKeeps ==
  ASSUME CliInv, NEW c \in Calls, WriteFails(c)
  PROVE  CliInv'
<1> DEFINE e == task[c]
           f == e.file
<1>1. /\ e \in Call /\ TaskFits(e, tool, files, left) /\ e.pc \in {"open", "fill"}
      /\ f \in File /\ files[f] \in Content /\ files \in [File -> Content]
      /\ f # "deepseek" => FileFits(files[f], left[f])
  BY DEF CliInv, CliTypeOK, Call, WriteFails
<1>2. UNCHANGED <<tool, left>>
  BY DEF WriteFails
<1>3. PICK content \in {files[f], Bad} : /\ files' = [files EXCEPT ![f] = content]
                                         /\ e.pc = "open" => content = files[f]
  <2>1. files = [files EXCEPT ![f] = files[f]]
    BY <1>1
  <2>2. QED
    BY <1>1, <2>1 DEF WriteFails
<1>4. content \in Content /\ (f # "deepseek" => FileFits(content, left[f]))
  BY <1>1, <1>3, CliConstants DEF FileFits
<1>5. TextFits(e, tool, left)
  BY <1>1 DEF TaskFits
<1>6. PICK ok \in BOOLEAN :
        /\ Proceeds(c, ok)
        /\ ok => \/ e.op = "reset" /\ tool = "cline"
                 \/ e.op = "reset" /\ tool = "deepseek" /\ e.pc = "open" /\ files[tool].form = "absent"
  BY DEF WriteFails
<1> HIDE DEF e
<1>7. ok /\ ~ (e.op = "reset" /\ tool = "cline") => e.op = "reset" /\ content.form = "absent"
  BY <1>3, <1>5, <1>6 DEF TextFits
<1>8. QED
  BY <1>1, <1>2, <1>3, <1>4, <1>6, <1>7, ProceedsKeeps DEF e

LEMMA DiesKeeps ==
  ASSUME CliInv, ServerDies
  PROVE  CliInv'
<1>1. /\ task' = [c \in Calls |-> NoCall] /\ answer' = Silence /\ UNCHANGED <<tool, files, left>>
      /\ tool \in Tool /\ files \in [File -> Content] /\ left \in [File -> SUBSET SUBSET Own]
  BY DEF CliInv, CliTypeOK, ServerDies
<1>2. task' \in [Calls -> Call] /\ \A c \in Calls : TaskFits(task'[c], tool, files', left')
  BY <1>1, CliConstants, NoCallFits
<1>3. answer' \in AnswerType /\ AnswerFits(answer', tool, files')
  BY <1>1, CliConstants DEF AnswerFits
<1>4. \A f \in File \ {"deepseek"} : FileFits(files'[f], left'[f])
  BY <1>1 DEF CliInv
<1>5. QED
  BY <1>1, <1>2, <1>3, <1>4, CliInvFrom

LEMMA UserKeeps ==
  ASSUME CliInv, NEW f \in File, UserEdits(f) \/ UserBreaks(f)
  PROVE  CliInv'
<1>0. /\ files \in [File -> Content] /\ left \in [File -> SUBSET SUBSET Own] /\ task \in [Calls -> Call]
      /\ \A d \in Calls : TaskFits(task[d], tool, files, left)
  BY DEF CliInv, CliTypeOK
<1>1. CASE UserEdits(f)
  <2> DEFINE Owed == {task[c].text.own : c \in {d \in Calls : /\ task[d].pc \in {"open", "fill"}
                                                              /\ task[d].file = f}}
  <2>1. PICK own \in SUBSET Own, s \in Selection(f) :
          /\ files' = [files EXCEPT ![f] = [form |-> "map", provider |-> s[1], base |-> s[2], own |-> own]]
          /\ left' = [left EXCEPT ![f] = {own} \union Owed]
    BY <1>1 DEF UserEdits
  <2>2. task' = Disturbed({}) /\ answer' = Silence /\ tool' = tool
    BY <1>1 DEF UserEdits
  <2>3. PICK content : content = [form |-> "map", provider |-> s[1], base |-> s[2], own |-> own]
    OBVIOUS
  <2>4. s[1] \in Provider /\ s[2] \in Base
    BY DEF Selection, Provider, Base
  <2>5. content \in Content /\ content.form = "map" /\ content.own = own
    BY <2>3, <2>4 DEF Content, Form
  <2>6. Owed \subseteq SUBSET Own
    BY <1>0 DEF Call, Content
  <2>7. \A d \in Calls : task[d].pc \in {"open", "fill"} /\ task[d].file = f => task[d].text.own \in Owed
    OBVIOUS
  <2> HIDE DEF Owed
  <2>8. left' \in [File -> SUBSET SUBSET Own] /\ left'[f] = {own} \union Owed
        /\ \A g \in File \ {f} : left'[g] = left[g]
    BY <1>0, <2>1, <2>6
  <2>9. FileFits(content, left'[f])
    BY <2>5, <2>8 DEF FileFits
  <2>10. QED
    BY <2>1, <2>2, <2>3, <2>5, <2>7, <2>8, <2>9, UserWrites
<1>2. CASE UserBreaks(f)
  <2>1. files' = [files EXCEPT ![f] = Bad] /\ task' = Disturbed({}) /\ answer' = Silence
        /\ UNCHANGED <<tool, left>>
    BY <1>2 DEF UserBreaks
  <2>2. Bad \in Content /\ FileFits(Bad, left'[f])
    BY CliConstants DEF FileFits
  <2>3. \A d \in Calls : task[d].pc \in {"open", "fill"} /\ task[d].file = f /\ f # "deepseek"
                           => task[d].text.own \in left'[f]
    BY <1>0, <2>1 DEF TaskFits, TextFits
  <2>4. QED
    BY <1>0, <2>1, <2>2, <2>3, UserWrites
<1>3. QED
  BY <1>1, <1>2

LEMMA CliInvNext == CliInv /\ [CliNext]_cliVars => CliInv'
<1> SUFFICES ASSUME CliInv, [CliNext]_cliVars PROVE CliInv'
  OBVIOUS
<1>1. ASSUME NEW c \in Calls, Apply(c) \/ Reset(c) \/ ResetClineState(c) \/ SecondFile(c)
      PROVE  CliInv'
  BY <1>1, ApplyKeeps, ResetKeeps, ResetStateKeeps, SecondFileKeeps
<1>2. ASSUME NEW c \in Calls, OpenFile(c) \/ FillFile(c) \/ ReadFails(c) \/ WriteFails(c)
      PROVE  CliInv'
  BY <1>2, OpenFileKeeps, FillFileKeeps, ReadFailsKeeps, WriteFailsKeeps
<1>3. CASE ServerDies
  BY <1>3, DiesKeeps
<1>4. ASSUME NEW f \in File, UserEdits(f) \/ UserBreaks(f) PROVE CliInv'
  BY <1>4, UserKeeps
<1>5. CASE UNCHANGED cliVars
  BY <1>5 DEF cliVars, CliInv, CliTypeOK
<1>6. QED
  BY <1>1, <1>2, <1>3, <1>4, <1>5 DEF CliNext

\* cliconfig.go:74-118, 133-167, 240-280, 297-327: what the user keeps of his own
\* in a tool's files is what he left, or what a call had read before, or nothing
\* once an Apply could not parse it, and an answered call that nobody disturbed
\* has done what it says: for any settings of the user's and any number of calls,
\* each reading, truncating and writing in steps of its own.
THEOREM SettingsHoldEver == CliSpec => []CliSettingsHold
<1>1. CliInv => CliSettingsHold
  <2> SUFFICES ASSUME CliInv PROVE CliSettingsHold
    OBVIOUS
  <2>1. FilesOf \subseteq File
    BY DEF FilesOf, Tool, File, CliInv, CliTypeOK
  <2>2. \A f \in FilesOf \ {"deepseek"} : files[f].form = "map" => files[f].own \in left[f]
    BY <2>1 DEF CliInv, FileFits
  <2>3. QED
    BY <2>2 DEF CliInv, AnswerFits, Selects, PointsHere, HasConfig, CliSettingsHold
<1>2. QED
  BY <1>1, CliInvInit, CliInvNext, PTL DEF CliSpec

-----------------------------------------------------------------------------
\* The request log.  A file is younger than its backups, entry by entry; while
\* no rename has failed the backups are full, follow each other from the log on
\* without a gap, and are all there once an entry has been given up.
Ordered(files_) ==
  \A i, j \in 0..MaxBackups : \A p \in DOMAIN files_[i], q \in DOMAIN files_[j] :
    i > j \/ (i = j /\ p < q) => files_[i][p] < files_[j][q]

Whole ==
  /\ open
  /\ \A e \in Entries : e..logged \subseteq Entries
  /\ \A i \in 1..MaxBackups : Exists(i) => Len(logs[i]) >= MaxSize
  /\ \A i, j \in 0..MaxBackups : i < j /\ Exists(j) => Exists(i)
  /\ 1..logged \subseteq Entries \/ \A i \in 0..MaxBackups : Exists(i)

LogInv ==
  /\ logs \in [0..MaxBackups -> Seq(Nat)] /\ logged \in Nat
  /\ open \in BOOLEAN /\ faulty \in BOOLEAN
  /\ Ordered(logs)
  /\ Entries \subseteq 1..logged
  /\ ~faulty => Whole

LEMMA EntriesAre ==
  ASSUME logs \in [0..MaxBackups -> Seq(Nat)]
  PROVE  \A e : e \in Entries <=> \E i \in 0..MaxBackups : \E p \in DOMAIN logs[i] : e = logs[i][p]
BY DEF Entries, ToSet

LEMMA LogInvInit == LogInit => LogInv
<1> SUFFICES ASSUME LogInit PROVE LogInv
  OBVIOUS
<1>1. /\ logs \in [0..MaxBackups -> Seq(Nat)] /\ logged = 0 /\ open = TRUE /\ faulty = FALSE
      /\ \A i \in 0..MaxBackups : logs[i] = <<>>
  BY DEF LogInit
<1>2. \A i \in 0..MaxBackups : DOMAIN logs[i] = {}
  BY <1>1
<1>3. Entries = {} /\ Ordered(logs)
  BY <1>1, <1>2, EntriesAre DEF Ordered
<1>4. 1..logged = {}
  BY <1>1
<1>5. Whole
  BY <1>1, <1>3, <1>4, LogAssumption DEF Whole, Exists
<1>6. QED
  BY <1>1, <1>3, <1>5 DEF LogInv

\* An entry logged to file 0 is younger than all there are.
LEMMA AppendKeepsOrder ==
  ASSUME NEW L \in [0..MaxBackups -> Seq(Nat)], Ordered(L), NEW n \in Nat,
         \A i \in 0..MaxBackups : \A p \in DOMAIN L[i] : L[i][p] < n,
         NEW M, M[0] = Append(L[0], n), \A i \in 1..MaxBackups : M[i] = L[i]
  PROVE  /\ Ordered(M)
         /\ Len(M[0]) = Len(L[0]) + 1 /\ M[0][Len(L[0]) + 1] = n
         /\ \A p \in DOMAIN L[0] : p \in DOMAIN M[0] /\ M[0][p] = L[0][p]
         /\ \A p \in DOMAIN M[0] : p \in DOMAIN L[0] \/ p = Len(L[0]) + 1
<1> DEFINE s == L[0]
           t == Append(s, n)
<1>1. 0 \in 0..MaxBackups /\ s \in Seq(Nat) /\ MaxBackups \in Nat
  BY LogAssumption
<1>2. /\ t \in Seq(Nat) /\ Len(t) = Len(s) + 1 /\ t[Len(s) + 1] = n /\ Len(s) \in Nat
      /\ DOMAIN s = 1..Len(s) /\ DOMAIN t = 1..(Len(s) + 1)
      /\ \A p \in 1..Len(s) : t[p] = s[p]
  BY <1>1
<1>3. M[0] = t /\ \A i \in 0..MaxBackups : i # 0 => M[i] = L[i]
  BY <1>1
<1>4. \A p \in DOMAIN t : p \in DOMAIN s \/ p = Len(s) + 1
  BY <1>2
<1> HIDE DEF s, t
<1>5. ASSUME NEW i \in 0..MaxBackups, NEW j \in 0..MaxBackups,
             NEW p \in DOMAIN M[i], NEW q \in DOMAIN M[j], i > j \/ (i = j /\ p < q)
      PROVE  M[i][p] < M[j][q]
  <2>1. CASE i # 0 /\ j # 0
    BY <1>3, <1>5, <2>1 DEF Ordered
  <2>2. CASE i # 0 /\ j = 0
    <3>1. M[i] = L[i] /\ M[0] = t
      BY <1>3, <2>2
    <3>2. CASE q = Len(s) + 1
      BY <1>2, <2>2, <3>1, <3>2
    <3>3. CASE q \in DOMAIN s
      <4>1. t[q] = L[0][q]
        BY <1>2, <3>3 DEF s
      <4>2. L[i][p] < L[0][q]
        BY <1>1, <1>5, <2>2, <3>1, <3>3 DEF Ordered, s
      <4>3. QED
        BY <2>2, <3>1, <4>1, <4>2
    <3>4. QED
      BY <1>4, <2>2, <3>1, <3>2, <3>3
  <2>3. CASE i = 0
    <3>1. j = 0 /\ p < q /\ M[0] = t
      BY <1>1, <1>3, <1>5, <2>3
    <3>2. p \in 1..Len(s) /\ t[p] = L[0][p]
      BY <1>2, <2>3, <3>1 DEF s
    <3>3. CASE q = Len(s) + 1
      BY <1>1, <1>2, <2>3, <3>1, <3>2, <3>3 DEF s
    <3>4. CASE q \in DOMAIN s
      BY <1>1, <1>2, <2>3, <3>1, <3>2, <3>4 DEF s, Ordered
    <3>5. QED
      BY <1>4, <3>1, <3>3, <3>4
  <2>4. QED
    BY <2>1, <2>2, <2>3
<1>6. Ordered(M)
  BY <1>5 DEF Ordered
<1>7. QED
  BY <1>1, <1>2, <1>3, <1>4, <1>6 DEF s, t

\* The source of a file after a rotation; renames keep the order of the files.
LEMMA RotationKeepsOrder ==
  ASSUME LogInv, NEW stuck
  PROVE  /\ Rotated(stuck) \in [0..MaxBackups -> Seq(Nat)] /\ Ordered(Rotated(stuck))
         /\ \A i \in 0..MaxBackups : \A p \in DOMAIN Rotated(stuck)[i] : Rotated(stuck)[i][p] \in Entries
<1> DEFINE R == Shifted(stuck)
<1>0. logs \in [0..MaxBackups -> Seq(Nat)] /\ MaxBackups \in Nat
  BY LogAssumption DEF LogInv
<1>1. \A i \in 0..MaxBackups :
        \/ R[i] = <<>>
        \/ i > 0 /\ i - 1 \in Moved(stuck) /\ R[i] = logs[i - 1]
        \/ (i = 0 \/ i - 1 \notin Moved(stuck)) /\ i \notin Moved(stuck) /\ R[i] = logs[i]
  BY <1>0 DEF Shifted
<1>2. \A i \in 0..MaxBackups : i > 0 => i - 1 \in 0..MaxBackups
  BY <1>0
<1>3. DOMAIN R = 0..MaxBackups /\ \A i \in 0..MaxBackups : R[i] \in Seq(Nat)
  BY <1>0, <1>1, <1>2 DEF Shifted
<1>4. R \in [0..MaxBackups -> Seq(Nat)]
  BY <1>3 DEF Shifted
<1> HIDE DEF R
<1>5. \A i \in 0..MaxBackups : \A p \in DOMAIN R[i] :
        \E k \in 0..MaxBackups : /\ R[i] = logs[k] /\ p \in DOMAIN logs[k]
                                 /\ \/ k = i - 1 /\ k \in Moved(stuck)
                                    \/ k = i /\ i \notin Moved(stuck)
  <2> TAKE i \in 0..MaxBackups
  <2> TAKE p \in DOMAIN R[i]
  <2>1. R[i] # <<>>
    OBVIOUS
  <2>2. CASE i > 0 /\ i - 1 \in Moved(stuck) /\ R[i] = logs[i - 1]
    BY <1>2, <2>2
  <2>3. CASE i \notin Moved(stuck) /\ R[i] = logs[i]
    BY <2>3
  <2>4. QED
    BY <1>1, <2>1, <2>2, <2>3
<1>6. Ordered(R)
  <2> SUFFICES ASSUME NEW i \in 0..MaxBackups, NEW j \in 0..MaxBackups,
                      NEW p \in DOMAIN R[i], NEW q \in DOMAIN R[j], i > j \/ (i = j /\ p < q)
               PROVE  R[i][p] < R[j][q]
    BY DEF Ordered
  <2>1. PICK k \in 0..MaxBackups : /\ R[i] = logs[k] /\ p \in DOMAIN logs[k]
                                   /\ \/ k = i - 1 /\ k \in Moved(stuck)
                                      \/ k = i /\ i \notin Moved(stuck)
    BY <1>5
  <2>2. PICK l \in 0..MaxBackups : /\ R[j] = logs[l] /\ q \in DOMAIN logs[l]
                                   /\ \/ l = j - 1 /\ l \in Moved(stuck)
                                      \/ l = j /\ j \notin Moved(stuck)
    BY <1>5
  <2>3. k > l \/ (R[j] = logs[k] /\ p < q)
    <3>1. (i \in Int /\ j \in Int /\ i > j) \/ (i = j /\ p < q)
      BY <1>0
    <3>2. CASE i = j /\ p < q
      BY <2>1, <3>2
    <3>3. CASE i \in Int /\ j \in Int /\ i > j
      <4>1. CASE k = i
        BY <2>2, <3>3, <4>1
      <4>2. CASE k = i - 1 /\ k \in Moved(stuck)
        <5>1. CASE l = j - 1
          BY <3>3, <4>2, <5>1
        <5>2. CASE l = j /\ j \notin Moved(stuck)
          <6>1. k # j
            BY <4>2, <5>2
          <6>2. QED
            BY <3>3, <4>2, <5>2, <6>1
        <5>3. QED
          BY <2>2, <5>1, <5>2
      <4>3. QED
        BY <2>1, <4>1, <4>2
    <3>4. QED
      BY <3>1, <3>2, <3>3
  <2>4. QED
    BY <2>1, <2>2, <2>3 DEF LogInv, Ordered
<1>7. \A i \in 0..MaxBackups : \A p \in DOMAIN R[i] : R[i][p] \in Entries
  BY <1>0, <1>5, EntriesAre
<1>8. Rotated(stuck) = logs \/ Rotated(stuck) = R
  BY DEF Rotated, R
<1>9. QED
  BY <1>0, <1>4, <1>6, <1>7, <1>8, EntriesAre DEF LogInv

\* While nothing has failed a rotation moves every file up one place, and gives
\* up the last.
LEMMA WholeShift ==
  ASSUME LogInv, Whole, Exists(0)
  PROVE  Shifted({})[0] = <<>> /\ \A i \in 1..MaxBackups : Shifted({})[i] = logs[i - 1]
<1>0. logs \in [0..MaxBackups -> Seq(Nat)] /\ MaxBackups \in Nat /\ MaxBackups > 0
  BY LogAssumption DEF LogInv
<1>1. Moved({}) = {i \in 0..(MaxBackups - 1) : Exists(i)}
  BY DEF Moved
<1>2. Shifted({})[0] = <<>>
  BY <1>0, <1>1 DEF Shifted
<1>3. ASSUME NEW i \in 1..MaxBackups PROVE Shifted({})[i] = logs[i - 1]
  <2>1. i \in 0..MaxBackups /\ i > 0 /\ i - 1 \in 0..(MaxBackups - 1) /\ i - 1 \in 0..MaxBackups
        /\ i - 1 < i
    BY <1>0
  <2>2. CASE Exists(i - 1)
    BY <1>1, <2>1, <2>2 DEF Shifted
  <2>3. CASE ~ Exists(i - 1)
    <3>1. ~ Exists(i)
      BY <2>1, <2>3 DEF Whole
    <3>2. logs[i] = <<>> /\ logs[i - 1] = <<>> /\ i \notin Moved({}) /\ i - 1 \notin Moved({})
      BY <1>1, <2>3, <3>1 DEF Exists
    <3>3. QED
      BY <2>1, <3>2 DEF Shifted
  <2>4. QED
    BY <2>2, <2>3
<1>4. QED
  BY <1>2, <1>3

LEMMA LogInvNext == LogInv /\ [LogNext]_logVars => LogInv'
<1> SUFFICES ASSUME LogInv, [LogNext]_logVars PROVE LogInv'
  OBVIOUS
<1>0. /\ logs \in [0..MaxBackups -> Seq(Nat)] /\ logged \in Nat /\ Ordered(logs)
      /\ Entries \subseteq 1..logged /\ MaxBackups \in Nat /\ MaxBackups > 0
      /\ MaxSize \in Nat /\ MaxSize > 0 /\ 0 \in 0..MaxBackups
  BY LogAssumption DEF LogInv
<1>1. CASE Log
  <2>1. PICK stuck \in SUBSET (0..(MaxBackups - 1)) :
          /\ Len(logs[0]) < MaxSize => stuck = {}
          /\ logs' = [Rotated(stuck) EXCEPT ![0] = Append(@, logged + 1)]
          /\ faulty' = (faulty \/ stuck # {})
    BY <1>1 DEF Log
  <2> DEFINE R == Rotated(stuck)
             new == Len(R[0]) + 1
  <2>2. /\ R \in [0..MaxBackups -> Seq(Nat)] /\ Ordered(R)
        /\ \A i \in 0..MaxBackups : \A p \in DOMAIN R[i] : R[i][p] \in Entries
    BY RotationKeepsOrder
  <2>3. open /\ open' = open /\ logged' = logged + 1 /\ logged + 1 \in Nat
        /\ faulty' \in BOOLEAN /\ open' \in BOOLEAN
    BY <1>0, <1>1, <2>1 DEF Log, LogInv
  <2>r. \/ R = logs /\ Len(logs[0]) < MaxSize
        \/ R = Shifted(stuck) /\ ~ (Len(logs[0]) < MaxSize)
    <3>1. CASE Len(logs[0]) < MaxSize
      BY <3>1 DEF Rotated
    <3>2. CASE ~ (Len(logs[0]) < MaxSize)
      BY <3>2 DEF Rotated
    <3>3. QED
      BY <3>1, <3>2
  <2> HIDE DEF R
  <2>4. \A i \in 0..MaxBackups : \A p \in DOMAIN R[i] : R[i][p] < logged + 1
    BY <1>0, <2>2
  <2>5. /\ logs' \in [0..MaxBackups -> Seq(Nat)] /\ Ordered(logs')
        /\ \A i \in 1..MaxBackups : logs'[i] = R[i]
        /\ Len(logs'[0]) = Len(R[0]) + 1 /\ logs'[0][new] = logged + 1
        /\ \A p \in DOMAIN R[0] : p \in DOMAIN logs'[0] /\ logs'[0][p] = R[0][p]
        /\ \A p \in DOMAIN logs'[0] : p \in DOMAIN R[0] \/ p = Len(R[0]) + 1
    <3>1. logs' = [R EXCEPT ![0] = Append(@, logged + 1)]
      BY <2>1 DEF R
    <3> DEFINE n == logged + 1
               M == logs'
    <3>2. n \in Nat /\ \A i \in 0..MaxBackups : \A p \in DOMAIN R[i] : R[i][p] < n
      BY <2>3, <2>4
    <3>3. Append(R[0], n) \in Seq(Nat)
      BY <1>0, <2>2, <3>2
    <3>4. /\ M \in [0..MaxBackups -> Seq(Nat)] /\ M[0] = Append(R[0], n)
          /\ \A i \in 1..MaxBackups : M[i] = R[i]
      BY <1>0, <2>2, <3>1, <3>3
    <3> HIDE DEF n, M
    <3>5. /\ Ordered(M)
          /\ Len(M[0]) = Len(R[0]) + 1 /\ M[0][Len(R[0]) + 1] = n
          /\ \A p \in DOMAIN R[0] : p \in DOMAIN M[0] /\ M[0][p] = R[0][p]
          /\ \A p \in DOMAIN M[0] : p \in DOMAIN R[0] \/ p = Len(R[0]) + 1
      BY <2>2, <3>2, <3>4, AppendKeepsOrder
    <3>6. QED
      BY <3>4, <3>5 DEF n, M
  <2>6. new \in DOMAIN logs'[0]
    BY <1>0, <2>2, <2>5
  <2> DEFINE Old == UNION {ToSet(R[i]) : i \in 0..MaxBackups}
  <2>d. \A e : e \in Old <=> \E i \in 0..MaxBackups : \E p \in DOMAIN R[i] : e = R[i][p]
    BY DEF ToSet
  <2>o. R = logs => Old = Entries
    BY <1>0 DEF Entries
  <2> HIDE DEF Old
  <2>7. Entries' = Old \union {logged + 1}
    <3>1. \A i \in 0..MaxBackups : i # 0 => logs'[i] = R[i]
      BY <1>0, <2>5
    <3>2. \A e : (\E p \in DOMAIN logs'[0] : e = logs'[0][p])
                 <=> e = logged + 1 \/ \E p \in DOMAIN R[0] : e = R[0][p]
      BY <2>5, <2>6
    <3>3. \A e : e \in Entries' <=> \E i \in 0..MaxBackups : \E p \in DOMAIN logs'[i] : e = logs'[i][p]
      BY <2>5 DEF Entries, ToSet
    <3>4. ASSUME NEW e \in Entries' PROVE e \in Old \union {logged + 1}
      <4>1. PICK i \in 0..MaxBackups : \E p \in DOMAIN logs'[i] : e = logs'[i][p]
        BY <3>3
      <4>2. CASE i = 0
        BY <1>0, <2>d, <3>2, <4>1, <4>2
      <4>3. CASE i # 0
        BY <2>d, <3>1, <4>1, <4>3
      <4>4. QED
        BY <4>2, <4>3
    <3>5. ASSUME NEW e \in Old PROVE e \in Entries'
      <4>1. PICK i \in 0..MaxBackups : \E p \in DOMAIN R[i] : e = R[i][p]
        BY <2>d
      <4>2. CASE i = 0
        BY <1>0, <3>2, <3>3, <4>1, <4>2
      <4>3. CASE i # 0
        BY <3>1, <3>3, <4>1, <4>3
      <4>4. QED
        BY <4>2, <4>3
    <3>6. logged + 1 \in Entries'
      BY <1>0, <2>5, <2>6, <3>3
    <3>7. QED
      BY <3>4, <3>5, <3>6
  <2>8. Old \subseteq Entries
    BY <2>2, <2>d
  <2>9. Entries' \subseteq 1..logged'
    BY <1>0, <2>3, <2>7, <2>8
  <2>12. ASSUME ~ faulty' PROVE Whole'
    <3>1. Whole /\ stuck = {} /\ ~ faulty
      BY <2>1, <2>12 DEF LogInv
    <3>2. CASE R = logs /\ Len(logs[0]) < MaxSize
      <4>1. Old = Entries
        BY <2>o, <3>2
      <4>2. \A i \in 0..MaxBackups : Exists(i) => Exists(i)'
        BY <1>0, <2>5, <2>6, <3>2 DEF Exists
      <4>3. \A i \in 1..MaxBackups : logs'[i] = logs[i]
        BY <2>5, <3>2
      <4>4. Exists(0)'
        BY <2>6 DEF Exists
      <4>5. \A e \in Entries' : e..logged' \subseteq Entries'
        <5>1. \A e \in Entries : e..logged' \subseteq Entries \union {logged + 1}
          BY <1>0, <2>3, <3>1 DEF Whole
        <5>2. (logged + 1)..logged' = {logged + 1}
          BY <1>0, <2>3
        <5>3. QED
          BY <2>7, <4>1, <5>1, <5>2
      <4>6. \A i \in 1..MaxBackups : Exists(i)' => Len(logs'[i]) >= MaxSize
        BY <3>1, <4>3 DEF Whole, Exists
      <4>7. \A i, j \in 0..MaxBackups : i < j /\ Exists(j)' => Exists(i)'
        <5>1. \A i, j \in 0..MaxBackups : i < j => j \in 1..MaxBackups
          BY <1>0
        <5>2. QED
          BY <3>1, <4>2, <4>3, <5>1 DEF Whole, Exists
      <4>8. 1..logged' \subseteq Entries' \/ \A i \in 0..MaxBackups : Exists(i)'
        <5>1. CASE 1..logged \subseteq Entries
          BY <1>0, <2>3, <2>7, <4>1, <5>1
        <5>2. CASE \A i \in 0..MaxBackups : Exists(i)
          BY <4>2, <5>2
        <5>3. QED
          BY <3>1, <5>1, <5>2 DEF Whole
      <4>9. QED
        BY <2>3, <4>5, <4>6, <4>7, <4>8 DEF Whole
    <3>3. CASE R = Shifted({}) /\ ~ (Len(logs[0]) < MaxSize)
      <4>1. Exists(0) /\ Len(logs[0]) >= MaxSize
        BY <1>0, <3>3 DEF Exists
      <4>2. R[0] = <<>> /\ \A i \in 1..MaxBackups : R[i] = logs[i - 1]
        BY <3>1, <3>3, <4>1, WholeShift
      <4>3. \A i \in 1..MaxBackups : i - 1 \in 0..MaxBackups /\ logs'[i] = logs[i - 1]
                                     /\ (Exists(i)' <=> Exists(i - 1))
        BY <1>0, <2>5, <4>2 DEF Exists
      <4>4. Exists(0)'
        BY <2>6 DEF Exists
      <4>5. ASSUME NEW e \in Entries, e \notin Old
            PROVE  \E q \in DOMAIN logs[MaxBackups] : e = logs[MaxBackups][q]
        <5>1. PICK i \in 0..MaxBackups : \E p \in DOMAIN logs[i] : e = logs[i][p]
          BY <1>0, EntriesAre
        <5>2. PICK p \in DOMAIN logs[i] : e = logs[i][p]
          BY <5>1
        <5>3. CASE i # MaxBackups
          <6>1. i + 1 \in 1..MaxBackups /\ i + 1 - 1 = i /\ i + 1 \in 0..MaxBackups
            BY <1>0, <5>3
          <6>2. R[i + 1] = logs[i]
            BY <4>2, <6>1
          <6>3. QED
            BY <2>d, <4>5, <5>2, <6>1, <6>2
        <5>4. QED
          BY <5>2, <5>3
      <4>6. ASSUME NEW e \in Old PROVE e..logged \subseteq Old
        <5>1. PICK k \in 0..MaxBackups : \E p \in DOMAIN R[k] : e = R[k][p]
          BY <2>d
        <5>2. PICK p \in DOMAIN R[k] : e = R[k][p]
          BY <5>1
        <5>3. k \in 1..MaxBackups
          BY <1>0, <4>2, <5>2
        <5>4. p \in DOMAIN logs[k - 1] /\ e = logs[k - 1][p] /\ k - 1 \in 0..MaxBackups
              /\ MaxBackups > k - 1 /\ MaxBackups \in 0..MaxBackups
          BY <1>0, <4>2, <5>2, <5>3
        <5>5. ASSUME NEW f \in e..logged, f \notin Old PROVE FALSE
          <6>1. f \in Entries
            BY <2>8, <3>1 DEF Whole
          <6>2. PICK q \in DOMAIN logs[MaxBackups] : f = logs[MaxBackups][q]
            BY <4>5, <5>5, <6>1
          <6>3. f < e
            BY <1>0, <5>4, <6>2 DEF Ordered
          <6>4. e \in Nat
            BY <1>0, <2>8
          <6>5. QED
            BY <6>3, <6>4
        <5>6. QED
          BY <5>5
      <4>7. \A e \in Entries' : e..logged' \subseteq Entries'
        <5>1. \A e \in Old : e \in Nat /\ e <= logged
          BY <1>0, <2>8
        <5>2. \A e \in Old : e..logged' \subseteq Old \union {logged + 1}
          BY <1>0, <2>3, <4>6, <5>1
        <5>3. (logged + 1)..logged' = {logged + 1}
          BY <1>0, <2>3
        <5>4. Entries' = Old \union {logged + 1}
          BY <2>7
        <5>5. QED
          BY <5>2, <5>3, <5>4
      <4>8. \A i \in 1..MaxBackups : Exists(i)' => Len(logs'[i]) >= MaxSize
        <5>1. \A i \in 0..MaxBackups : Exists(i) => Len(logs[i]) >= MaxSize
          BY <1>0, <3>1, <4>1 DEF Whole
        <5>2. QED
          BY <4>3, <5>1
      <4>9. \A i, j \in 0..MaxBackups : i < j /\ Exists(j)' => Exists(i)'
        <5>1. ASSUME NEW i \in 0..MaxBackups, NEW j \in 0..MaxBackups, i < j, Exists(j)'
              PROVE  Exists(i)'
          <6>1. CASE i = 0
            BY <4>4, <6>1
          <6>2. CASE i # 0
            <7>1. i \in 1..MaxBackups /\ j \in 1..MaxBackups /\ i - 1 < j - 1
              BY <1>0, <5>1, <6>2
            <7>2. Exists(j - 1)
              BY <4>3, <5>1, <7>1
            <7>3. Exists(i - 1)
              BY <3>1, <4>3, <7>1, <7>2 DEF Whole
            <7>4. QED
              BY <4>3, <7>1, <7>3
          <6>3. QED
            BY <6>1, <6>2
        <5>2. QED
          BY <5>1
      <4>10. 1..logged' \subseteq Entries' \/ \A i \in 0..MaxBackups : Exists(i)'
        <5>1. CASE Exists(MaxBackups)
          <6>1. \A i \in 0..MaxBackups : i < MaxBackups => Exists(i)
            BY <1>0, <3>1, <5>1 DEF Whole
          <6>2. \A i \in 0..MaxBackups : i # 0 => i \in 1..MaxBackups /\ i - 1 \in 0..MaxBackups
                                                  /\ i - 1 < MaxBackups
            BY <1>0
          <6>3. QED
            BY <4>3, <4>4, <6>1, <6>2
        <5>2. CASE ~ Exists(MaxBackups)
          <6>1. logs[MaxBackups] = <<>>
            BY <5>2 DEF Exists
          <6>2. Entries \subseteq Old
            BY <4>5, <6>1
          <6>3. ~ \A i \in 0..MaxBackups : Exists(i)
            BY <1>0, <5>2
          <6>4. 1..logged \subseteq Old
            BY <3>1, <6>2, <6>3 DEF Whole
          <6>5. QED
            BY <1>0, <2>3, <2>7, <6>4
        <5>3. QED
          BY <5>1, <5>2
      <4>11. QED
        BY <2>3, <4>7, <4>8, <4>9, <4>10 DEF Whole
    <3>4. QED
      BY <2>r, <3>1, <3>2, <3>3
  <2>13. QED
    BY <2>3, <2>5, <2>9, <2>12 DEF LogInv
<1>2. CASE ReopenFails
  <2>1. logs' = Rotated({}) /\ open' = FALSE /\ faulty' = TRUE /\ logged' = logged + 1
    BY <1>2 DEF ReopenFails
  <2>2. /\ logs' \in [0..MaxBackups -> Seq(Nat)] /\ Ordered(logs')
        /\ \A i \in 0..MaxBackups : \A p \in DOMAIN logs'[i] : logs'[i][p] \in Entries
    BY <2>1, RotationKeepsOrder
  <2>3. Entries' \subseteq Entries
    BY <2>2 DEF Entries, ToSet
  <2>4. Entries' \subseteq 1..logged'
    BY <1>0, <2>1, <2>3
  <2>5. logged' \in Nat
    BY <1>0, <2>1
  <2>6. QED
    BY <2>1, <2>2, <2>4, <2>5 DEF LogInv
<1>3. CASE LogClosed
  <2>1. UNCHANGED <<logs, open, faulty>> /\ logged' = logged + 1 /\ ~ open
    BY <1>3 DEF LogClosed
  <2>2. faulty
    BY <2>1 DEF LogInv, Whole
  <2>3. Entries' \subseteq 1..logged'
    <3>1. Entries' = Entries
      BY <2>1 DEF Entries
    <3>2. QED
      BY <1>0, <2>1, <3>1
  <2>4. QED
    BY <1>0, <2>1, <2>2, <2>3 DEF LogInv
<1>4. CASE LogRestart
  <2>1. UNCHANGED <<logs, logged, faulty>> /\ open' = TRUE
    BY <1>4 DEF LogRestart
  <2>2. Entries' = Entries /\ \A i : Exists(i)' = Exists(i)
    BY <2>1 DEF Entries, Exists
  <2>3. ~ faulty' => Whole'
    BY <2>1, <2>2 DEF LogInv, Whole
  <2>4. QED
    BY <1>0, <2>1, <2>2, <2>3 DEF LogInv
<1>5. CASE UNCHANGED logVars
  <2>1. UNCHANGED <<logs, open, logged, faulty>>
    BY <1>5 DEF logVars
  <2>2. Entries' = Entries /\ \A i : Exists(i)' = Exists(i)
    BY <2>1 DEF Entries, Exists
  <2>3. ~ faulty' => Whole'
    BY <2>1, <2>2 DEF LogInv, Whole
  <2>4. QED
    BY <1>0, <2>1, <2>2, <2>3 DEF LogInv
<1>6. QED
  BY <1>1, <1>2, <1>3, <1>4, <1>5 DEF LogNext

\* reqlog.go:154-179: through any rotations, restarts and failed renames the
\* entries are kept in order, and while none fails they are the newest without a
\* gap, for any size of the log and any number of backups.
THEOREM KeepsNewestEver == LogSpec => []LogKeepsNewest
<1>1. LogInv => LogKeepsNewest
  <2> SUFFICES ASSUME LogInv PROVE LogKeepsNewest
    OBVIOUS
  <2>1. DOMAIN logs = 0..MaxBackups /\ 0 \in 0..MaxBackups /\ 1..MaxBackups \subseteq 0..MaxBackups
    BY LogAssumption DEF LogInv
  <2>2. \A i, j \in DOMAIN logs : \A p \in DOMAIN logs[i], q \in DOMAIN logs[j] :
          i > j \/ (i = j /\ p < q) => logs[i][p] < logs[j][q]
    BY <2>1 DEF LogInv, Ordered
  <2>3. ASSUME ~ faulty
        PROVE  /\ \A e \in Entries : e..logged \subseteq Entries
               /\ \/ 1..logged \subseteq Entries
                  \/ Exists(0) /\ \A i \in 1..MaxBackups : Len(logs[i]) >= MaxSize
    BY <2>1, <2>3 DEF LogInv, Whole
  <2>4. QED
    BY <2>2, <2>3 DEF LogKeepsNewest
<1>2. QED
  BY <1>1, LogInvInit, LogInvNext, PTL DEF LogSpec

-----------------------------------------------------------------------------
\* The file cache.  Its list holds what was last sent, each file once and in
\* the order of last use; a file that is not in it although it has not expired
\* was pushed out by as many others as the list has places.
Known(list) == \A i \in DOMAIN list : list[i].file \in DOMAIN sent /\ list[i] = sent[list[i].file]

ByUse(list) ==
  \A i, j \in DOMAIN list : i < j => /\ list[i].file # list[j].file
                                     /\ list[i].file \in since[list[j].file]

FilesInv ==
  /\ ll \in Seq(Entry) /\ Len(ll) <= MaxFiles
  /\ DOMAIN sent \subseteq File_ /\ since \in [DOMAIN sent -> SUBSET File_]
  /\ \A f \in DOMAIN sent : sent[f] \in Entry /\ sent[f].file = f /\ IsFiniteSet(since[f])
  /\ Known(ll) /\ ByUse(ll)
  /\ \A f \in DOMAIN sent :
       sent[f].left > 0 /\ Cardinality(since[f]) < MaxFiles => f \in Held

LEMMA FilesInvInit == FilesInit => FilesInv
<1> SUFFICES ASSUME FilesInit PROVE FilesInv
  OBVIOUS
<1>1. ll = <<>> /\ Len(ll) = 0 /\ DOMAIN ll = {} /\ ll \in Seq(Entry)
  BY DEF FilesInit
<1>2. DOMAIN sent = {} /\ DOMAIN since = {} /\ since = <<>>
  BY DEF FilesInit
<1>3. since \in [{} -> SUBSET File_]
  BY <1>2
<1>4. QED
  BY <1>1, <1>2, <1>3, FilesAssumption DEF FilesInv, Known, ByUse

\* What is left of the list without a file: a gap is closed.
LEMMA OthersFacts ==
  ASSUME ll \in Seq(Entry), NEW path \in Held
  PROVE  /\ Place(path) \in DOMAIN ll /\ ll[Place(path)].file = path
         /\ OthersThan(path) \in Seq(Entry) /\ Len(OthersThan(path)) = Len(ll) - 1
         /\ \A k \in 1..(Len(ll) - 1) :
              /\ k < Place(path) => OthersThan(path)[k] = ll[k]
              /\ k >= Place(path) => OthersThan(path)[k] = ll[k + 1]
<1> DEFINE p == Place(path)
           s == SubSeq(ll, 1, p - 1)
           t == SubSeq(ll, p + 1, Len(ll))
<1>1. p \in DOMAIN ll /\ ll[p].file = path
  BY DEF Held, Place
<1>2. p \in 1..Len(ll) /\ Len(ll) \in Nat /\ p \in Nat
  BY <1>1
<1>3. OthersThan(path) = s \o t
  BY DEF OthersThan, RemoveAt
<1> HIDE DEF p
<1>4. s \in Seq(Entry) /\ Len(s) = p - 1 /\ \A k \in 1..(p - 1) : s[k] = ll[k]
  BY <1>2
<1>5. t \in Seq(Entry) /\ Len(t) = Len(ll) - p /\ \A k \in 1..(Len(ll) - p) : t[k] = ll[p + k]
  BY <1>2
<1> HIDE DEF s, t
<1>6. s \o t \in Seq(Entry) /\ Len(s \o t) = Len(ll) - 1
  <2>1. s \o t \in Seq(Entry)
    BY <1>4, <1>5
  <2>2. Len(s \o t) = Len(s) + Len(t)
    BY <1>4, <1>5, ConcatProperties
  <2>3. QED
    BY <1>2, <1>4, <1>5, <2>1, <2>2
<1>7. ASSUME NEW k \in 1..(Len(ll) - 1)
      PROVE  /\ k < p => (s \o t)[k] = ll[k]
             /\ k >= p => (s \o t)[k] = ll[k + 1]
  <2>1. CASE k < p
    BY <1>2, <1>4, <1>5, <2>1
  <2>2. CASE k >= p
    <3>1. k - (p - 1) \in 1..(Len(ll) - p) /\ p + (k - (p - 1)) = k + 1
      BY <1>2, <2>2
    <3>2. (s \o t)[k] = t[k - (p - 1)]
      BY <1>2, <1>4, <1>5, <2>2
    <3>3. QED
      BY <1>2, <1>5, <2>2, <3>1, <3>2
  <2>3. QED
    BY <1>2, <2>1, <2>2
<1>8. QED
  BY <1>1, <1>3, <1>6, <1>7 DEF p

\* The list without a file keeps what is known of the rest.
LEMMA OthersKept ==
  ASSUME FilesInv, NEW path \in File_
  PROVE  LET r == OthersThan(path)
         IN  /\ r \in Seq(Entry) /\ Known(r) /\ ByUse(r)
             /\ Len(r) = IF path \in Held THEN Len(ll) - 1 ELSE Len(ll)
             /\ \A i \in DOMAIN r : r[i].file # path /\ r[i].file \in Held
             /\ \A f \in Held \ {path} : \E i \in DOMAIN r : r[i].file = f
<1> DEFINE r == OthersThan(path)
           p == Place(path)
<1>0. ll \in Seq(Entry) /\ Known(ll) /\ ByUse(ll) /\ Len(ll) \in Nat /\ DOMAIN ll = 1..Len(ll)
  BY DEF FilesInv
<1>1. CASE path \notin Held
  <2>1. r = ll
    BY <1>1 DEF OthersThan
  <2>2. QED
    BY <1>0, <1>1, <2>1 DEF Held
<1>2. CASE path \in Held
  <2>1. /\ p \in DOMAIN ll /\ ll[p].file = path
        /\ r \in Seq(Entry) /\ Len(r) = Len(ll) - 1
        /\ \A k \in 1..(Len(ll) - 1) : /\ k < p => r[k] = ll[k]
                                       /\ k >= p => r[k] = ll[k + 1]
    BY <1>0, <1>2, OthersFacts
  <2> HIDE DEF r, p
  <2>2. DOMAIN r = 1..(Len(ll) - 1) /\ p \in 1..Len(ll)
    BY <1>0, <2>1
  <2>3. \A i, j \in DOMAIN ll : i < j => /\ ll[i].file # ll[j].file
                                         /\ ll[i].file \in since[ll[j].file]
    BY <1>0 DEF ByUse
  <2>4. \A k \in DOMAIN r : \E i \in DOMAIN ll :
          /\ r[k] = ll[i] /\ i # p /\ i >= k /\ i <= k + 1
          /\ k < p <=> i = k
    <3> TAKE k \in DOMAIN r
    <3>1. CASE k < p
      <4>1. k \in DOMAIN ll /\ r[k] = ll[k]
        BY <1>0, <2>1, <2>2, <3>1
      <4>2. QED
        BY <1>0, <2>2, <3>1, <4>1
    <3>2. CASE k >= p
      <4>1. k + 1 \in DOMAIN ll /\ r[k] = ll[k + 1]
        BY <1>0, <2>1, <2>2, <3>2
      <4>2. QED
        BY <1>0, <2>2, <3>2, <4>1
    <3>3. QED
      BY <1>0, <2>2, <3>1, <3>2
  <2>5. Known(r)
    BY <1>0, <2>4 DEF Known
  <2>6. ByUse(r)
    <3> SUFFICES ASSUME NEW k \in DOMAIN r, NEW l \in DOMAIN r, k < l
                 PROVE  r[k].file # r[l].file /\ r[k].file \in since[r[l].file]
      BY DEF ByUse
    <3>1. PICK i \in DOMAIN ll : r[k] = ll[i] /\ i >= k /\ i <= k + 1 /\ (k < p <=> i = k)
      BY <2>4
    <3>2. PICK j \in DOMAIN ll : r[l] = ll[j] /\ j >= l /\ j <= l + 1 /\ (l < p <=> j = l)
      BY <2>4
    <3>3. i < j
      BY <1>0, <2>2, <3>1, <3>2
    <3>4. QED
      BY <2>3, <3>1, <3>2, <3>3
  <2>7. \A k \in DOMAIN r : r[k].file # path /\ r[k].file \in Held
    <3> TAKE k \in DOMAIN r
    <3>1. PICK i \in DOMAIN ll : r[k] = ll[i] /\ i # p
      BY <2>4
    <3>2. i < p \/ p < i
      BY <1>0, <2>2, <3>1
    <3>3. ll[i].file # ll[p].file
      BY <2>1, <2>3, <3>2
    <3>4. QED
      BY <2>1, <3>1, <3>3 DEF Held
  <2>8. \A f \in Held \ {path} : \E k \in DOMAIN r : r[k].file = f
    <3> TAKE f \in Held \ {path}
    <3>1. PICK i \in DOMAIN ll : ll[i].file = f
      BY DEF Held
    <3>2. CASE i < p
      <4>1. i \in DOMAIN r /\ r[i] = ll[i]
        BY <1>0, <2>1, <2>2, <3>2
      <4>2. QED
        BY <3>1, <4>1
    <3>3. CASE p < i
      <4>1. i - 1 \in DOMAIN r /\ r[i - 1] = ll[i]
        <5>1. i - 1 \in 1..(Len(ll) - 1) /\ i - 1 >= p /\ i - 1 + 1 = i
          BY <1>0, <2>2, <3>3
        <5>2. QED
          BY <2>1, <2>2, <5>1
      <4>2. QED
        BY <3>1, <4>1
    <3>4. i # p
      BY <2>1, <3>1
    <3>5. QED
      BY <1>0, <2>2, <3>2, <3>3, <3>4
  <2>9. QED
    BY <1>2, <2>1, <2>5, <2>6, <2>7, <2>8 DEF r
<1>3. QED
  BY <1>1, <1>2

\* More than Cardinality(S) different things are not all in S.
LEMMA TooMany ==
  ASSUME NEW n \in Nat, NEW S, IsFiniteSet(S), NEW f \in [1..n -> S],
         \A i, j \in 1..n : i < j => f[i] # f[j]
  PROVE  Cardinality(S) >= n
<1>1. IsFiniteSet(1..n) /\ Cardinality(1..n) = n
  BY FS_Interval
<1>2. Cardinality(S) \in Nat
  BY FS_CardinalityType
<1>3. SUFFICES ASSUME Cardinality(S) < n PROVE FALSE
  BY <1>2
<1>4. PICK i, j \in 1..n : i # j /\ f[i] = f[j]
  BY <1>1, <1>3, FS_PigeonHole
<1>5. i < j \/ j < i
  BY <1>4
<1>6. QED
  BY <1>4, <1>5

LEMMA FrontFacts ==
  ASSUME NEW r \in Seq(Entry), NEW e \in Entry
  PROVE  LET t == <<e>> \o r
         IN  /\ t \in Seq(Entry) /\ Len(t) = Len(r) + 1 /\ t[1] = e
             /\ \A k \in 1..Len(r) : t[k + 1] = r[k]
<1>1. <<e>> \in Seq(Entry) /\ Len(<<e>>) = 1 /\ <<e>>[1] = e
  OBVIOUS
<1>2. PICK s \in Seq(Entry) : s = <<e>> /\ Len(s) = 1 /\ s[1] = e
  BY <1>1
<1>3. s \o r \in Seq(Entry) /\ Len(s \o r) = Len(s) + Len(r)
  OBVIOUS
<1>4. (s \o r)[1] = e
  BY <1>2
<1>5. \A k \in 1..Len(r) : (s \o r)[k + 1] = r[k]
  BY <1>2
<1>6. QED
  BY <1>2, <1>3, <1>4, <1>5

\* A file is used: its entry comes first, the others follow as they were, and
\* as many as fit are kept.
LEMMA FrontKept ==
  ASSUME FilesInv, NEW path \in File_, NEW e \in Entry, e.file = path, Use(path),
         DOMAIN sent' = DOMAIN sent \union {path}, sent'[path] = e,
         \A f \in DOMAIN sent : f # path => sent'[f] = sent[f],
         ll' = IF path \in Held THEN ToFront(e) ELSE Evicted(ToFront(e))
  PROVE  FilesInv'
<1> DEFINE r == OthersThan(path)
           t == ToFront(e)
<1>0. /\ ll \in Seq(Entry) /\ Len(ll) \in Nat /\ Len(ll) <= MaxFiles /\ MaxFiles \in Nat /\ MaxFiles > 0
      /\ since \in [DOMAIN sent -> SUBSET File_] /\ DOMAIN sent \subseteq File_
      /\ \A f \in DOMAIN sent : sent[f] \in Entry /\ sent[f].file = f /\ IsFiniteSet(since[f])
      /\ \A f \in DOMAIN sent :
           sent[f].left > 0 /\ Cardinality(since[f]) < MaxFiles => f \in Held
  BY FilesAssumption DEF FilesInv
<1>1. /\ r \in Seq(Entry) /\ Known(r) /\ ByUse(r)
      /\ Len(r) = IF path \in Held THEN Len(ll) - 1 ELSE Len(ll)
      /\ \A i \in DOMAIN r : r[i].file # path /\ r[i].file \in Held
      /\ \A f \in Held \ {path} : \E i \in DOMAIN r : r[i].file = f
  BY OthersKept
<1>2. t = <<e>> \o r
  BY DEF ToFront
<1> HIDE DEF r, t
<1>3. /\ t \in Seq(Entry) /\ Len(t) = Len(r) + 1 /\ t[1] = e
      /\ \A k \in 1..Len(r) : t[k + 1] = r[k]
  BY <1>1, <1>2, FrontFacts
<1>4. Len(r) \in Nat /\ DOMAIN r = 1..Len(r) /\ DOMAIN t = 1..(Len(r) + 1)
  BY <1>1, <1>3
<1>5. /\ ll' \in Seq(Entry) /\ Len(ll') = IF Len(t) > MaxFiles THEN MaxFiles ELSE Len(t)
      /\ \A i \in 1..Len(ll') : ll'[i] = t[i]
  <2>1. CASE path \in Held
    <3>1. ll' = t
      BY <2>1 DEF t
    <3>2. Len(t) <= MaxFiles
      BY <1>0, <1>1, <1>3, <2>1
    <3>3. QED
      BY <1>0, <1>3, <3>1, <3>2
  <2>2. CASE path \notin Held
    <3> DEFINE n == IF Len(t) > MaxFiles THEN MaxFiles ELSE Len(t)
    <3>1. ll' = SubSeq(t, 1, n)
      BY <2>2 DEF t, Evicted
    <3>2. n \in Nat /\ n <= Len(t)
      BY <1>0, <1>3, <1>4
    <3> HIDE DEF n
    <3>3. SubSeq(t, 1, n) \in Seq(Entry) /\ Len(SubSeq(t, 1, n)) = n
          /\ \A i \in 1..n : SubSeq(t, 1, n)[i] = t[i]
      BY <1>3, <3>2
    <3>4. QED
      BY <3>1, <3>3 DEF n
  <2>3. QED
    BY <2>1, <2>2
<1>6. Len(ll') \in Nat /\ Len(ll') <= MaxFiles /\ 1 <= Len(ll') /\ DOMAIN ll' = 1..Len(ll')
      /\ Len(ll') <= Len(t)
  BY <1>0, <1>3, <1>4, <1>5
<1>7. \A i \in DOMAIN ll' : \/ i = 1 /\ ll'[i] = e
                            \/ i - 1 \in DOMAIN r /\ ll'[i] = r[i - 1]
  <2> TAKE i \in DOMAIN ll'
  <2>1. CASE i = 1
    BY <1>3, <1>5, <1>6, <2>1
  <2>2. CASE i # 1
    <3>1. i - 1 \in 1..Len(r) /\ i - 1 + 1 = i
      BY <1>3, <1>4, <1>6, <2>2
    <3>2. QED
      BY <1>3, <1>4, <1>5, <1>6, <3>1
  <2>3. QED
    BY <2>1, <2>2
<1>8. /\ since' \in [DOMAIN sent' -> SUBSET File_] /\ DOMAIN sent' \subseteq File_
      /\ since'[path] = {}
      /\ \A f \in DOMAIN sent' : f # path => f \in DOMAIN sent /\ since'[f] = since[f] \union {path}
  BY <1>0 DEF Use
<1>9. \A f \in DOMAIN sent' : sent'[f] \in Entry /\ sent'[f].file = f /\ IsFiniteSet(since'[f])
  <2> TAKE f \in DOMAIN sent'
  <2>1. CASE f = path
    BY <1>8, <2>1, FS_EmptySet
  <2>2. CASE f # path
    <3>1. f \in DOMAIN sent /\ sent'[f] = sent[f] /\ since'[f] = since[f] \union {path}
      BY <1>8, <2>2
    <3>2. IsFiniteSet(since[f])
      BY <1>0, <3>1
    <3>3. IsFiniteSet(since[f] \union {path})
      BY <3>2, FS_AddElement
    <3>4. QED
      BY <1>0, <3>1, <3>3
  <2>3. QED
    BY <2>1, <2>2
<1>10. Known(ll)'
  <2>1. ASSUME NEW i \in DOMAIN ll' PROVE ll'[i].file \in DOMAIN sent' /\ ll'[i] = sent'[ll'[i].file]
    <3>1. CASE ll'[i] = e
      BY <3>1
    <3>2. CASE i - 1 \in DOMAIN r /\ ll'[i] = r[i - 1]
      <4>1. r[i - 1].file \in DOMAIN sent /\ r[i - 1] = sent[r[i - 1].file] /\ r[i - 1].file # path
        BY <1>1, <3>2 DEF Known
      <4>2. QED
        BY <3>2, <4>1
    <3>3. QED
      BY <1>7, <3>1, <3>2
  <2>2. QED
    BY <2>1 DEF Known
<1>11. ByUse(ll)'
  <2>1. ASSUME NEW i \in DOMAIN ll', NEW j \in DOMAIN ll', i < j
        PROVE  ll'[i].file # ll'[j].file /\ ll'[i].file \in since'[ll'[j].file]
    <3>1. j - 1 \in DOMAIN r /\ ll'[j] = r[j - 1]
      BY <1>6, <1>7, <2>1
    <3>2. /\ r[j - 1].file # path /\ r[j - 1].file \in DOMAIN sent
          /\ since'[r[j - 1].file] = since[r[j - 1].file] \union {path}
      BY <1>1, <1>8, <3>1 DEF Known
    <3>3. CASE ll'[i] = e
      BY <3>1, <3>2, <3>3
    <3>4. CASE i - 1 \in DOMAIN r /\ ll'[i] = r[i - 1]
      <4>1. i - 1 < j - 1
        BY <1>6, <2>1
      <4>2. r[i - 1].file # r[j - 1].file /\ r[i - 1].file \in since[r[j - 1].file]
        BY <1>1, <3>1, <3>4, <4>1 DEF ByUse
      <4>3. QED
        BY <3>1, <3>2, <3>4, <4>2
    <3>5. QED
      BY <1>7, <3>3, <3>4
  <2>2. QED
    BY <2>1 DEF ByUse
<1>12. ASSUME NEW f \in DOMAIN sent', sent'[f].left > 0, Cardinality(since'[f]) < MaxFiles
       PROVE  f \in Held'
  <2>1. CASE f = path
    BY <1>5, <1>6, <1>3, <2>1 DEF Held
  <2>2. CASE f # path /\ f \in Held
    <3>1. PICK k \in DOMAIN r : r[k].file = f
      BY <1>1, <2>2
    <3>2. CASE k + 1 \in DOMAIN ll'
      <4>1. ll'[k + 1] = r[k]
        BY <1>3, <1>4, <1>5, <1>6, <3>2
      <4>2. QED
        BY <3>1, <3>2, <4>1 DEF Held
    <3>3. CASE k + 1 \notin DOMAIN ll'
      <4>1. Len(ll') = MaxFiles /\ k >= MaxFiles /\ k \in Nat
        BY <1>0, <1>3, <1>4, <1>5, <1>6, <3>3
      <4> DEFINE g == [i \in 1..MaxFiles |-> ll'[i].file]
      <4>2. \A i \in 1..MaxFiles : ll'[i].file \in since'[f]
        <5> TAKE i \in 1..MaxFiles
        <5>1. since'[f] = since[f] \union {path}
          BY <1>8, <2>2
        <5>2. CASE ll'[i] = e
          BY <5>1, <5>2
        <5>3. CASE i - 1 \in DOMAIN r /\ ll'[i] = r[i - 1]
          <6>1. i - 1 < k
            BY <1>0, <4>1
          <6>2. r[i - 1].file \in since[r[k].file]
            BY <1>1, <5>3, <6>1 DEF ByUse
          <6>3. QED
            BY <3>1, <5>1, <5>3, <6>2
        <5>4. QED
          BY <1>6, <1>7, <4>1, <5>2, <5>3
      <4>3. g \in [1..MaxFiles -> since'[f]]
        BY <4>2
      <4>4. \A i, j \in 1..MaxFiles : i < j => g[i] # g[j]
        BY <1>6, <1>11, <4>1 DEF ByUse
      <4> HIDE DEF g
      <4>5. Cardinality(since'[f]) >= MaxFiles
        BY <1>0, <1>9, <4>3, <4>4, TooMany
      <4>6. Cardinality(since'[f]) \in Nat
        BY <1>9, FS_CardinalityType
      <4>7. QED
        BY <1>0, <1>12, <4>5, <4>6
    <3>4. QED
      BY <3>2, <3>3
  <2>3. CASE f # path /\ f \notin Held
    <3>1. f \in DOMAIN sent /\ since'[f] = since[f] \union {path} /\ sent'[f] = sent[f]
      BY <1>8, <2>3
    <3>2. ~ (Cardinality(since[f]) < MaxFiles)
      BY <1>0, <1>12, <2>3, <3>1
    <3>3. /\ Cardinality(since[f]) \in Nat
          /\ Cardinality(since'[f]) = Cardinality(since[f])
             \/ Cardinality(since'[f]) = Cardinality(since[f]) + 1
      <4>1. IsFiniteSet(since[f])
        BY <1>0, <3>1
      <4>2. Cardinality(since[f]) \in Nat
        BY <4>1, FS_CardinalityType
      <4>3. Cardinality(since[f] \union {path}) =
              IF path \in since[f] THEN Cardinality(since[f]) ELSE Cardinality(since[f]) + 1
        BY <4>1, FS_AddElement
      <4>4. QED
        BY <3>1, <4>2, <4>3
    <3>4. QED
      BY <1>0, <1>12, <3>2, <3>3
  <2>4. QED
    BY <2>1, <2>2, <2>3
<1>13. QED
  BY <1>5, <1>6, <1>8, <1>9, <1>10, <1>11, <1>12 DEF FilesInv

LEMMA FilesInvNext == FilesInv /\ [FilesNext]_fileVars => FilesInv'
<1> SUFFICES ASSUME FilesInv, [FilesNext]_fileVars PROVE FilesInv'
  OBVIOUS
<1>0. /\ ll \in Seq(Entry) /\ Len(ll) \in Nat /\ Len(ll) <= MaxFiles /\ DOMAIN ll = 1..Len(ll)
      /\ since \in [DOMAIN sent -> SUBSET File_] /\ DOMAIN sent \subseteq File_
      /\ \A f \in DOMAIN sent : sent[f] \in Entry /\ sent[f].file = f /\ IsFiniteSet(since[f])
      /\ \A f \in DOMAIN sent :
           sent[f].left > 0 /\ Cardinality(since[f]) < MaxFiles => f \in Held
      /\ MaxFiles \in Nat /\ FileTTL \in Nat /\ FileTTL > 0
  BY FilesAssumption DEF FilesInv
<1>1. ASSUME NEW path \in File_, NEW content \in Text_, Put(path, content) PROVE FilesInv'
  <2> DEFINE e == [file |-> path, content |-> content, left |-> FileTTL]
  <2>1. e \in Entry /\ e.file = path
    BY <1>0 DEF Entry
  <2>2. /\ ll' = IF path \in Held THEN ToFront(e) ELSE Evicted(ToFront(e))
        /\ sent' = [f \in DOMAIN sent \union {path} |-> IF f = path THEN e ELSE sent[f]]
        /\ Use(path)
    BY <1>1 DEF Put
  <2> HIDE DEF e
  <2>3. /\ DOMAIN sent' = DOMAIN sent \union {path} /\ sent'[path] = e
        /\ \A f \in DOMAIN sent : f # path => sent'[f] = sent[f]
    BY <2>2
  <2>4. QED
    BY <2>1, <2>2, <2>3, FrontKept
<1>2. ASSUME NEW path \in File_, Get(path) PROVE FilesInv'
  <2>1. CASE path \in Held /\ ll' = ToFront(ll[Place(path)]) /\ Use(path) /\ UNCHANGED sent
    <3> DEFINE e == ll[Place(path)]
    <3>1. Place(path) \in DOMAIN ll /\ e.file = path
      BY <1>0, <2>1, OthersFacts
    <3>2. e \in Entry /\ path \in DOMAIN sent /\ e = sent[path]
      BY <1>0, <3>1 DEF FilesInv, Known
    <3>3. ll' = IF path \in Held THEN ToFront(e) ELSE Evicted(ToFront(e))
      BY <2>1
    <3> HIDE DEF e
    <3>4. /\ DOMAIN sent' = DOMAIN sent \union {path} /\ sent'[path] = e
          /\ \A f \in DOMAIN sent : f # path => sent'[f] = sent[f]
      BY <2>1, <3>2
    <3>5. QED
      BY <2>1, <3>1, <3>2, <3>3, <3>4, FrontKept
  <2>2. CASE /\ path \in Held /\ ll[Place(path)].left = 0
             /\ ll' = OthersThan(path) /\ UNCHANGED <<since, sent>>
    <3>1. /\ ll' \in Seq(Entry) /\ Known(ll)' /\ ByUse(ll)' /\ Len(ll') = Len(ll) - 1
          /\ \A f \in Held \ {path} : \E i \in DOMAIN ll' : ll'[i].file = f
      <4> DEFINE r == OthersThan(path)
      <4>1. /\ r \in Seq(Entry) /\ Known(r) /\ ByUse(r) /\ Len(r) = Len(ll) - 1
            /\ \A f \in Held \ {path} : \E i \in DOMAIN r : r[i].file = f
        BY <2>2, OthersKept
      <4> HIDE DEF r
      <4>2. ll' = r /\ since' = since /\ sent' = sent
        BY <2>2 DEF r
      <4>3. QED
        BY <4>1, <4>2 DEF Known, ByUse
    <3>2. Place(path) \in DOMAIN ll /\ ll[Place(path)].file = path
      BY <1>0, <2>2, OthersFacts
    <3>3. sent[path].left = 0
      BY <2>2, <3>2 DEF FilesInv, Known
    <3>4. Held \ {path} \subseteq Held'
      BY <3>1 DEF Held
    <3>5. \A f \in DOMAIN sent : sent[f].left > 0 => f # path
      BY <3>3
    <3>6. QED
      BY <1>0, <2>2, <3>1, <3>4, <3>5 DEF FilesInv
  <2>3. CASE UNCHANGED <<ll, since, sent>>
    BY <2>3 DEF FilesInv, Known, ByUse, Held
  <2>4. QED
    BY <1>2, <2>1, <2>2, <2>3 DEF Get
<1>3. CASE FilesTick
  <2>1. /\ ll' = [i \in DOMAIN ll |-> Older(ll[i])]
        /\ sent' = [f \in DOMAIN sent |-> Older(sent[f])] /\ since' = since
    BY <1>3 DEF FilesTick
  <2>2. \A e \in Entry : /\ Older(e) \in Entry /\ Older(e).file = e.file
                         /\ Older(e).left > 0 => e.left > 0
    <3> TAKE e \in Entry
    <3> DEFINE n == IF e.left = 0 THEN 0 ELSE e.left - 1
    <3>1. e.left \in 0..FileTTL
      BY DEF Entry
    <3>2. n \in 0..FileTTL /\ (n > 0 => e.left > 0)
      BY <1>0, <3>1
    <3>3. Older(e) = [e EXCEPT !.left = n]
      BY DEF Older
    <3> HIDE DEF n
    <3>4. Older(e) \in Entry /\ Older(e).file = e.file /\ Older(e).left = n
      BY <3>2, <3>3 DEF Entry
    <3>5. QED
      BY <3>2, <3>4
  <2>3. \A i \in DOMAIN ll : ll[i] \in Entry
    BY <1>0
  <2>4. ll' \in Seq(Entry) /\ Len(ll') = Len(ll) /\ DOMAIN ll' = DOMAIN ll
    BY <1>0, <2>1, <2>2, <2>3
  <2>5. Known(ll)'
    BY <2>1, <2>2, <2>3 DEF FilesInv, Known
  <2>6. ByUse(ll)'
    BY <2>1, <2>2, <2>3 DEF FilesInv, ByUse
  <2>7. Held' = Held
    BY <2>1, <2>2, <2>3 DEF Held
  <2>8. \A f \in DOMAIN sent' : /\ f \in DOMAIN sent /\ sent'[f] \in Entry /\ sent'[f].file = f
                                /\ sent'[f].left > 0 => sent[f].left > 0
    BY <1>0, <2>1, <2>2
  <2>9. DOMAIN sent' = DOMAIN sent
    BY <2>1
  <2>10. QED
    BY <1>0, <2>1, <2>4, <2>5, <2>6, <2>7, <2>8, <2>9 DEF FilesInv
<1>4. CASE UNCHANGED fileVars
  BY <1>4 DEF fileVars, FilesInv, Known, ByUse, Held
<1>5. ASSUME NEW path \in File_, NEW content \in Text_ \union {Placeholder}, FileBlock(path, content)
      PROVE  FilesInv'
  <2>1. CASE IsUnchangedHint(content)
    BY <1>2, <1>5, <2>1 DEF FileBlock
  <2>2. CASE ~ IsUnchangedHint(content)
    <3>1. content \in Text_
      BY <2>2 DEF IsUnchangedHint
    <3>2. QED
      BY <1>1, <1>5, <2>2, <3>1 DEF FileBlock
  <2>3. QED
    BY <2>1, <2>2
<1>6. QED
  BY <1>3, <1>4, <1>5 DEF FilesNext

\* Which files were taken for hints is of the type it should be.
LEMMA NewerTyped == FilesSpec => [](newer \subseteq File_)
<1>1. FilesInit => newer \subseteq File_
  BY DEF FilesInit
<1>2. newer \subseteq File_ /\ [FilesNext]_fileVars => (newer \subseteq File_)'
  <2> SUFFICES ASSUME newer \subseteq File_, [FilesNext]_fileVars PROVE newer' \subseteq File_
    OBVIOUS
  <2>1. ASSUME NEW path \in File_, NEW content \in Text_ \union {Placeholder}, FileBlock(path, content)
        PROVE  newer' \subseteq newer \union {path}
    BY <2>1 DEF FileBlock
  <2>2. CASE FilesTick \/ UNCHANGED fileVars
    BY <2>2 DEF FilesTick, fileVars
  <2>3. QED
    BY <2>1, <2>2 DEF FilesNext
<1>3. QED
  BY <1>1, <1>2, PTL DEF FilesSpec


\* chat.go:1715: a file's hint expands to the content sent last for it that was
\* not taken for a hint, and does so while that has not expired and fewer others
\* were used since than the cache holds, for any files, contents (hints or not),
\* capacity and expiry.
THEOREM HintsExpandEver == FilesSpec => []HintsExpandToLast
<1>1. FilesInv => HintsExpandToLast
  BY DEF FilesInv, Known, HintsExpandToLast, ToSet
<1>2. QED
  BY <1>1, FilesInvInit, FilesInvNext, PTL DEF FilesSpec

-----------------------------------------------------------------------------
\* Lists.  The loop that leaves one value out keeps all the others: a loop over
\* a list has its result after every number of rounds.
Members(list) == {list[i] : i \in DOMAIN list}

LEMMA AppendMembers ==
  ASSUME NEW T, NEW s \in Seq(T), NEW x \in T
  PROVE  Append(s, x) \in Seq(T) /\ Members(Append(s, x)) = Members(s) \union {x}
<1>0. Append(s, x) \in Seq(T)
  OBVIOUS
<1>1. PICK t \in Seq(T) : t = Append(s, x)
  BY <1>0
<1>2. /\ Len(s) \in Nat /\ DOMAIN s = 1..Len(s) /\ DOMAIN t = 1..(Len(s) + 1)
      /\ t[Len(s) + 1] = x /\ \A i \in 1..Len(s) : t[i] = s[i]
  BY <1>1
<1>3. \A i \in DOMAIN t : i \in DOMAIN s \/ i = Len(s) + 1
  BY <1>2
<1>4. Len(s) + 1 \in DOMAIN t /\ DOMAIN s \subseteq DOMAIN t
  BY <1>2
<1>5. \A y : y \in Members(t) <=> y \in Members(s) \/ y = x
  BY <1>2, <1>3, <1>4 DEF Members
<1>6. QED
  BY <1>1, <1>5

LEMMA WithoutFacts ==
  ASSUME NEW T, NEW list \in Seq(T), NEW gone
  PROVE  /\ Without(list, gone) \in Seq(T)
         /\ Members(Without(list, gone)) = Members(list) \ gone
<1> DEFINE n == Len(list)
           Round(s, i) == IF list[i] \in gone THEN s ELSE Append(s, list[i])
           Loop(f) == [i \in 0..n |-> IF i = 0 THEN <<>>
                                      ELSE IF list[i] \in gone THEN f[i - 1] ELSE Append(f[i - 1], list[i])]
           kept == CHOOSE f : f = Loop(f)
           step == [i \in 1..n |-> [s \in Seq(T) |-> Round(s, i)]]
<1>1. Without(list, gone) = kept[n]
  BY DEF Without
<1>2. n \in Nat /\ \A i \in 1..n : list[i] \in T
  OBVIOUS
<1>3. step \in [1..n -> [Seq(T) -> Seq(T)]]
  BY <1>2
<1>4. <<>> \in Seq(T)
  OBVIOUS
<1>n. Members(list) = {list[j] : j \in 1..n}
  BY DEF Members
<1>5. \A i \in 1..n : \A s \in Seq(T) : step[i][s] = Round(s, i)
  OBVIOUS
<1> HIDE DEF step, n
<1>6. PICK f : Results(f, n, step, <<>>, Seq(T))
  BY <1>2, <1>3, <1>4, LoopRuns
<1>7. \A i \in 1..n : f[i] = Round(f[i - 1], i)
  <2> TAKE i \in 1..n
  <2>1. i - 1 \in 0..n
    BY <1>2
  <2>2. f[i - 1] \in Seq(T) /\ f[i] = step[i][f[i - 1]]
    BY <1>6, <2>1 DEF Results
  <2>3. QED
    BY <1>5, <2>2
<1>8. \A i \in 0..n : i # 0 => i \in 1..n
  BY <1>2
<1>9. f = Loop(f)
  BY <1>6, <1>7, <1>8 DEF Results
<1>10. kept = Loop(kept)
  BY <1>9
<1> HIDE DEF kept
<1>11. kept[0] = <<>> /\ \A i \in 1..n : kept[i] = Round(kept[i - 1], i)
  <2>1. 0 \in 0..n /\ \A i \in 1..n : i \in 0..n /\ i # 0
    BY <1>2
  <2>2. \A i \in 0..n : kept[i] = IF i = 0 THEN <<>> ELSE Round(kept[i - 1], i)
    BY <1>10
  <2>3. QED
    BY <2>1, <2>2
<1> DEFINE Good(i) == /\ kept[i] \in Seq(T)
                      /\ Members(kept[i]) = {list[j] : j \in 1..i} \ gone
           Astray == {i \in 0..n : ~ Good(i)}
<1>12. Astray = {}
  <2>1. SUFFICES ASSUME Astray # {} PROVE FALSE
    OBVIOUS
  <2>2. Astray \subseteq Nat
    BY <1>2
  <2>3. PICK i \in Astray : \A j \in Astray : ~ (<<j, i>> \in OpToRel(<, Nat))
    BY <2>1, <2>2, WFMin, NatLessThanWellFounded, Zenon
  <2>4. \A j \in Astray : ~ (j < i)
    BY <2>2, <2>3 DEF OpToRel
  <2>5. i \in 0..n /\ i \in Nat /\ ~ Good(i)
    BY <1>2
  <2>6. CASE i = 0
    <3>1. kept[0] \in Seq(T) /\ Members(kept[0]) = {}
      BY <1>11 DEF Members
    <3>2. {list[j] : j \in 1..0} = {}
      OBVIOUS
    <3>3. QED
      BY <2>5, <2>6, <3>1, <3>2
  <2>7. CASE i # 0
    <3>1. i \in 1..n /\ i - 1 \in 0..n /\ i - 1 < i
      BY <1>2, <2>5, <2>7
    <3>2. Good(i - 1)
      BY <2>4, <3>1
    <3> DEFINE s == kept[i - 1]
    <3>3. s \in Seq(T) /\ Members(s) = {list[j] : j \in 1..(i - 1)} \ gone /\ kept[i] = Round(s, i)
      BY <1>11, <3>1, <3>2
    <3> HIDE DEF s
    <3>4. {list[j] : j \in 1..i} = {list[j] : j \in 1..(i - 1)} \union {list[i]}
      <4>1. 1..i = 1..(i - 1) \union {i}
        BY <2>5, <2>7
      <4>2. QED
        BY <4>1
    <3>5. CASE list[i] \in gone
      BY <2>5, <3>3, <3>4, <3>5
    <3>6. CASE list[i] \notin gone
      <4>1. kept[i] = Append(s, list[i]) /\ list[i] \in T
        BY <1>2, <3>1, <3>3, <3>6
      <4>2. Append(s, list[i]) \in Seq(T) /\ Members(Append(s, list[i])) = Members(s) \union {list[i]}
        BY <3>3, <4>1, AppendMembers
      <4>3. QED
        BY <2>5, <3>3, <3>4, <3>6, <4>1, <4>2
    <3>7. QED
      BY <3>5, <3>6
  <2>8. QED
    BY <2>6, <2>7
<1>13. Good(n)
  <2>1. n \in 0..n
    BY <1>2
  <2>2. \A i \in 0..n : Good(i)
    BY <1>12
  <2> HIDE DEF Good
  <2>3. QED
    BY <2>1, <2>2
<1>14. QED
  BY <1>1, <1>13, <1>n

-----------------------------------------------------------------------------
\* Types.  The configuration stays a record of two lists and the settings, and
\* each request stays at one of its steps.
Pcs == {"idle", "store", "pool", "set", "keys", "marshal", "open", "write", "answer"}
Ops == {"none", "add", "remove", "create", "delete"}
Edit == [pc: Pcs, op: Ops, token: Token, key: Key, list: Seq(Token), keys: Seq(Key), snap: Config]

LEMMA DefaultFacts == Default \in Config /\ Default.tokens = <<>> /\ Default.keys = <<>>
<1> DEFINE D == [tokens: {<<>>}, keys: {<<>>}, settings: Setting]
<1>1. PICK v : v \in Setting
  BY EnvAssumption
<1>2. [tokens |-> <<>>, keys |-> <<>>, settings |-> v] \in D
  BY <1>1
<1>3. Default \in D
  BY <1>2 DEF Default
<1>4. Default.tokens = <<>> /\ Default.keys = <<>> /\ Default.settings \in Setting
      /\ Default = [tokens |-> Default.tokens, keys |-> Default.keys, settings |-> Default.settings]
  BY <1>3
<1>5. <<>> \in Seq(Token) /\ <<>> \in Seq(Key)
  OBVIOUS
<1>6. QED
  BY <1>4, <1>5 DEF Config

LEMMA IdleFacts == Idle \in Edit /\ Idle.pc = "idle"
<1> DEFINE t == CHOOSE t \in Token : TRUE
           k == CHOOSE k \in Key : TRUE
<1>1. t \in Token /\ k \in Key
  BY EnvAssumption
<1>2. <<>> \in Seq(Token) /\ <<>> \in Seq(Key) /\ "idle" \in Pcs /\ "none" \in Ops
  BY DEF Pcs, Ops
<1>3. Idle = [pc |-> "idle", op |-> "none", token |-> t, key |-> k,
              list |-> <<>>, keys |-> <<>>, snap |-> Default]
  BY DEF Idle
<1> HIDE DEF t, k
<1>4. QED
  BY <1>1, <1>2, <1>3, DefaultFacts DEF Edit

\* The lists a process starts with: what was saved, and what the environment adds.
Saved(d) == IF d.state = "saved" THEN d.data.tokens ELSE <<>>

LEMMA ConcatMembers ==
  ASSUME NEW T, NEW s \in Seq(T), NEW t \in Seq(T)
  PROVE  s \o t \in Seq(T) /\ Members(s \o t) = Members(s) \union Members(t)
<1>0. s \o t \in Seq(T)
  OBVIOUS
<1>1. PICK u \in Seq(T) : u = s \o t
  BY <1>0
<1>2. Len(s) \in Nat /\ Len(t) \in Nat /\ DOMAIN s = 1..Len(s) /\ DOMAIN t = 1..Len(t)
  OBVIOUS
<1>3. DOMAIN u = 1..(Len(s) + Len(t))
  BY <1>1, <1>2
<1>4. \A i \in 1..Len(s) : u[i] = s[i]
  BY <1>1, <1>2
<1>5. \A i \in 1..Len(t) : Len(s) + i \in DOMAIN u /\ u[Len(s) + i] = t[i]
  BY <1>1, <1>2, <1>3
<1>6. \A i \in DOMAIN u : i \in 1..Len(s) \/ (i - Len(s) \in 1..Len(t) /\ u[i] = t[i - Len(s)])
  <2> TAKE i \in DOMAIN u
  <2>0. i \in Nat /\ 1 <= i /\ i <= Len(s) + Len(t)
    BY <1>2, <1>3
  <2>1. CASE i <= Len(s)
    BY <1>2, <2>0, <2>1
  <2>2. CASE ~ (i <= Len(s))
    <3>1. i - Len(s) \in 1..Len(t) /\ Len(s) + (i - Len(s)) = i
      BY <1>2, <1>3, <2>2
    <3>2. QED
      BY <1>5, <3>1
  <2>3. QED
    BY <2>1, <2>2
<1>7. Members(u) = Members(s) \union Members(t)
  <2>1. 1..Len(s) \subseteq DOMAIN u
    BY <1>2, <1>3
  <2>2. Members(s) \subseteq Members(u)
    BY <1>2, <1>4, <2>1 DEF Members
  <2>3. Members(t) \subseteq Members(u)
    BY <1>2, <1>5 DEF Members
  <2>4. ASSUME NEW i \in DOMAIN u PROVE u[i] \in Members(s) \union Members(t)
    BY <1>2, <1>4, <1>6 DEF Members
  <2>5. QED
    BY <2>2, <2>3, <2>4 DEF Members
<1>8. QED
  BY <1>1, <1>7

LEMMA LoadFacts ==
  ASSUME NEW d \in [state: {"absent", "saved", "torn"}, data: Config]
  PROVE  /\ Load(d) \in Config
         /\ Members(Load(d).tokens) = Members(Saved(d)) \union Members(EnvTokens)
<1> DEFINE c == IF d.state = "saved" THEN d.data ELSE Default
           ts == c.tokens \o EnvTokens
           ks == IF EnvKeys = <<>> THEN c.keys ELSE EnvKeys
<1>1. c \in Config
  BY DefaultFacts
<1>2. c.tokens = Saved(d)
  BY DefaultFacts DEF Saved
<1>3. c.tokens \in Seq(Token) /\ c.keys \in Seq(Key) /\ c.settings \in Setting
      /\ c = [tokens |-> c.tokens, keys |-> c.keys, settings |-> c.settings]
  BY <1>1 DEF Config
<1>4. Load(d) = [c EXCEPT !.tokens = ts, !.keys = ks]
  BY DEF Load
<1>5. ts \in Seq(Token) /\ Members(ts) = Members(c.tokens) \union Members(EnvTokens)
  BY <1>3, EnvAssumption, ConcatMembers
<1>6. ks \in Seq(Key)
  BY <1>3, EnvAssumption
<1> HIDE DEF c, ts, ks
<1>7. Load(d) = [tokens |-> ts, keys |-> ks, settings |-> c.settings]
  BY <1>3, <1>4
<1>8. Load(d) \in Config /\ Load(d).tokens = ts
  BY <1>3, <1>5, <1>6, <1>7 DEF Config
<1>9. QED
  BY <1>2, <1>5, <1>8

LEMMA TypedAre ==
  AdminTypeOK <=>
    /\ up \in BOOLEAN /\ config \in Config /\ pool \in Seq(Token)
    /\ disk \in [state: {"absent", "saved", "torn"}, data: Config]
    /\ edit \in [Admins -> Edit] /\ edits \in 0..MaxEdits
    /\ acked \in [added: SUBSET Token, removed: SUBSET Token,
                  revoked: SUBSET Key, alone: BOOLEAN, saved: BOOLEAN]
BY DEF AdminTypeOK, Edit, Pcs, Ops

LEMMA TypesInit == AdminInit => AdminTypeOK
<1> SUFFICES ASSUME AdminInit PROVE AdminTypeOK
  OBVIOUS
<1>1. disk \in [state: {"absent", "saved", "torn"}, data: Config]
  BY DefaultFacts DEF AdminInit
<1>2. config \in Config
  BY <1>1, LoadFacts DEF AdminInit
<1>3. pool \in Seq(Token)
  BY <1>2 DEF AdminInit, Config
<1>4. edit \in [Admins -> Edit]
  BY IdleFacts DEF AdminInit
<1>5. edits \in 0..MaxEdits
  BY EnvAssumption DEF AdminInit
<1>6. acked \in [added: SUBSET Token, removed: SUBSET Token,
                 revoked: SUBSET Key, alone: BOOLEAN, saved: BOOLEAN]
  BY DEF AdminInit
<1>7. up \in BOOLEAN
  BY DEF AdminInit
<1>8. QED
  BY <1>1, <1>2, <1>3, <1>4, <1>5, <1>6, <1>7, TypedAre

LEMMA EditTyped ==
  ASSUME NEW e \in Edit
  PROVE  /\ e.pc \in Pcs /\ e.op \in Ops /\ e.token \in Token /\ e.key \in Key
         /\ e.list \in Seq(Token) /\ e.keys \in Seq(Key) /\ e.snap \in Config
         /\ \A pc \in Pcs : [e EXCEPT !.pc = pc] \in Edit
         /\ \A list \in Seq(Token) : [e EXCEPT !.list = list] \in Edit
         /\ \A c \in Config : [e EXCEPT !.snap = c] \in Edit
<1>1. /\ e.pc \in Pcs /\ e.op \in Ops /\ e.token \in Token /\ e.key \in Key
      /\ e.list \in Seq(Token) /\ e.keys \in Seq(Key) /\ e.snap \in Config
  BY DEF Edit
<1>2. \A pc \in Pcs : [e EXCEPT !.pc = pc] \in Edit
  BY DEF Edit
<1>3. \A list \in Seq(Token) : [e EXCEPT !.list = list] \in Edit
  BY DEF Edit
<1>4. \A c \in Config : [e EXCEPT !.snap = c] \in Edit
  BY DEF Edit
<1>5. QED
  BY <1>1, <1>2, <1>3, <1>4

-----------------------------------------------------------------------------
\* What the answers promised holds of a list, and the edit under way has had
\* its effect on a list.
Keeps(list) == /\ acked.added \subseteq Members(list)
              /\ acked.removed \intersect Members(list) \subseteq Members(EnvTokens)

Done(e, list) == IF e.op = "add" THEN e.token \in Members(list)
                 ELSE e.token \in Members(list) => e.token \in Members(EnvTokens)

\* What the request at a has computed, stored and written so far keeps the
\* promises and carries out the edit.
EditHolds(a) ==
  /\ edit[a].pc = "store" => Keeps(edit[a].list) /\ Done(edit[a], edit[a].list)
  /\ edit[a].pc \in {"pool", "set", "marshal", "open", "write", "answer"}
       => Done(edit[a], config.tokens)
  /\ edit[a].pc \in {"open", "write"} => edit[a].snap.tokens = config.tokens
  /\ edit[a].pc = "answer" /\ disk.state # "torn" => Done(edit[a], Load(disk).tokens)

ListsHold(a) ==
  /\ up /\ edit[a].pc \notin {"pool", "set"} => pool = config.tokens
  /\ edit[a].pc = "set" => edit[a].list = config.tokens
  /\ edit[a].pc = "keys" => /\ acked.revoked \intersect Members(edit[a].keys) = {}
                            /\ edit[a].op = "delete" => edit[a].key \notin Members(edit[a].keys)

\* The promises hold of the configuration and of the one a restart would load.
PromisesHold == /\ up => Keeps(config.tokens)
                /\ disk.state # "torn" => Keeps(Load(disk).tokens)

AdminInv ==
  /\ AdminTypeOK
  /\ ~ up => Quiet /\ acked.revoked = {}
  /\ acked.alone =>
       /\ \A a, b \in Admins : edit[a].pc # "idle" /\ edit[b].pc # "idle" => a = b
       /\ Quiet /\ up => pool = config.tokens
       /\ \A a \in Admins : edit[a].pc # "idle" => ListsHold(a)
       /\ acked.revoked \intersect Members(config.keys) = {}
       /\ acked.saved => PromisesHold /\ \A a \in Admins : EditHolds(a)

LEMMA AdminInvInit == AdminInit => AdminInv
<1> SUFFICES ASSUME AdminInit PROVE AdminInv
  OBVIOUS
<1>1. /\ up = TRUE /\ pool = config.tokens /\ edit = [a \in Admins |-> Idle]
      /\ acked = [added |-> {}, removed |-> {}, revoked |-> {}, alone |-> TRUE, saved |-> TRUE]
  BY DEF AdminInit
<1>2. \A a \in Admins : edit[a].pc = "idle"
  BY <1>1, IdleFacts
<1>3. PromisesHold
  BY <1>1 DEF PromisesHold, Keeps
<1>4. \A a \in Admins : EditHolds(a)
  BY <1>2 DEF EditHolds
<1>5. QED
  BY <1>1, <1>2, <1>3, <1>4, TypesInit DEF AdminInv

\* A step of the request at a, from r' on: as long as edits do not overlap the
\* others are idle, and what they would have to keep is nothing.
LEMMA StepHolds ==
  ASSUME AdminInv, NEW a \in Admins, NEW r \in Edit, edit' = [edit EXCEPT ![a] = r],
         AdminTypeOK', up, up',
         acked'.alone => acked.alone /\ (edit[a].pc = "idle" => Quiet),
         acked'.alone =>
           /\ ListsHold(a)'
           /\ acked'.revoked \intersect Members(config'.keys) = {}
           /\ acked'.saved => PromisesHold' /\ EditHolds(a)'
  PROVE  AdminInv'
<1>1. edit \in [Admins -> Edit] /\ edit'[a] = r /\ \A b \in Admins : b # a => edit'[b] = edit[b]
  BY TypedAre DEF AdminInv
<1>2. SUFFICES ASSUME acked'.alone
               PROVE  /\ \A b, c \in Admins : edit'[b].pc # "idle" /\ edit'[c].pc # "idle" => b = c
                      /\ Quiet' /\ up' => pool' = config'.tokens
                      /\ \A b \in Admins : edit'[b].pc # "idle" => ListsHold(b)'
                      /\ acked'.revoked \intersect Members(config'.keys) = {}
                      /\ acked'.saved => PromisesHold' /\ \A b \in Admins : EditHolds(b)'
  BY DEF AdminInv
<1>3. \A b \in Admins : b # a => edit[b].pc = "idle" /\ edit'[b].pc = "idle"
  BY <1>1, <1>2 DEF AdminInv, Quiet
<1>4. \A b \in Admins : b # a => EditHolds(b)'
  BY <1>3 DEF EditHolds
<1>5. Quiet' /\ up' => pool' = config'.tokens
  BY <1>2 DEF Quiet, ListsHold
<1>6. QED
  BY <1>2, <1>3, <1>4, <1>5

\* Moving on without touching the rest of one's record.
LEMMA GotoIs ==
  ASSUME AdminTypeOK, NEW a \in Admins, NEW pc \in Pcs, Goto(a, pc)
  PROVE  \E r \in Edit : /\ edit' = [edit EXCEPT ![a] = r] /\ edit'[a] = r
                         /\ r = [edit[a] EXCEPT !.pc = pc] /\ edit' \in [Admins -> Edit]
<1> DEFINE r == [edit[a] EXCEPT !.pc = pc]
<1>1. edit \in [Admins -> Edit]
  BY TypedAre
<1>2. edit[a] \in Edit
  BY <1>1
<1>3. r \in Edit
  BY <1>2, EditTyped
<1>4. edit' = [edit EXCEPT ![a] = r]
  BY DEF Goto
<1> HIDE DEF r
<1>5. edit'[a] = r /\ edit' \in [Admins -> Edit]
  BY <1>1, <1>3, <1>4
<1>6. QED
  BY <1>3, <1>4, <1>5 DEF r

LEMMA FieldsKept ==
  ASSUME NEW e \in Edit, NEW pc, NEW r, r = [e EXCEPT !.pc = pc]
  PROVE  /\ r.pc = pc /\ r.op = e.op /\ r.token = e.token /\ r.key = e.key
         /\ r.list = e.list /\ r.keys = e.keys /\ r.snap = e.snap
BY DEF Edit

\* A new edit: nothing is promised of its token or key any more.
LEMMA BegunFacts ==
  ASSUME AdminTypeOK, NEW a \in Admins, NEW r \in Edit, edit' = [edit EXCEPT ![a] = r],
         OneMore, UNCHANGED <<up, config, pool, disk>>,
         acked' \in [added: SUBSET Token, removed: SUBSET Token,
                     revoked: SUBSET Key, alone: BOOLEAN, saved: BOOLEAN]
  PROVE  AdminTypeOK' /\ edit'[a] = r
<1>1. edit' \in [Admins -> Edit] /\ edit'[a] = r
  BY TypedAre
<1>2. edits' \in 0..MaxEdits
  BY TypedAre, EnvAssumption DEF OneMore
<1>3. up' \in BOOLEAN /\ config' \in Config /\ pool' \in Seq(Token)
      /\ disk' \in [state: {"absent", "saved", "torn"}, data: Config]
  BY TypedAre
<1>4. QED
  BY <1>1, <1>2, <1>3 DEF AdminTypeOK, Edit, Pcs, Ops

LEMMA AckedIs ==
  ASSUME AdminTypeOK
  PROVE  /\ acked.added \in SUBSET Token /\ acked.removed \in SUBSET Token
         /\ acked.revoked \in SUBSET Key /\ acked.alone \in BOOLEAN /\ acked.saved \in BOOLEAN
         /\ acked = [added |-> acked.added, removed |-> acked.removed, revoked |-> acked.revoked,
                     alone |-> acked.alone, saved |-> acked.saved]
BY TypedAre

LEMMA UndecidedIs ==
  ASSUME AdminTypeOK, NEW t
  PROVE  LET n == Undecided(t)
         IN  /\ n \in [added: SUBSET Token, removed: SUBSET Token,
                       revoked: SUBSET Key, alone: BOOLEAN, saved: BOOLEAN]
             /\ n.added = acked.added \ {t} /\ n.removed = acked.removed \ {t}
             /\ n.revoked = acked.revoked /\ n.saved = acked.saved
             /\ n.alone = (acked.alone /\ Quiet)
<1> DEFINE q == acked.alone /\ Quiet
           A == acked.added \ {t}
           R == acked.removed \ {t}
<1>1. q \in BOOLEAN
  OBVIOUS
<1>2. A \in SUBSET Token /\ R \in SUBSET Token
  BY AckedIs
<1>3. Undecided(t) = [acked EXCEPT !.added = A, !.removed = R, !.alone = q]
  BY DEF Undecided
<1> HIDE DEF q, A, R
<1>4. Undecided(t) = [added |-> A, removed |-> R, revoked |-> acked.revoked,
                      alone |-> q, saved |-> acked.saved]
  BY <1>3, AckedIs
<1>5. Undecided(t) \in [added: SUBSET Token, removed: SUBSET Token,
                        revoked: SUBSET Key, alone: BOOLEAN, saved: BOOLEAN]
  BY <1>1, <1>2, <1>4, AckedIs
<1>6. /\ Undecided(t).added = A /\ Undecided(t).removed = R
      /\ Undecided(t).revoked = acked.revoked /\ Undecided(t).saved = acked.saved
      /\ Undecided(t).alone = q
  BY <1>4
<1>7. QED
  BY <1>5, <1>6 DEF q, A, R

\* A new list differs from the configured one in the edit's token only.
LEMMA BeginHolds ==
  ASSUME AdminInv, NEW a \in Admins, NEW op \in {"add", "remove"}, NEW t \in Token,
         NEW list \in Seq(Token), Begin(a, op, t, list),
         Members(list) \ {t} = Members(config.tokens) \ {t},
         op = "add" <=> t \in Members(list)
  PROVE  AdminInv'
<1> DEFINE i == Idle
           r == [i EXCEPT !.pc = "store", !.op = op, !.token = t, !.list = list]
<1>1. i \in Edit /\ "store" \in Pcs /\ op \in Ops
  BY IdleFacts DEF Pcs, Ops
<1>3. /\ edit' = [edit EXCEPT ![a] = r] /\ acked' = Undecided(t)
      /\ UNCHANGED <<up, config, pool, disk>> /\ OneMore /\ up /\ edit[a].pc = "idle"
  BY DEF Begin, At
<1> HIDE DEF i
<1>r. r \in Edit /\ r.pc = "store" /\ r.op = op /\ r.token = t /\ r.list = list
  BY <1>1 DEF Edit
<1> HIDE DEF r
<1>4. /\ acked' \in [added: SUBSET Token, removed: SUBSET Token,
                     revoked: SUBSET Key, alone: BOOLEAN, saved: BOOLEAN]
      /\ acked'.added = acked.added \ {t} /\ acked'.removed = acked.removed \ {t}
      /\ acked'.revoked = acked.revoked /\ acked'.saved = acked.saved
      /\ acked'.alone => acked.alone /\ Quiet
  BY <1>3, UndecidedIs DEF AdminInv
<1>5. AdminTypeOK' /\ edit'[a] = r
  <2>1. AdminTypeOK
    BY DEF AdminInv
  <2>2. QED
    BY <1>r, <1>3, <1>4, <2>1, BegunFacts
<1>6. ASSUME acked'.alone PROVE ListsHold(a)' /\ acked'.revoked \intersect Members(config'.keys) = {}
  BY <1>3, <1>4, <1>5, <1>6, <1>r DEF AdminInv, ListsHold
<1>7. ASSUME acked'.alone, acked'.saved PROVE PromisesHold' /\ EditHolds(a)'
  <2>1. PromisesHold
    BY <1>4, <1>7 DEF AdminInv
  <2>2. PromisesHold'
    BY <1>3, <1>4, <2>1 DEF PromisesHold, Keeps
  <2>3. Keeps(config.tokens)
    BY <1>3, <2>1 DEF PromisesHold
  <2>4. acked'.added \subseteq Members(list)
        /\ acked'.removed \intersect Members(list) \subseteq Members(EnvTokens)
    BY <1>4, <2>3 DEF Keeps
  <2>5. Done(r, list)
    BY <1>r DEF Done
  <2>6. EditHolds(a)'
    BY <1>5, <1>r, <2>4, <2>5 DEF EditHolds, Keeps
  <2>7. QED
    BY <2>2, <2>6
<1>8. QED
  BY <1>r, <1>3, <1>4, <1>5, <1>6, <1>7, StepHolds

LEMMA AddHolds ==
  ASSUME AdminInv, NEW a \in Admins, NEW t \in Token, addToken(a, t)
  PROVE  AdminInv'
<1>1. config.tokens \in Seq(Token)
  BY TypedAre DEF AdminInv, Config
<1>2. Append(config.tokens, t) \in Seq(Token)
      /\ Members(Append(config.tokens, t)) = Members(config.tokens) \union {t}
  BY <1>1, AppendMembers
<1> DEFINE list == Append(config.tokens, t)
<1>3. Begin(a, "add", t, list)
  BY DEF addToken
<1> HIDE DEF list
<1>4. list \in Seq(Token) /\ Members(list) = Members(config.tokens) \union {t}
  BY <1>2 DEF list
<1>5. QED
  BY <1>3, <1>4, BeginHolds

LEMMA RemoveHolds ==
  ASSUME AdminInv, NEW a \in Admins, NEW t \in Token, removeToken(a, t)
  PROVE  AdminInv'
<1>1. config.tokens \in Seq(Token)
  BY TypedAre DEF AdminInv, Config
<1> DEFINE list == Without(config.tokens, {t})
<1>2. list \in Seq(Token) /\ Members(list) = Members(config.tokens) \ {t}
  BY <1>1, WithoutFacts
<1>3. Begin(a, "remove", t, list)
  BY DEF removeToken
<1> HIDE DEF list
<1>4. QED
  BY <1>2, <1>3, BeginHolds

\* The steps of a token's edit.
LEMMA TypesStep ==
  ASSUME AdminTypeOK, edit' \in [Admins -> Edit], config' \in Config, pool' \in Seq(Token),
         disk' \in [state: {"absent", "saved", "torn"}, data: Config], up' = up, edits' = edits,
         acked' \in [added: SUBSET Token, removed: SUBSET Token,
                     revoked: SUBSET Key, alone: BOOLEAN, saved: BOOLEAN]
  PROVE  AdminTypeOK'
BY DEF AdminTypeOK, Edit, Pcs, Ops

LEMMA StoreListHolds ==
  ASSUME AdminInv, NEW a \in Admins, StoreList(a)
  PROVE  AdminInv'
<1> DEFINE e == edit[a]
<1>1. /\ up /\ e.pc = "store" /\ config' = [config EXCEPT !.tokens = e.list]
      /\ Goto(a, "pool") /\ UNCHANGED <<up, pool, disk, edits, acked>>
  BY DEF StoreList, At
<1>2. "pool" \in Pcs /\ AdminTypeOK /\ e \in Edit /\ config \in Config
  BY TypedAre DEF Pcs, AdminInv
<1>3. PICK r \in Edit : /\ edit' = [edit EXCEPT ![a] = r] /\ edit'[a] = r
                        /\ r = [e EXCEPT !.pc = "pool"] /\ edit' \in [Admins -> Edit]
  BY <1>1, <1>2, GotoIs
<1>4. r.pc = "pool" /\ r.op = e.op /\ r.token = e.token
  BY <1>2, <1>3, FieldsKept
<1>5. config' \in Config /\ config'.tokens = e.list /\ config'.keys = config.keys
  BY <1>1, <1>2, EditTyped DEF Config
<1> HIDE DEF e
<1>6. AdminTypeOK'
  BY <1>1, <1>2, <1>3, <1>5, TypesStep, TypedAre
<1>7. ASSUME acked'.alone PROVE ListsHold(a)' /\ acked'.revoked \intersect Members(config'.keys) = {}
  BY <1>1, <1>3, <1>4, <1>5, <1>7 DEF AdminInv, ListsHold
<1>8. ASSUME acked'.alone, acked'.saved PROVE PromisesHold' /\ EditHolds(a)'
  <2>1. PromisesHold /\ Keeps(e.list) /\ Done(e, e.list)
    BY <1>1, <1>8 DEF AdminInv, EditHolds, e
  <2>2. QED
    BY <1>1, <1>3, <1>4, <1>5, <2>1 DEF PromisesHold, Keeps, EditHolds, Done
<1>9. QED
  BY <1>1, <1>3, <1>6, <1>7, <1>8, StepHolds DEF e

LEMMA ReadListHolds ==
  ASSUME AdminInv, NEW a \in Admins, ReadList(a)
  PROVE  AdminInv'
<1> DEFINE e == edit[a]
           r == [e EXCEPT !.pc = "set", !.list = config.tokens]
<1>1. /\ up /\ e.pc = "pool" /\ UNCHANGED <<up, config, pool, disk, edits, acked>>
      /\ edit' = [edit EXCEPT ![a].pc = "set", ![a].list = config.tokens]
  BY DEF ReadList, At
<1>2. /\ "set" \in Pcs /\ AdminTypeOK /\ e \in Edit /\ config.tokens \in Seq(Token)
      /\ edit \in [Admins -> Edit]
  BY TypedAre DEF Pcs, AdminInv, Config
<1>3. edit' = [edit EXCEPT ![a] = r]
  BY <1>1
<1>4. r \in Edit /\ r.pc = "set" /\ r.op = e.op /\ r.token = e.token /\ r.list = config.tokens
  BY <1>2 DEF Edit
<1> HIDE DEF e, r
<1>5. edit'[a] = r /\ edit' \in [Admins -> Edit]
  BY <1>2, <1>3, <1>4
<1>6. AdminTypeOK'
  BY <1>1, <1>2, <1>5, TypesStep, TypedAre
<1>7. ASSUME acked'.alone PROVE ListsHold(a)' /\ acked'.revoked \intersect Members(config'.keys) = {}
  BY <1>1, <1>4, <1>5, <1>7 DEF AdminInv, ListsHold
<1>8. ASSUME acked'.alone, acked'.saved PROVE PromisesHold' /\ EditHolds(a)'
  <2>1. PromisesHold /\ Done(e, config.tokens)
    BY <1>1, <1>8 DEF AdminInv, EditHolds, e
  <2>2. QED
    BY <1>1, <1>4, <1>5, <2>1 DEF PromisesHold, Keeps, EditHolds, Done
<1>9. QED
  BY <1>1, <1>3, <1>4, <1>6, <1>7, <1>8, StepHolds DEF e

LEMMA SetPoolHolds ==
  ASSUME AdminInv, NEW a \in Admins, SetPool(a)
  PROVE  AdminInv'
<1> DEFINE e == edit[a]
<1>1. /\ up /\ e.pc = "set" /\ pool' = e.list
      /\ Goto(a, "marshal") /\ UNCHANGED <<up, config, disk, edits, acked>>
  BY DEF SetPool, At
<1>2. "marshal" \in Pcs /\ AdminTypeOK /\ e \in Edit
  BY TypedAre DEF Pcs, AdminInv
<1>3. PICK r \in Edit : /\ edit' = [edit EXCEPT ![a] = r] /\ edit'[a] = r
                        /\ r = [e EXCEPT !.pc = "marshal"] /\ edit' \in [Admins -> Edit]
  BY <1>1, <1>2, GotoIs
<1>4. r.pc = "marshal" /\ r.op = e.op /\ r.token = e.token /\ e.list \in Seq(Token)
  BY <1>2, <1>3, FieldsKept, EditTyped
<1> HIDE DEF e
<1>6. AdminTypeOK'
  BY <1>1, <1>2, <1>3, <1>4, TypesStep, TypedAre
<1>7. ASSUME acked'.alone PROVE ListsHold(a)' /\ acked'.revoked \intersect Members(config'.keys) = {}
  <2>1. ListsHold(a) /\ acked.revoked \intersect Members(config.keys) = {}
    BY <1>1, <1>7 DEF AdminInv, e
  <2>2. QED
    BY <1>1, <1>3, <1>4, <2>1 DEF ListsHold, e
<1>8. ASSUME acked'.alone, acked'.saved PROVE PromisesHold' /\ EditHolds(a)'
  <2>1. PromisesHold /\ Done(e, config.tokens)
    BY <1>1, <1>8 DEF AdminInv, EditHolds, e
  <2>2. QED
    BY <1>1, <1>3, <1>4, <2>1 DEF PromisesHold, Keeps, EditHolds, Done
<1>9. QED
  BY <1>1, <1>3, <1>6, <1>7, <1>8, StepHolds DEF e

LEMMA MarshalHolds ==
  ASSUME AdminInv, NEW a \in Admins, Marshal(a)
  PROVE  AdminInv'
<1> DEFINE e == edit[a]
           r == [e EXCEPT !.pc = "open", !.snap = config]
<1>1. /\ up /\ e.pc = "marshal" /\ UNCHANGED <<up, config, pool, disk, edits, acked>>
      /\ edit' = [edit EXCEPT ![a].pc = "open", ![a].snap = config]
  BY DEF Marshal, At
<1>2. /\ "open" \in Pcs /\ AdminTypeOK /\ e \in Edit /\ config \in Config
      /\ edit \in [Admins -> Edit]
  BY TypedAre DEF Pcs, AdminInv
<1>3. edit' = [edit EXCEPT ![a] = r]
  BY <1>1
<1>4. r \in Edit /\ r.pc = "open" /\ r.op = e.op /\ r.token = e.token /\ r.snap = config
  BY <1>2 DEF Edit
<1> HIDE DEF e, r
<1>5. edit'[a] = r /\ edit' \in [Admins -> Edit]
  BY <1>2, <1>3, <1>4
<1>6. AdminTypeOK'
  BY <1>1, <1>2, <1>5, TypesStep, TypedAre
<1>7. ASSUME acked'.alone PROVE ListsHold(a)' /\ acked'.revoked \intersect Members(config'.keys) = {}
  <2>1. ListsHold(a) /\ acked.revoked \intersect Members(config.keys) = {}
    BY <1>1, <1>7 DEF AdminInv, e
  <2>2. QED
    BY <1>1, <1>4, <1>5, <2>1 DEF ListsHold, e
<1>8. ASSUME acked'.alone, acked'.saved PROVE PromisesHold' /\ EditHolds(a)'
  <2>1. PromisesHold /\ Done(e, config.tokens)
    BY <1>1, <1>8 DEF AdminInv, EditHolds, e
  <2>2. QED
    BY <1>1, <1>4, <1>5, <2>1 DEF PromisesHold, Keeps, EditHolds, Done
<1>9. QED
  BY <1>1, <1>3, <1>4, <1>6, <1>7, <1>8, StepHolds DEF e

LEMMA TruncateHolds ==
  ASSUME AdminInv, NEW a \in Admins, Truncate(a)
  PROVE  AdminInv'
<1> DEFINE e == edit[a]
<1>1. /\ up /\ e.pc = "open" /\ disk' = [disk EXCEPT !.state = "torn"]
      /\ Goto(a, "write") /\ UNCHANGED <<up, config, pool, edits, acked>>
  BY DEF Truncate, At
<1>2. "write" \in Pcs /\ AdminTypeOK /\ e \in Edit
  BY TypedAre DEF Pcs, AdminInv
<1>3. PICK r \in Edit : /\ edit' = [edit EXCEPT ![a] = r] /\ edit'[a] = r
                        /\ r = [e EXCEPT !.pc = "write"] /\ edit' \in [Admins -> Edit]
  BY <1>1, <1>2, GotoIs
<1>4. r.pc = "write" /\ r.op = e.op /\ r.token = e.token /\ r.snap = e.snap
  BY <1>2, <1>3, FieldsKept
<1>5. disk' \in [state: {"absent", "saved", "torn"}, data: Config] /\ disk'.state = "torn"
  BY <1>1, <1>2, TypedAre
<1> HIDE DEF e
<1>6. AdminTypeOK'
  BY <1>1, <1>2, <1>3, <1>5, TypesStep, TypedAre
<1>7. ASSUME acked'.alone PROVE ListsHold(a)' /\ acked'.revoked \intersect Members(config'.keys) = {}
  <2>1. ListsHold(a) /\ acked.revoked \intersect Members(config.keys) = {}
    BY <1>1, <1>7 DEF AdminInv, e
  <2>2. QED
    BY <1>1, <1>3, <1>4, <2>1 DEF ListsHold, e
<1>8. ASSUME acked'.alone, acked'.saved PROVE PromisesHold' /\ EditHolds(a)'
  <2>1. PromisesHold /\ Done(e, config.tokens) /\ e.snap.tokens = config.tokens
    BY <1>1, <1>8 DEF AdminInv, EditHolds, e
  <2>2. QED
    BY <1>1, <1>3, <1>4, <1>5, <2>1 DEF PromisesHold, Keeps, EditHolds, Done
<1>9. QED
  BY <1>1, <1>3, <1>6, <1>7, <1>8, StepHolds DEF e

\* What was saved carries the edit out, and the environment's tokens come on top.
LEMMA WriteHolds ==
  ASSUME AdminInv, NEW a \in Admins, Write(a)
  PROVE  AdminInv'
<1> DEFINE e == edit[a]
<1>1. /\ up /\ e.pc = "write" /\ Goto(a, "answer") /\ UNCHANGED <<up, config, pool, edits, acked>>
      /\ \E state \in {"saved", "torn"} : disk' = [state |-> state, data |-> e.snap]
  BY DEF Write, At
<1>2. "answer" \in Pcs /\ AdminTypeOK /\ e \in Edit /\ e.snap \in Config
  BY TypedAre, EditTyped DEF Pcs, AdminInv
<1>3. PICK r \in Edit : /\ edit' = [edit EXCEPT ![a] = r] /\ edit'[a] = r
                        /\ r = [e EXCEPT !.pc = "answer"] /\ edit' \in [Admins -> Edit]
  BY <1>1, <1>2, GotoIs
<1>4. r.pc = "answer" /\ r.op = e.op /\ r.token = e.token
  BY <1>2, <1>3, FieldsKept
<1>5. /\ disk' \in [state: {"absent", "saved", "torn"}, data: Config]
      /\ disk'.state # "torn" => Saved(disk') = e.snap.tokens
  BY <1>1, <1>2 DEF Saved
<1> HIDE DEF e
<1>6. AdminTypeOK'
  BY <1>1, <1>2, <1>3, <1>5, TypesStep, TypedAre
<1>7. ASSUME acked'.alone PROVE ListsHold(a)' /\ acked'.revoked \intersect Members(config'.keys) = {}
  <2>1. ListsHold(a) /\ acked.revoked \intersect Members(config.keys) = {}
    BY <1>1, <1>7 DEF AdminInv, e
  <2>2. QED
    BY <1>1, <1>3, <1>4, <2>1 DEF ListsHold, e
<1>8. ASSUME acked'.alone, acked'.saved PROVE PromisesHold' /\ EditHolds(a)'
  <2>1. PromisesHold /\ Done(e, config.tokens) /\ e.snap.tokens = config.tokens
    BY <1>1, <1>8 DEF AdminInv, EditHolds, e
  <2>2. Keeps(config.tokens)
    BY <1>1, <2>1 DEF PromisesHold
  <2> DEFINE loaded == Members(Load(disk').tokens)
  <2>3. disk'.state # "torn" => loaded = Members(config.tokens) \union Members(EnvTokens)
    BY <1>5, <2>1, LoadFacts
  <2> HIDE DEF loaded
  <2>4. disk'.state # "torn" => /\ acked.added \subseteq loaded
                                /\ acked.removed \intersect loaded \subseteq Members(EnvTokens)
    BY <2>2, <2>3 DEF Keeps
  <2>5. PromisesHold'
    BY <1>1, <2>2, <2>4 DEF PromisesHold, Keeps, loaded
  <2>6. disk'.state # "torn" => IF r.op = "add" THEN r.token \in loaded
                                ELSE r.token \in loaded => r.token \in Members(EnvTokens)
    BY <1>4, <2>1, <2>3 DEF Done
  <2>7. EditHolds(a)'
    BY <1>1, <1>3, <1>4, <2>1, <2>6 DEF EditHolds, Done, loaded
  <2>8. QED
    BY <2>5, <2>7
<1>9. QED
  BY <1>1, <1>3, <1>6, <1>7, <1>8, StepHolds DEF e

LEMMA SaveFailsHolds ==
  ASSUME AdminInv, NEW a \in Admins, SaveFails(a)
  PROVE  AdminInv'
<1> DEFINE e == edit[a]
<1>1. /\ up /\ e.pc \in {"open", "write"} /\ Goto(a, "answer")
      /\ acked' = [acked EXCEPT !.saved = FALSE]
      /\ UNCHANGED <<up, config, pool, disk, edits>>
  BY DEF SaveFails, At
<1>2. "answer" \in Pcs /\ AdminTypeOK /\ e \in Edit
  BY TypedAre DEF Pcs, AdminInv
<1>3. PICK r \in Edit : /\ edit' = [edit EXCEPT ![a] = r] /\ edit'[a] = r
                        /\ r = [e EXCEPT !.pc = "answer"] /\ edit' \in [Admins -> Edit]
  BY <1>1, <1>2, GotoIs
<1>4. r.pc = "answer"
  BY <1>2, <1>3, FieldsKept
<1>5. /\ acked' \in [added: SUBSET Token, removed: SUBSET Token,
                     revoked: SUBSET Key, alone: BOOLEAN, saved: BOOLEAN]
      /\ acked'.saved = FALSE /\ acked'.alone = acked.alone /\ acked'.revoked = acked.revoked
  BY <1>1, <1>2, TypedAre
<1> HIDE DEF e
<1>6. AdminTypeOK'
  BY <1>1, <1>2, <1>3, <1>5, TypesStep, TypedAre
<1>7. ASSUME acked'.alone PROVE ListsHold(a)' /\ acked'.revoked \intersect Members(config'.keys) = {}
  <2>1. ListsHold(a) /\ acked.revoked \intersect Members(config.keys) = {}
    BY <1>1, <1>5, <1>7 DEF AdminInv, e
  <2>2. QED
    BY <1>1, <1>3, <1>4, <1>5, <2>1 DEF ListsHold, e
<1>9. QED
  BY <1>1, <1>3, <1>5, <1>6, <1>7, StepHolds DEF e

LEMMA AnswerHolds ==
  ASSUME AdminInv, NEW a \in Admins, Answer(a)
  PROVE  AdminInv'
<1> DEFINE e == edit[a]
           A == IF e.op = "add" THEN acked.added \union {e.token} ELSE acked.added
           R == IF e.op = "add" THEN acked.removed ELSE acked.removed \union {e.token}
<1>1. /\ up /\ e.pc = "answer" /\ edit' = [edit EXCEPT ![a] = Idle]
      /\ acked' = IF e.op = "add" THEN [acked EXCEPT !.added = @ \union {e.token}]
                  ELSE [acked EXCEPT !.removed = @ \union {e.token}]
      /\ UNCHANGED <<up, config, pool, disk, edits>>
  BY DEF Answer, At
<1>2. AdminTypeOK /\ e \in Edit /\ edit \in [Admins -> Edit] /\ e.token \in Token
  BY TypedAre, EditTyped DEF AdminInv
<1>3. edit'[a] = Idle /\ edit' \in [Admins -> Edit] /\ Idle \in Edit
  BY <1>1, <1>2, IdleFacts
<1> HIDE DEF e
<1>4. /\ acked' \in [added: SUBSET Token, removed: SUBSET Token,
                     revoked: SUBSET Key, alone: BOOLEAN, saved: BOOLEAN]
      /\ acked'.added = A /\ acked'.removed = R /\ acked'.revoked = acked.revoked
      /\ acked'.alone = acked.alone /\ acked'.saved = acked.saved
  <2>1. CASE e.op = "add"
    BY <1>1, <1>2, <2>1, TypedAre
  <2>2. CASE e.op # "add"
    BY <1>1, <1>2, <2>2, TypedAre
  <2>3. QED
    BY <2>1, <2>2
<1>6. AdminTypeOK'
  BY <1>1, <1>2, <1>3, <1>4, TypesStep, TypedAre
<1>7. ASSUME acked'.alone PROVE ListsHold(a)' /\ acked'.revoked \intersect Members(config'.keys) = {}
  <2>1. ListsHold(a) /\ acked.revoked \intersect Members(config.keys) = {}
    BY <1>1, <1>4, <1>7 DEF AdminInv, e
  <2>2. QED
    BY <1>1, <1>3, <1>4, <2>1, IdleFacts DEF ListsHold, e
<1>8. ASSUME acked'.alone, acked'.saved PROVE PromisesHold' /\ EditHolds(a)'
  <2>1. /\ PromisesHold /\ Done(e, config.tokens)
        /\ disk.state # "torn" => Done(e, Load(disk).tokens)
    BY <1>1, <1>4, <1>8 DEF AdminInv, EditHolds, e
  <2>2. \A list : Keeps(list) /\ Done(e, list) =>
          A \subseteq Members(list) /\ R \intersect Members(list) \subseteq Members(EnvTokens)
    BY DEF Keeps, Done
  <2> HIDE DEF A, R
  <2>3. Keeps(config.tokens)' /\ (disk.state # "torn" => Keeps(Load(disk).tokens)')
    BY <1>1, <1>4, <2>1, <2>2 DEF PromisesHold, Keeps
  <2>4. EditHolds(a)'
    BY <1>3, IdleFacts DEF EditHolds
  <2>5. QED
    BY <1>1, <2>3, <2>4 DEF PromisesHold
<1>9. QED
  BY <1>1, <1>3, <1>4, <1>6, <1>7, <1>8, StepHolds DEF e

\* Toggles, aliases and cookies: neither list changes.
LEMMA SettingsHold ==
  ASSUME AdminInv, NEW v \in Setting, updateSettings(v)
  PROVE  AdminInv'
<1>1. /\ up /\ config' = [config EXCEPT !.settings = v] /\ OneMore
      /\ UNCHANGED <<up, pool, disk, edit, acked>>
  BY DEF updateSettings
<1>2. AdminTypeOK /\ config \in Config
  BY TypedAre DEF AdminInv
<1>3. config' \in Config /\ config'.tokens = config.tokens /\ config'.keys = config.keys
  BY <1>1, <1>2 DEF Config
<1>4. edits' \in 0..MaxEdits
  BY <1>1, <1>2, TypedAre, EnvAssumption DEF OneMore
<1>5. AdminTypeOK'
  BY <1>1, <1>2, <1>3, <1>4 DEF AdminTypeOK
<1>6. \A a \in Admins : (ListsHold(a) => ListsHold(a)') /\ (EditHolds(a) => EditHolds(a)')
  BY <1>1, <1>3 DEF ListsHold, EditHolds, Done, Keeps
<1>7. PromisesHold => PromisesHold'
  BY <1>1, <1>3 DEF PromisesHold, Keeps
<1>8. QED
  BY <1>1, <1>3, <1>5, <1>6, <1>7 DEF AdminInv, Quiet

\* A key's edit starts from the keys configured, and gives back none revoked.
LEMMA BeginKeysHolds ==
  ASSUME AdminInv, NEW a \in Admins, NEW op \in {"create", "delete"}, NEW k \in Key,
         NEW keys \in Seq(Key), BeginKeys(a, op, k, keys),
         Members(keys) \ {k} \subseteq Members(config.keys),
         op = "delete" => k \notin Members(keys)
  PROVE  AdminInv'
<1> DEFINE i == Idle
           q == acked.alone /\ Quiet
           V == acked.revoked \ {k}
           r == [i EXCEPT !.pc = "keys", !.op = op, !.key = k, !.keys = keys]
<1>1. i \in Edit /\ "keys" \in Pcs /\ op \in Ops
  BY IdleFacts DEF Pcs, Ops
<1>2. AdminTypeOK
  BY DEF AdminInv
<1>3. /\ edit' = [edit EXCEPT ![a] = r] /\ acked' = [acked EXCEPT !.revoked = V, !.alone = q]
      /\ UNCHANGED <<up, config, pool, disk>> /\ OneMore /\ up /\ edit[a].pc = "idle"
  BY DEF BeginKeys, At
<1> HIDE DEF i
<1>r. r \in Edit /\ r.pc = "keys" /\ r.op = op /\ r.key = k /\ r.keys = keys
  BY <1>1 DEF Edit
<1>4. q \in BOOLEAN /\ V \in SUBSET Key
  BY <1>2, AckedIs
<1> HIDE DEF r, q, V
<1>5. /\ acked' \in [added: SUBSET Token, removed: SUBSET Token,
                     revoked: SUBSET Key, alone: BOOLEAN, saved: BOOLEAN]
      /\ acked'.added = acked.added /\ acked'.removed = acked.removed
      /\ acked'.revoked = V /\ acked'.saved = acked.saved /\ acked'.alone = q
  BY <1>2, <1>3, <1>4, TypedAre
<1>6. AdminTypeOK' /\ edit'[a] = r
  BY <1>2, <1>3, <1>5, <1>r, BegunFacts
<1>7. ASSUME acked'.alone PROVE ListsHold(a)' /\ acked'.revoked \intersect Members(config'.keys) = {}
  <2>1. acked.alone /\ Quiet
    BY <1>5, <1>7 DEF q
  <2>2. pool = config.tokens /\ acked.revoked \intersect Members(config.keys) = {}
    BY <1>3, <2>1 DEF AdminInv
  <2>3. V \intersect Members(keys) = {} /\ V \intersect Members(config.keys) = {}
    BY <2>2 DEF V
  <2>4. QED
    BY <1>3, <1>5, <1>6, <1>r, <2>2, <2>3 DEF ListsHold
<1>8. ASSUME acked'.alone, acked'.saved PROVE PromisesHold' /\ EditHolds(a)'
  <2>1. PromisesHold
    BY <1>5, <1>8 DEF AdminInv, q
  <2>2. QED
    BY <1>3, <1>5, <1>6, <1>r, <2>1 DEF PromisesHold, Keeps, EditHolds
<1>9. QED
  BY <1>r, <1>3, <1>5, <1>6, <1>7, <1>8, StepHolds DEF q

LEMMA CreateHolds ==
  ASSUME AdminInv, NEW a \in Admins, NEW k \in Key, createAPIKey(a, k)
  PROVE  AdminInv'
<1> DEFINE keys == IF Listed(config.keys, k) THEN config.keys ELSE Append(config.keys, k)
<1>1. config.keys \in Seq(Key)
  BY TypedAre DEF AdminInv, Config
<1>2. Append(config.keys, k) \in Seq(Key)
      /\ Members(Append(config.keys, k)) = Members(config.keys) \union {k}
  BY <1>1, AppendMembers
<1>3. keys \in Seq(Key) /\ Members(keys) \ {k} \subseteq Members(config.keys)
  BY <1>1, <1>2
<1>4. BeginKeys(a, "create", k, keys)
  BY DEF createAPIKey
<1> HIDE DEF keys
<1>5. QED
  BY <1>3, <1>4, BeginKeysHolds

LEMMA DeleteHolds ==
  ASSUME AdminInv, NEW a \in Admins, NEW k \in Key, NEW namesakes \in SUBSET Key,
         deleteAPIKey(a, k, namesakes)
  PROVE  AdminInv'
<1> DEFINE keys == Without(config.keys, {k} \union namesakes)
<1>1. config.keys \in Seq(Key)
  BY TypedAre DEF AdminInv, Config
<1>2. keys \in Seq(Key) /\ Members(keys) = Members(config.keys) \ ({k} \union namesakes)
  BY <1>1, WithoutFacts
<1>3. BeginKeys(a, "delete", k, keys)
  BY DEF deleteAPIKey
<1> HIDE DEF keys
<1>4. Members(keys) \ {k} \subseteq Members(config.keys) /\ k \notin Members(keys)
  BY <1>2
<1>5. QED
  BY <1>2, <1>3, <1>4, BeginKeysHolds

LEMMA StoreKeysHolds ==
  ASSUME AdminInv, NEW a \in Admins, StoreKeys(a)
  PROVE  AdminInv'
<1> DEFINE e == edit[a]
           V == acked.revoked \union (IF e.op = "delete" THEN {e.key} ELSE {})
<1>1. /\ up /\ e.pc = "keys" /\ config' = [config EXCEPT !.keys = e.keys]
      /\ acked' = [acked EXCEPT !.revoked = V]
      /\ edit' = [edit EXCEPT ![a] = Idle] /\ UNCHANGED <<up, pool, disk, edits>>
  BY DEF StoreKeys, At
<1>2. AdminTypeOK /\ e \in Edit /\ config \in Config /\ edit \in [Admins -> Edit]
  BY TypedAre DEF AdminInv
<1>3. edit'[a] = Idle /\ edit' \in [Admins -> Edit] /\ Idle \in Edit /\ Idle.pc = "idle"
  BY <1>1, <1>2, IdleFacts
<1>4. config' \in Config /\ config'.tokens = config.tokens /\ config'.keys = e.keys
  BY <1>1, <1>2, EditTyped DEF Config
<1>5. V \in SUBSET Key
  BY <1>2, AckedIs, EditTyped
<1> HIDE DEF V, e
<1>6. /\ acked' \in [added: SUBSET Token, removed: SUBSET Token,
                     revoked: SUBSET Key, alone: BOOLEAN, saved: BOOLEAN]
      /\ acked'.added = acked.added /\ acked'.removed = acked.removed
      /\ acked'.revoked = V /\ acked'.saved = acked.saved /\ acked'.alone = acked.alone
  BY <1>1, <1>2, <1>5, TypedAre
<1>7. AdminTypeOK'
  BY <1>1, <1>2, <1>3, <1>4, <1>6, TypesStep, TypedAre
<1>8. ASSUME acked'.alone PROVE ListsHold(a)' /\ acked'.revoked \intersect Members(config'.keys) = {}
  <2>1. ListsHold(a)
    BY <1>1, <1>6, <1>8 DEF AdminInv, e
  <2>2. /\ pool = config.tokens /\ acked.revoked \intersect Members(e.keys) = {}
        /\ e.op = "delete" => e.key \notin Members(e.keys)
    BY <1>1, <2>1 DEF ListsHold, e
  <2>3. V \intersect Members(e.keys) = {}
    BY <2>2 DEF V
  <2>4. QED
    BY <1>1, <1>3, <1>4, <1>6, <2>2, <2>3 DEF ListsHold
<1>9. ASSUME acked'.alone, acked'.saved PROVE PromisesHold' /\ EditHolds(a)'
  <2>1. PromisesHold
    BY <1>6, <1>9 DEF AdminInv
  <2>2. QED
    BY <1>1, <1>3, <1>4, <1>6, <2>1 DEF PromisesHold, Keeps, EditHolds
<1>10. QED
  BY <1>1, <1>3, <1>6, <1>7, <1>8, <1>9, StepHolds DEF e

\* The process dies: what was promised holds of the file, if it parses.
LEMMA CrashHolds ==
  ASSUME AdminInv, AdminCrash
  PROVE  AdminInv'
<1>1. /\ up' = FALSE /\ edit' = [a \in Admins |-> Idle] /\ acked' = [acked EXCEPT !.revoked = {}]
      /\ UNCHANGED <<config, pool, disk, edits>>
  BY DEF AdminCrash
<1>2. AdminTypeOK
  BY DEF AdminInv
<1>3. /\ acked' \in [added: SUBSET Token, removed: SUBSET Token,
                     revoked: SUBSET Key, alone: BOOLEAN, saved: BOOLEAN]
      /\ acked'.added = acked.added /\ acked'.removed = acked.removed
      /\ acked'.revoked = {} /\ acked'.saved = acked.saved /\ acked'.alone = acked.alone
  BY <1>1, <1>2, TypedAre
<1>4. edit' \in [Admins -> Edit] /\ \A a \in Admins : edit'[a].pc = "idle"
  BY <1>1, IdleFacts
<1>5. AdminTypeOK'
  BY <1>1, <1>2, <1>3, <1>4 DEF AdminTypeOK, Edit, Pcs, Ops
<1>6. PromisesHold => PromisesHold'
  BY <1>1, <1>3 DEF PromisesHold, Keeps
<1>7. \A a \in Admins : EditHolds(a)'
  BY <1>4 DEF EditHolds
<1>8. QED
  BY <1>1, <1>3, <1>4, <1>5, <1>6, <1>7 DEF AdminInv, Quiet

\* The next process: the pool is given the tokens that were loaded.
LEMMA StartHolds ==
  ASSUME AdminInv, StartUp
  PROVE  AdminInv'
<1>1. /\ ~ up /\ disk.state # "torn" /\ up' = TRUE /\ config' = Load(disk)
      /\ pool' = config'.tokens /\ UNCHANGED <<disk, edit, edits, acked>>
  BY DEF StartUp
<1>2. AdminTypeOK /\ Quiet /\ acked.revoked = {}
  BY <1>1 DEF AdminInv
<1>3. config' \in Config /\ pool' \in Seq(Token)
  BY <1>1, <1>2, LoadFacts, TypedAre DEF Config
<1>4. AdminTypeOK'
  BY <1>1, <1>2, <1>3 DEF AdminTypeOK
<1>5. PromisesHold => PromisesHold'
  BY <1>1 DEF PromisesHold, Keeps
<1>6. \A a \in Admins : edit'[a].pc = "idle"
  BY <1>1, <1>2 DEF Quiet
<1>7. \A a \in Admins : EditHolds(a)'
  BY <1>6 DEF EditHolds
<1>8. QED
  BY <1>1, <1>2, <1>4, <1>5, <1>6, <1>7 DEF AdminInv, Quiet

LEMMA AdminInvNext == AdminInv /\ [AdminNext]_adminVars => AdminInv'
<1> SUFFICES ASSUME AdminInv, [AdminNext]_adminVars PROVE AdminInv'
  OBVIOUS
<1>1. CASE \E a \in Admins, t \in Token : addToken(a, t) \/ removeToken(a, t)
  BY <1>1, AddHolds, RemoveHolds
<1>2. CASE \E a \in Admins : StoreList(a) \/ ReadList(a) \/ SetPool(a) \/ Marshal(a)
  BY <1>2, StoreListHolds, ReadListHolds, SetPoolHolds, MarshalHolds
<1>3. CASE \E a \in Admins : Truncate(a) \/ Write(a) \/ SaveFails(a) \/ Answer(a)
  BY <1>3, TruncateHolds, WriteHolds, SaveFailsHolds, AnswerHolds
<1>4. CASE \E v \in Setting : updateSettings(v)
  BY <1>4, SettingsHold
<1>5. CASE \E a \in Admins, k \in Key :
             createAPIKey(a, k) \/ \E namesakes \in SUBSET Key : deleteAPIKey(a, k, namesakes)
  BY <1>5, CreateHolds, DeleteHolds
<1>6. CASE \E a \in Admins : StoreKeys(a)
  BY <1>6, StoreKeysHolds
<1>7. CASE AdminCrash
  BY <1>7, CrashHolds
<1>8. CASE StartUp
  BY <1>8, StartHolds
<1>9. CASE UNCHANGED adminVars
  BY <1>9 DEF adminVars, AdminInv, AdminTypeOK, Quiet, ListsHold, PromisesHold, EditHolds, Keeps, Done
<1>10. QED
  BY <1>1, <1>2, <1>3, <1>4, <1>5, <1>6, <1>7, <1>8, <1>9 DEF AdminNext

\* The configuration, its saved form and the requests keep their types.
THEOREM AdminTyped == AdminSpec => []AdminTypeOK
<1>1. AdminInv => AdminTypeOK
  BY DEF AdminInv
<1>2. QED
  BY <1>1, AdminInvInit, AdminInvNext, PTL DEF AdminSpec

\* An answered edit has its effect (config_api.go:98, 146, v2_handlers.go:133):
\* as long as edits do not overlap the pool has the configured tokens; if the
\* saves succeed too, a token added is there and one removed is gone, after a
\* restart as well; and no deleted key opens the server.
THEOREM EditsEverTakeEffect == AdminSpec => []EditsTakeEffect
<1>1. AdminInv => EditsTakeEffect
  <2> SUFFICES ASSUME AdminInv, up, Quiet, acked.alone
               PROVE  /\ pool = config.tokens
                      /\ acked.saved => /\ acked.added \subseteq ToSet(pool)
                                        /\ acked.removed \intersect ToSet(pool) \subseteq ToSet(EnvTokens)
                      /\ \A k \in acked.revoked : AuthorizedKey(k) => config.keys = <<>>
    BY DEF EditsTakeEffect
  <2>1. pool = config.tokens /\ acked.revoked \intersect Members(config.keys) = {}
    BY DEF AdminInv
  <2>2. ToSet(pool) = Members(config.tokens) /\ ToSet(EnvTokens) = Members(EnvTokens)
    BY <2>1 DEF ToSet, Members
  <2>3. acked.saved => Keeps(config.tokens)
    BY DEF AdminInv, PromisesHold
  <2>4. \A k : Contains(config.keys, k) <=> k \in Members(config.keys)
    <3>1. config.keys \in Seq(Key)
      BY TypedAre DEF AdminInv, Config
    <3>2. DOMAIN config.keys = 1..Len(config.keys)
      BY <3>1
    <3>3. QED
      BY <3>2 DEF Contains, Members
  <2>5. QED
    BY <2>1, <2>2, <2>3, <2>4 DEF Keeps, AuthorizedKey
<1>2. QED
  BY <1>1, AdminInvInit, AdminInvNext, PTL DEF AdminSpec

-----------------------------------------------------------------------------
\* All of them, as the run has them: a behaviour of the whole is a behaviour of
\* each component, since no step of one touches the variables of another.
LEMMA EachHasItsSpec ==
  Spec => AdminSpec /\ TrackerSpec /\ TunnelSpec /\ LogSpec /\ CliSpec /\ FilesSpec
<1>1. Init => AdminInit /\ TrackerInit /\ TunnelInit /\ LogInit /\ CliInit /\ FilesInit
  BY DEF Init
<1>2. [Next]_vars => [AdminNext]_adminVars
  BY DEF Next, vars
<1>3. [Next]_vars => [TrackerNext]_trackerVars
  BY DEF Next, vars
<1>4. [Next]_vars => [TunnelNext]_tunnelVars
  BY DEF Next, vars
<1>5. [Next]_vars => [LogNext]_logVars
  BY DEF Next, vars
<1>6. [Next]_vars => [CliNext]_cliVars
  BY DEF Next, vars
<1>7. [Next]_vars => [FilesNext]_fileVars
  BY DEF Next, vars
<1>8. QED
  BY <1>1, <1>2, <1>3, <1>4, <1>5, <1>6, <1>7, PTL
  DEF Spec, AdminSpec, TrackerSpec, TunnelSpec, LogSpec, CliSpec, FilesSpec

\* The error tracker's list and its file are short enough.
TrackerSized ==
  /\ Len(errors) <= MaxErrors /\ Len(file.list) <= MaxErrors
  /\ tracked <= MaxTracked
  /\ file.whole \in BOOLEAN /\ clearing \in BOOLEAN /\ failed \in BOOLEAN

LEMMA LatestShort ==
  ASSUME NEW list \in Seq(Nat)
  PROVE  Len(Latest(list)) <= MaxErrors
<1>1. Len(list) \in Nat /\ MaxErrors \in Nat \ {0}
  BY ErrorsAssumption, LenProperties
<1>2. CASE Len(list) > MaxErrors
  <2>1. Len(list) - MaxErrors + 1 \in 1..(Len(list) + 1)
    BY <1>1, <1>2
  <2>2. Len(SubSeq(list, Len(list) - MaxErrors + 1, Len(list))) = MaxErrors
    BY <1>1, <1>2, <2>1, SubSeqProperties
  <2>3. QED
    BY <1>1, <1>2, <2>2 DEF Latest
<1>3. CASE ~ (Len(list) > MaxErrors)
  BY <1>1, <1>3 DEF Latest
<1>4. QED
  BY <1>2, <1>3

LEMMA TrackerSizedNext ==
  TrackerInv /\ TrackerSized /\ [TrackerNext]_trackerVars => TrackerSized'
<1> SUFFICES ASSUME TrackerInv, TrackerSized, [TrackerNext]_trackerVars PROVE TrackerSized'
  OBVIOUS
<1>1. /\ tracked \in Nat /\ errors \in Seq(Nat \ {0}) /\ Len(errors) \in Nat
      /\ InOrder(errors, tracked) /\ MaxErrors \in Nat \ {0} /\ MaxTracked \in Nat
  BY ErrorsAssumption, LenProperties DEF TrackerInv, InOrder
<1>0. Len(<<>>) <= MaxErrors
  BY ErrorsAssumption, EmptySeq
<1>2. CASE Track
  <2>1. /\ tracked < MaxTracked /\ tracked' = tracked + 1
        /\ errors' = Latest(Append(errors, tracked + 1))
        /\ UNCHANGED <<file, clearing, failed>>
    BY <1>2 DEF Track
  <2>2. errors \in Seq(Nat) /\ tracked + 1 \in Nat
    BY <1>1
  <2>3. Append(errors, tracked + 1) \in Seq(Nat)
    BY <2>2, AppendProperties
  <2>4. Len(errors') <= MaxErrors
    BY <2>1, <2>3, LatestShort
  <2>5. tracked' <= MaxTracked
    BY <1>1, <2>1
  <2>6. QED
    BY <2>1, <2>4, <2>5 DEF TrackerSized
<1>3. ASSUME NEW at \in Younger, CleanupOldErrors(at) PROVE TrackerSized'
  <2>1. errors' = Kept(at) /\ UNCHANGED <<file, clearing, tracked, failed>>
    BY <1>3 DEF CleanupOldErrors
  <2>2. Len(Kept(at)) \in 0..Len(errors)
    BY <1>1, KeptInOrder
  <2>3. QED
    BY <1>1, <2>1, <2>2 DEF TrackerSized
<1>4. CASE Persist
  BY <1>4 DEF Persist, TrackerSized
<1>5. CASE PersistFails
  <2>1. /\ file' = file \/ file' = [whole |-> FALSE, list |-> <<>>]
        /\ failed' = TRUE /\ UNCHANGED <<errors, clearing, tracked>>
    BY <1>5 DEF PersistFails
  <2>2. CASE file' = file
    BY <2>1, <2>2 DEF TrackerSized
  <2>3. CASE file' = [whole |-> FALSE, list |-> <<>>]
    <3>1. file'.list = <<>> /\ file'.whole = FALSE
      BY <2>3
    <3>2. QED
      BY <1>0, <2>1, <3>1 DEF TrackerSized
  <2>4. QED
    BY <2>1, <2>2, <2>3
<1>6. CASE Clear
  BY <1>0, <1>6 DEF Clear, TrackerSized
<1>7. CASE TrackerRestart
  BY <1>0, <1>7 DEF TrackerRestart, TrackerSized
<1>8. CASE TrackerCrash
  BY <1>0, <1>8 DEF TrackerCrash, TrackerSized
<1>9. CASE UNCHANGED trackerVars
  BY <1>9 DEF trackerVars, TrackerSized
<1>10. QED
  BY <1>2, <1>3, <1>4, <1>5, <1>6, <1>7, <1>8, <1>9 DEF TrackerNext

LEMMA InOrderNumbers ==
  ASSUME NEW n \in Nat, NEW m \in Nat, n <= m, NEW list, InOrder(list, n)
  PROVE  list \in Seq(1..m)
<1>1. list \in Seq(Nat \ {0}) /\ \A i \in 1..Len(list) : list[i] <= n
  BY DEF InOrder
<1>2. \A i \in 1..Len(list) : list[i] \in 1..m
  BY <1>1
<1>3. QED
  BY <1>1, <1>2

LEMMA TrackerTyped == TrackerSpec => []TrackerTypeOK
<1>1. TrackerInit => TrackerSized
  <2> SUFFICES ASSUME TrackerInit PROVE TrackerSized
    OBVIOUS
  <2>1. Len(<<>>) <= MaxErrors /\ 0 <= MaxTracked
    BY ErrorsAssumption, EmptySeq
  <2>2. /\ errors = <<>> /\ file.list = <<>> /\ file.whole = TRUE
        /\ clearing = FALSE /\ failed = FALSE /\ tracked = 0
    BY DEF TrackerInit
  <2>3. QED
    BY <2>1, <2>2 DEF TrackerSized
<1>2. TrackerInv /\ TrackerSized => TrackerTypeOK
  <2> SUFFICES ASSUME TrackerInv, TrackerSized PROVE TrackerTypeOK
    OBVIOUS
  <2>1. /\ tracked \in Nat /\ persists \in Nat /\ MaxTracked \in Nat /\ tracked <= MaxTracked
        /\ InOrder(errors, tracked) /\ InOrder(file.list, tracked)
    BY ErrorsAssumption DEF TrackerInv, TrackerSized
  <2>2. errors \in Seq(1..MaxTracked) /\ file.list \in Seq(1..MaxTracked)
    BY <2>1, InOrderNumbers
  <2>3. file \in [whole: BOOLEAN, list: Seq(1..MaxTracked)]
    BY <2>2 DEF TrackerInv, TrackerSized
  <2>4. tracked \in 0..MaxTracked
    BY <2>1
  <2>5. QED
    BY <2>1, <2>2, <2>3, <2>4 DEF TrackerTypeOK, TrackerSized
<1>3. QED
  BY <1>1, <1>2, TrackerInvInit, TrackerInvNext, TrackerSizedNext, PTL DEF TrackerSpec

LEMMA NarrowSeq ==
  ASSUME NEW list \in Seq(Nat), NEW S, \A i \in 1..Len(list) : list[i] \in S
  PROVE  list \in Seq(S)
<1>1. Len(list) \in Nat /\ DOMAIN list = 1..Len(list) /\ list = [i \in 1..Len(list) |-> list[i]]
  BY LenProperties
<1>2. QED
  BY <1>1

\* No more entries are logged than the bound lets.
LEMMA LogTyped == LogSpec => []LogTypeOK
<1>1. LogInit => logged <= MaxEntries
  BY LogAssumption DEF LogInit
<1>2. LogInv /\ logged <= MaxEntries /\ [LogNext]_logVars => (logged <= MaxEntries)'
  BY LogAssumption DEF LogInv, LogNext, Log, ReopenFails, LogClosed, LogRestart, logVars
<1>3. LogInv /\ logged <= MaxEntries => LogTypeOK
  <2> SUFFICES ASSUME LogInv, logged <= MaxEntries PROVE LogTypeOK
    OBVIOUS
  <2>1. /\ logs \in [0..MaxBackups -> Seq(Nat)] /\ logged \in Nat /\ MaxEntries \in Nat
        /\ Entries \subseteq 1..logged
    BY LogAssumption DEF LogInv
  <2>2. ASSUME NEW i \in 0..MaxBackups PROVE logs[i] \in Seq(1..MaxEntries)
    <3>1. logs[i] \in Seq(Nat) /\ DOMAIN logs[i] = 1..Len(logs[i])
      BY <2>1, LenProperties
    <3>2. ASSUME NEW p \in 1..Len(logs[i]) PROVE logs[i][p] \in 1..MaxEntries
      <4>1. logs[i][p] \in 1..logged
        BY <2>1, <3>1, EntriesAre
      <4>2. QED
        BY <2>1, <4>1
    <3>3. QED
      BY <3>1, <3>2, NarrowSeq
  <2>3. logs \in [0..MaxBackups -> Seq(1..MaxEntries)] /\ logged \in 0..MaxEntries
    BY <2>1, <2>2
  <2>4. QED
    BY <2>3 DEF LogInv, LogTypeOK
<1>4. QED
  BY <1>1, <1>2, <1>3, LogInvInit, LogInvNext, PTL DEF LogSpec

LEMMA CliTyped == CliSpec => []CliTypeOK
<1>1. CliInv => CliTypeOK
  BY DEF CliInv
<1>2. QED
  BY <1>1, CliInvInit, CliInvNext, PTL DEF CliSpec

\* The configuration, the error list, the tunnel's callers and processes, the
\* log's files, the tools' files and the cached contents keep their types and
\* bounds: no more errors in memory or on disk than maxErrors, no more contents
\* than the cache has places.
THEOREM OperationsTyped == Spec => []TypeOK
<1>1. TunnelSpec => []TunnelTypeOK
  <2>1. TunnelInv => TunnelTypeOK
    BY DEF TunnelInv
  <2>2. QED
    BY <2>1, TunnelInvInit, TunnelInvNext, PTL DEF TunnelSpec
<1>2. FilesSpec => []FilesTypeOK
  <2>1. FilesInv /\ newer \subseteq File_ => FilesTypeOK
    BY DEF FilesInv, FilesTypeOK
  <2>2. QED
    BY <2>1, FilesInvInit, FilesInvNext, NewerTyped, PTL DEF FilesSpec
<1>3. AdminTypeOK /\ TrackerTypeOK /\ TunnelTypeOK /\ LogTypeOK /\ CliTypeOK /\ FilesTypeOK => TypeOK
  BY DEF TypeOK
<1>4. QED
  BY <1>1, <1>2, <1>3, EachHasItsSpec, AdminTyped, TrackerTyped, LogTyped, CliTyped, PTL

\* What is proved of each component holds when they stand beside each other: the
\* configuration, the tracker, the tunnel manager, the log, the tools' settings and
\* the file cache have each a mutex or files of their own and call none of the others.
THEOREM OperationsHold ==
  Spec => [](/\ EditsTakeEffect /\ TrackerFileCatchesUp /\ NoOrphanTunnel
             /\ LogKeepsNewest /\ CliSettingsHold /\ HintsExpandToLast)
BY EachHasItsSpec, EditsEverTakeEffect, FileCatchesUp, NoOrphanEver, KeepsNewestEver,
   SettingsHoldEver, HintsExpandEver, PTL
=============================================================================
