------------------------------- MODULE Tunnel -------------------------------
(***************************************************************************)
(* The tunnel manager (tunnel.go) behind the admin endpoints               *)
(* (tunnel_api.go), and the cloudflared processes it starts.  One mutex is *)
(* held for the whole of a Start, up to thirty seconds while cloudflared   *)
(* has not printed its URL.  At the end of the server run() stops the      *)
(* tunnel only if Shutdown found every request finished (main.go:191-201). *)
(***************************************************************************)
EXTENDS Naturals, FiniteSets

CONSTANTS Callers,     \* requests to the tunnel endpoints that may overlap
          MaxProcs     \* cloudflared processes started in a behaviour

VARIABLES lock,        \* the caller that holds Manager.mu, or None
          manager,     \* Manager.running and whether .url is set
          procs,       \* the state of each process started so far
          printed,     \* processes whose URL is in their urlChan
          call,        \* where each request is
          server       \* how the server ended, or "up"

tunnelVars == <<lock, manager, procs, printed, call, server>>

ASSUME ProcsAssumption == MaxProcs \in Nat /\ "none" \notin Callers

None == "none"
Started == DOMAIN procs
Current == Cardinality(Started)
Live == {p \in Started : procs[p] = "live"}

TunnelInit ==
  /\ lock = None
  /\ manager = [running |-> FALSE, url |-> FALSE]
  /\ procs = <<>>
  /\ printed = {}
  /\ call = [c \in Callers |-> "idle"]
  /\ server = "up"

Go(c, pc) == call' = [call EXCEPT ![c] = pc]
Release(c) == lock' = None /\ Go(c, "idle")

\* Start, Stop and Status begin by waiting for the mutex; so does the Stop that
\* Start itself calls on a timeout, with the mutex in hand.
Request(c) ==
  /\ server = "up" /\ call[c] = "idle"
  /\ \E op \in {"start", "stop", "status"} : Go(c, op)
  /\ UNCHANGED <<lock, manager, procs, printed, server>>

Free(c) == server = "up" /\ lock = None

\* A running tunnel's URL is returned as it is; otherwise a process is started.
AlreadyRunning(c) ==
  /\ Free(c) /\ call[c] = "start" /\ manager.running
  /\ Go(c, "idle")
  /\ UNCHANGED <<lock, manager, procs, printed, server>>

Spawn(c) ==
  /\ Free(c) /\ call[c] = "start" /\ ~manager.running
  /\ Current < MaxProcs
  /\ lock' = c /\ Go(c, "select")
  /\ manager' = [manager EXCEPT !.running = TRUE]
  /\ procs' = [p \in 1..(Current + 1) |-> IF p \in Started THEN procs[p] ELSE "live"]
  /\ UNCHANGED <<printed, server>>

SpawnFails(c) ==
  /\ Free(c) /\ call[c] = "start" /\ ~manager.running
  /\ Go(c, "idle")
  /\ UNCHANGED <<lock, manager, procs, printed, server>>

\* The three ways out of Start's select.
GotURL(c) ==
  /\ call[c] = "select" /\ Current \in printed
  /\ manager' = [manager EXCEPT !.url = TRUE]
  /\ Release(c)
  /\ UNCHANGED <<procs, printed, server>>

GotError(c) ==
  /\ call[c] = "select" /\ procs[Current] = "failed"
  /\ manager' = [manager EXCEPT !.running = FALSE]
  /\ Release(c)
  /\ UNCHANGED <<procs, printed, server>>

\* Mutant of TimedOut: the manager gives up without killing the process.
GivenUp(c) ==
  /\ call[c] = "select"
  /\ manager' = [manager EXCEPT !.running = FALSE]
  /\ Release(c)
  /\ UNCHANGED <<procs, printed, server>>

TimedOut(c) ==
  /\ call[c] = "select"
  /\ Go(c, "stop")
  /\ UNCHANGED <<lock, manager, procs, printed, server>>

Killed == [p \in Started |-> IF p = Current /\ procs[p] = "live" THEN "failed" ELSE procs[p]]

Stopped ==
  IF manager.running
  THEN /\ procs' = Killed
       /\ manager' = [running |-> FALSE, url |-> FALSE]
  ELSE UNCHANGED <<procs, manager>>

Stop(c) ==
  /\ Free(c) /\ call[c] = "stop"
  /\ Stopped
  /\ Go(c, "idle")
  /\ UNCHANGED <<lock, printed, server>>

Status(c) ==
  /\ Free(c) /\ call[c] = "status"
  /\ Go(c, "idle")
  /\ UNCHANGED <<lock, manager, procs, printed, server>>

\* cloudflared prints its URL, and exits, when it likes: with an error, which
\* reaches errChan, or cleanly, which reaches nobody.
Prints(p) ==
  /\ p \in Live
  /\ printed' = printed \union {p}
  /\ UNCHANGED <<lock, manager, procs, call, server>>

Exits(p) ==
  /\ p \in Live
  /\ \E how \in {"failed", "done"} : procs' = [procs EXCEPT ![p] = how]
  /\ UNCHANGED <<lock, manager, printed, call, server>>

\* A signal ends the server: cleanly when no request is left, or after ten
\* seconds with the requests cut and the tunnel not stopped.
Shutdown ==
  /\ server = "up"
  /\ IF \A c \in Callers : call[c] = "idle"
     THEN server' = "stopped" /\ Stopped
     ELSE server' = "cut" /\ UNCHANGED <<procs, manager>>
  /\ UNCHANGED <<lock, printed, call>>

TunnelNext ==
  \/ \E c \in Callers :
       \/ Request(c) \/ AlreadyRunning(c) \/ Spawn(c) \/ SpawnFails(c)
       \/ GotURL(c) \/ GotError(c) \/ TimedOut(c) \/ Stop(c) \/ Status(c)
  \/ \E p \in Started : Prints(p) \/ Exits(p)
  \/ Shutdown

\* Every request goes on as soon as it can, and Start's timer fires.
TunnelFairness ==
  \A c \in Callers :
    /\ WF_tunnelVars(Stop(c)) /\ WF_tunnelVars(Status(c))
    /\ WF_tunnelVars(AlreadyRunning(c) \/ Spawn(c) \/ SpawnFails(c))
    /\ WF_tunnelVars(GotURL(c) \/ GotError(c) \/ TimedOut(c))

TunnelSpec == TunnelInit /\ [][TunnelNext]_tunnelVars
FairTunnel == TunnelSpec /\ TunnelFairness
----------------------------------------------------------------------------
TunnelTypeOK ==
  /\ lock \in Callers \union {None}
  /\ manager \in [running: BOOLEAN, url: BOOLEAN]
  /\ Current <= MaxProcs /\ procs \in [1..Current -> {"live", "failed", "done"}]
  /\ printed \subseteq Started
  /\ call \in [Callers -> {"idle", "start", "stop", "status", "select"}]
  /\ server \in {"up", "stopped", "cut"}

\* At most one cloudflared exposes the server, none that the manager does not
\* know of and would start another beside (tunnel.go:37-39, 131, 158), and none
\* is left behind by a server that ended cleanly (main.go:199-201).
NoOrphanTunnel ==
  /\ Cardinality(Live) <= 1
  /\ lock = None /\ ~manager.running => Live = {}
  /\ server = "stopped" => Live = {}

\* "Stop terminates the tunnel" (tunnel.go:139): a Stop leads to a state with
\* no cloudflared alive, unless the server has ended.
StopTerminates ==
  \A c \in Callers : call[c] = "stop" ~> (Live = {} \/ server # "up")
============================================================================
