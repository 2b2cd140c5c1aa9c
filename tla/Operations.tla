----------------------------- MODULE Operations -----------------------------
(***************************************************************************)
(* The operator's side of the server and the file cache.  The components   *)
(* share no state: a behaviour lets one of them run, and the run explores  *)
(* them side by side instead of their product.                             *)
(***************************************************************************)
EXTENDS AdminConfig, ErrorTracker, Tunnel, ReqLog, CliConfig, FileCache

VARIABLE focus         \* the component that runs

vars == <<focus, adminVars, trackerVars, tunnelVars, logVars, cliVars, fileVars>>

Init == /\ focus \in {"admin", "errors", "tunnel", "log", "cli", "files"}
        /\ AdminInit /\ TrackerInit /\ TunnelInit /\ LogInit /\ FilesInit
        /\ CliInit /\ (focus = "cli" \/ tool = "claude")

Next ==
  /\ \/ /\ focus = "admin" /\ AdminNext
        /\ UNCHANGED <<trackerVars, tunnelVars, logVars, cliVars, fileVars>>
     \/ /\ focus = "errors" /\ TrackerNext
        /\ UNCHANGED <<adminVars, tunnelVars, logVars, cliVars, fileVars>>
     \/ /\ focus = "tunnel" /\ TunnelNext
        /\ UNCHANGED <<adminVars, trackerVars, logVars, cliVars, fileVars>>
     \/ /\ focus = "log" /\ LogNext
        /\ UNCHANGED <<adminVars, trackerVars, tunnelVars, cliVars, fileVars>>
     \/ /\ focus = "cli" /\ CliNext
        /\ UNCHANGED <<adminVars, trackerVars, tunnelVars, logVars, fileVars>>
     \/ /\ focus = "files" /\ FilesNext
        /\ UNCHANGED <<adminVars, trackerVars, tunnelVars, logVars, cliVars>>
  /\ UNCHANGED focus

Spec == Init /\ [][Next]_vars

TypeOK == /\ AdminTypeOK /\ TrackerTypeOK /\ TunnelTypeOK /\ LogTypeOK /\ CliTypeOK
          /\ FilesTypeOK
============================================================================
