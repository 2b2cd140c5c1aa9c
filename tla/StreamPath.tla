----------------------------- MODULE StreamPath -----------------------------
(***************************************************************************)
(* What becomes of an upstream stream in a handler: a cached chat's is     *)
(* looked into first (Preflight), then the body, replayed or as it came,   *)
(* goes through a streamPacer (StreamPacer) to the client.                 *)
(***************************************************************************)
EXTENDS Preflight, StreamPacer, FiniteSetsExt

vars == <<preflightVars, pacerVars>>

Init == PreflightInit /\ PacerInit

\* The client leaves during the look-ahead: the context ends the read.
Abandon ==
  /\ verdict = "looking" /\ away /\ ~LineReady
  /\ verdict' = "failed"
  /\ UNCHANGED <<body, ending, pos, taken, base, room, saw, events, pacerVars>>

Open ==
  /\ verdict \in {"replay", "failed", "fresh"}
  /\ newStreamPacer(Downstream, ending)
  /\ UNCHANGED preflightVars

Next ==
  \/ PreflightNext /\ UNCHANGED pacerVars
  \/ Abandon
  \/ Open
  \/ PacerNext /\ UNCHANGED preflightVars

Spec == Init /\ [][Next]_vars

\* Go schedules the handler and the reader goroutine; the upstream delivers what
\* it has sent.  Nothing makes a client leave.
FairSpec ==
  /\ Spec
  /\ WF_vars(PreflightNext /\ UNCHANGED pacerVars)
  /\ WF_vars(Abandon)
  /\ WF_vars(Open)
  /\ WF_vars(ReaderStep /\ UNCHANGED preflightVars)
  /\ WF_vars(LoopStep /\ UNCHANGED preflightVars)

TypeOK == PreflightTypeOK /\ PacerTypeOK

\* The events up to the first [DONE], after which a handler stops listening.
UpToDone(evts) ==
  LET dones == {i \in 1 .. Len(evts) : evts[i] = "done"}
  IN SubSeq(evts, 1, IF dones = {} THEN Len(evts) ELSE Min(dones))

EndedWell == loop \in {"returned", "closed"} /\ result \in {"eof", "done"}

\* stream_pacer.go:209 "hands back the buffered bytes first, then continues to read
\* fresh bytes from the upstream": when a stream is taken to have ended well, the
\* handler was given every event the upstream sent, looked into or not.  The code
\* does not ensure it: what the scanner reads past the capture is lost.
CleanMeansComplete == EndedWell => seen = UpToDone(Sent)

\* What it does ensure: a stream read no further than the capture reaches the
\* handler whole, and of any other the lines that lie in the capture do, at the
\* head of what it is given.
CaptureComesThrough ==
  EndedWell => /\ pos <= Cap => seen = UpToDone(Sent)
               /\ LET kept == UpToDone(EventsOf(SubSeq(body, 1, Ended(Captured))))
                  IN kept = SubSeq(seen, 1, Len(kept))

\* qwen/stream.go:64 "A per-chunk read deadline is applied automatically so stalled
\* upstream connections produce a timeout error instead of blocking forever": every
\* stream is decided to be empty or reaches its end in the handler.  The code does
\* not ensure it: the body has no SetReadDeadline, and the deadline is never set.
NoStreamStalls == <>(verdict = "empty" \/ loop = "closed")

\* What it does ensure: an upstream that ends or breaks, and a client that leaves
\* also a stalled one, at the look-ahead or in the stream, brings it to an end,
\* whatever fills the channel.
StreamEnds == ending # "stall" \/ away ~> verdict = "empty" \/ loop = "closed"

=============================================================================
