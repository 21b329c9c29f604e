------------------------------ MODULE Transfer ------------------------------
(***************************************************************************)
(* pipeOp: an image on its way from the build server to the app server,    *)
(* the output of one remote command being the input of another, watched by *)
(* a stall detector, a ceiling, the connections and a signal.              *)
(*                                                                         *)
(* Whichever speaks first settles the transfer.  The commands, and how ssh *)
(* reports their ends, are what the code takes them to be.                 *)
(***************************************************************************)
EXTENDS Naturals

CONSTANTS
  Chunks,  \* the image
  Window,  \* what the pipe holds while the far side does not read
  MaxChecks  \* PIPE_MAX_MS, in PIPE_STALL_MS

VARIABLES
  pipe,    \* connecting, opening the destination's channel, the source's, flowing, over
  source,  \* docker save: it runs, hangs, has ended well or badly, or is closed
  sent,    \* chunks that came out of it: moved
  taken,   \* chunks the destination has read
  dest,    \* docker load: its input is open, or has ended
  watch,   \* the stall detector: seenAtLastCheck, sourceDone, checks so far
  aborted, \* the signal
  result   \* of the promise

vars == <<pipe, source, sent, taken, dest, watch, aborted, result>>

Nothing == Chunks + 1 \* seenAtLastCheck = -1

Init ==
  /\ pipe = "connects"
  /\ source = "none"
  /\ sent = 0 /\ taken = 0
  /\ dest = "none"
  /\ watch = [seen |-> Nothing, done |-> FALSE, checks |-> 0]
  /\ aborted = FALSE
  /\ result = "none"

Pending == result = "none"
Settles(how) == result' = how

----------------------------------------------------------------------------
(* Setting up.                                                             *)

(* Both connections are there; from here on the signal is listened to.     *)
Listen ==
  /\ Pending /\ pipe = "connects"
  /\ pipe' = "destination"
  /\ UNCHANGED <<source, sent, taken, dest, watch, aborted, result>>

ConnectFails ==
  /\ Pending /\ pipe = "connects"
  /\ Settles("error")
  /\ UNCHANGED <<pipe, source, sent, taken, dest, watch, aborted>>

DestinationOpens ==
  /\ Pending /\ pipe = "destination"
  /\ pipe' = "source" /\ dest' = "open"
  /\ UNCHANGED <<source, sent, taken, watch, aborted, result>>

SourceOpens ==
  /\ Pending /\ pipe = "source"
  /\ pipe' = "flows" /\ source' = "runs"
  /\ UNCHANGED <<sent, taken, dest, watch, aborted, result>>

ExecFails ==
  /\ Pending /\ pipe \in {"destination", "source"}
  /\ Settles("error")
  /\ UNCHANGED <<pipe, source, sent, taken, dest, watch, aborted>>

----------------------------------------------------------------------------
(* The source.                                                             *)

Data ==
  /\ Pending /\ source = "runs" /\ sent < Chunks /\ sent - taken < Window
  /\ sent' = sent + 1
  /\ UNCHANGED <<pipe, source, taken, dest, watch, aborted, result>>

EndsUnnoticed ==
  /\ Pending /\ source = "runs"
  /\ source' = IF sent = Chunks THEN "ended" ELSE "broke"
  /\ dest' = "ended"
  /\ UNCHANGED <<pipe, sent, taken, watch, aborted, result>>

(* 'end': the last byte is out, or the command stopped short of it.        *)
SourceEnds ==
  /\ Pending /\ source = "runs"
  /\ source' = IF sent = Chunks THEN "ended" ELSE "broke"
  /\ watch' = [watch EXCEPT !.done = TRUE]
  /\ dest' = "ended"
  /\ UNCHANGED <<pipe, sent, taken, aborted, result>>

(* 'close', with an exit code or without: only one that is not zero fails. *)
SourceCloses ==
  /\ Pending /\ source \in {"ended", "broke"}
  /\ \/ source = "broke" /\ Settles("error") /\ UNCHANGED <<watch, dest>>
     \/ watch' = [watch EXCEPT !.done = TRUE] /\ dest' = "ended" /\ UNCHANGED result
  /\ source' = "closed"
  /\ UNCHANGED <<pipe, sent, taken, aborted>>

SourceHangs ==
  /\ Pending /\ source = "runs"
  /\ source' = "hangs"
  /\ UNCHANGED <<pipe, sent, taken, dest, watch, aborted, result>>

----------------------------------------------------------------------------
(* The destination.                                                        *)

Takes ==
  /\ Pending /\ taken < sent
  /\ taken' = taken + 1
  /\ UNCHANGED <<pipe, source, sent, dest, watch, aborted, result>>

(* It unpacks, as long as it takes, and exits; with zero only when what it *)
(* read was whole.                                                         *)
DestinationCloses ==
  /\ Pending /\ dest = "ended" /\ taken = sent
  /\ Settles(IF taken = Chunks THEN "loaded" ELSE "error")
  /\ UNCHANGED <<pipe, source, sent, taken, dest, watch, aborted>>

DestinationFails ==
  /\ Pending /\ dest # "none"
  /\ Settles("error")
  /\ UNCHANGED <<pipe, source, sent, taken, dest, watch, aborted>>

----------------------------------------------------------------------------
(* What watches it.                                                        *)

Stalled == ~watch.done /\ sent = watch.seen

(* A source that runs sends something between two checks, or waits for a   *)
(* destination that reads something; one that is through says so.          *)
Sluggish == source = "runs" /\ sent = watch.seen

Check ==
  /\ Pending /\ pipe # "connects" /\ ~Sluggish
  /\ watch' = [watch EXCEPT !.seen = sent, !.checks = @ + 1]
  /\ Settles(IF Stalled THEN "stalled"
             ELSE IF watch.checks + 1 >= MaxChecks THEN "late" ELSE "none")
  /\ UNCHANGED <<pipe, source, sent, taken, dest, aborted>>

ConnectionDies ==
  /\ Pending /\ pipe # "connects"
  /\ Settles("error")
  /\ UNCHANGED <<pipe, source, sent, taken, dest, watch, aborted>>

(* Nobody listens while the connections are made.                          *)
Abort ==
  /\ Pending /\ ~aborted
  /\ aborted' = TRUE
  /\ Settles(IF pipe = "connects" THEN "none" ELSE "aborted")
  /\ UNCHANGED <<pipe, source, sent, taken, dest, watch>>

(* The connections are ended, and both commands with them.                 *)
Finally ==
  /\ ~Pending /\ pipe # "over"
  /\ pipe' = "over"
  /\ UNCHANGED <<source, sent, taken, dest, watch, aborted, result>>

Starts == Listen \/ DestinationOpens \/ SourceOpens
Flows == Data \/ SourceEnds \/ Takes \/ DestinationCloses

Next ==
  \/ Starts \/ ConnectFails \/ ExecFails
  \/ Flows \/ SourceCloses \/ SourceHangs \/ DestinationFails
  \/ Check \/ ConnectionDies \/ Abort \/ Finally

Spec == Init /\ [][Next]_vars

(* Connecting has a time limit of its own, and timers go off.              *)
FairSpec ==
  /\ Spec
  /\ WF_vars(Listen) /\ WF_vars(Check) /\ WF_vars(Flows) /\ WF_vars(Finally)

----------------------------------------------------------------------------
(* Properties.                                                             *)

TypeOK ==
  /\ pipe \in {"connects", "destination", "source", "flows", "over"}
  /\ source \in {"none", "runs", "hangs", "ended", "broke", "closed"}
  /\ sent \in 0 .. Chunks /\ taken \in 0 .. sent
  /\ dest \in {"none", "open", "ended"}
  /\ watch \in [seen : 0 .. Nothing, done : BOOLEAN, checks : 0 .. MaxChecks]
  /\ aborted \in BOOLEAN
  /\ result \in {"none", "loaded", "stalled", "late", "aborted", "error"}

(* "Silence means death only while the SOURCE is still sending": what is   *)
(* failed as stalled has gone silent short of its end, however long the    *)
(* far side unpacks; and what is loaded is whole.                          *)
SilenceIsDeath ==
  /\ result = "stalled" => source \in {"none", "hangs"}
  /\ result = "loaded" => taken = Chunks

(* "An unforeseen stall cannot park a deploy forever": it comes to an end, *)
(* and its commands with it.                                               *)
ComesToAnEnd == <>(pipe = "over")

----------------------------------------------------------------------------
(* What the code does not keep: TLC refutes it, see README, section 4.     *)

(* An abort "ends both remote commands, not just the wait": what was       *)
(* aborted is not loaded.                                                  *)
AbortIsHeard == result = "loaded" => ~aborted

=============================================================================
