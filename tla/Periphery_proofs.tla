--------------------------- MODULE Periphery_proofs ---------------------------
(***************************************************************************)
(* For any number of sessions, requests, chunks, turns, clicks and deaths: *)
(* the seven parts of Periphery keep their types and their promises.  Each *)
(* has an inductive invariant of its own, since none of them touches       *)
(* another's variables.                                                    *)
(***************************************************************************)
EXTENDS Periphery, Sequences, FiniteSetTheorems, TLAPS

LEMMA Bounds ==
  /\ MaxConcurrent \in Nat /\ Ttl \in Nat /\ IdleFor \in Nat /\ RenewWithin \in Nat
  /\ MaxTotal \in Nat /\ LastIssue \in Nat /\ MaxEdits \in Nat /\ MaxChanges \in Nat
  /\ Chunks \in Nat /\ Window \in Nat /\ MaxChecks \in Nat /\ MaxTurns \in Nat
  /\ MaxPairs \in Nat /\ MaxDeaths \in Nat
BY BoundsAssumption

----------------------------------------------------------------------------
(* Transfer.                                                               *)

(* A source that is through has said so to the stall detector, and the     *)
(* ceiling is not reached while the transfer is pending.                   *)
Watched ==
  /\ source \in {"ended", "broke", "closed"} => watch.done
  /\ result = "none" => watch.checks < MaxChecks

TransferInv == Tr!TypeOK /\ Watched /\ Tr!SilenceIsDeath

WatchTyped == watch \in [seen : 0 .. Tr!Nothing, done : BOOLEAN, checks : 0 .. MaxChecks]
FlowTyped == sent \in 0 .. Chunks /\ taken \in 0 .. sent
PipeTyped ==
  /\ pipe \in {"connects", "destination", "source", "flows", "over"}
  /\ source \in {"none", "runs", "hangs", "ended", "broke", "closed"}
  /\ dest \in {"none", "open", "ended"}
  /\ result \in {"none", "loaded", "stalled", "late", "aborted", "error"}

LEMMA TransferTyped == Tr!TypeOK <=> WatchTyped /\ FlowTyped /\ PipeTyped /\ aborted \in BOOLEAN
BY DEF Tr!TypeOK, WatchTyped, FlowTyped, PipeTyped

LEMMA TransferStarts == Tr!Init => TransferInv
<1> SUFFICES ASSUME Tr!Init PROVE TransferInv
  OBVIOUS
<1> USE Bounds, WindowsAssumption
<1>1. WatchTyped
  BY DEF Tr!Init, WatchTyped, Tr!Nothing
<1>2. FlowTyped /\ PipeTyped
  BY DEF Tr!Init, FlowTyped, PipeTyped
<1>3. aborted \in BOOLEAN
  BY DEF Tr!Init
<1>4. Watched /\ Tr!SilenceIsDeath
  BY DEF Tr!Init, Watched, Tr!SilenceIsDeath
<1> QED
  BY <1>1, <1>2, <1>3, <1>4, TransferTyped DEF TransferInv

LEMMA TransferContinues == TransferInv /\ [Tr!Next]_transfer => TransferInv'
<1> SUFFICES ASSUME TransferInv, [Tr!Next]_transfer PROVE TransferInv'
  OBVIOUS
<1> USE Bounds DEF Tr!Pending, Tr!Settles
<1> DEFINE Quiet == \/ Tr!Starts \/ Tr!ConnectFails \/ Tr!ExecFails
                    \/ Tr!Data \/ Tr!Takes \/ Tr!DestinationCloses
                    \/ Tr!SourceHangs \/ Tr!DestinationFails \/ Tr!ConnectionDies \/ Tr!Finally
<1>0. WatchTyped /\ FlowTyped /\ PipeTyped /\ Watched /\ Tr!SilenceIsDeath /\ aborted \in BOOLEAN
  BY TransferTyped DEF TransferInv
<1>1. CASE Quiet
  <2> USE DEF Tr!Starts, Tr!Listen, Tr!DestinationOpens, Tr!SourceOpens, Tr!ConnectFails,
       Tr!ExecFails, Tr!Data, Tr!Takes, Tr!DestinationCloses, Tr!SourceHangs,
       Tr!DestinationFails, Tr!ConnectionDies, Tr!Finally
  <2>1. WatchTyped' /\ aborted' \in BOOLEAN
    BY <1>0, <1>1 DEF WatchTyped, Tr!Nothing
  <2>2. FlowTyped' /\ PipeTyped'
    BY <1>0, <1>1 DEF FlowTyped, PipeTyped
  <2>3. Watched' /\ Tr!SilenceIsDeath'
    BY <1>0, <1>1 DEF Watched, FlowTyped, PipeTyped, Tr!SilenceIsDeath
  <2> QED
    BY <2>1, <2>2, <2>3 DEF TransferInv, Tr!TypeOK, WatchTyped, FlowTyped, PipeTyped
<1>2. CASE Tr!SourceEnds \/ Tr!SourceCloses
  <2>1. WatchTyped' /\ watch'.checks = watch.checks
    BY <1>0, <1>2 DEF WatchTyped, Tr!Nothing, Tr!SourceEnds, Tr!SourceCloses
  <2>2. watch'.done
    BY <1>0, <1>2 DEF WatchTyped, Watched, Tr!SourceEnds, Tr!SourceCloses
  <2>3. FlowTyped' /\ PipeTyped' /\ aborted' \in BOOLEAN
    BY <1>0, <1>2 DEF FlowTyped, PipeTyped, Tr!SourceEnds, Tr!SourceCloses
  <2>4. Watched' /\ Tr!SilenceIsDeath'
    BY <1>0, <1>2, <2>1, <2>2 DEF PipeTyped, Watched, Tr!SilenceIsDeath,
       Tr!SourceEnds, Tr!SourceCloses
  <2> QED
    BY <2>1, <2>3, <2>4 DEF TransferInv, Tr!TypeOK, WatchTyped, FlowTyped, PipeTyped
<1>3. CASE Tr!Check
  <2>0. watch' = [watch EXCEPT !.seen = sent, !.checks = @ + 1]
    BY <1>3 DEF Tr!Check
  <2>1. /\ watch'.done <=> watch.done
        /\ watch'.checks = watch.checks + 1
    BY <1>0, <2>0 DEF WatchTyped, Tr!Nothing
  <2>2. watch'.checks \in 0 .. MaxChecks
    BY <1>0, <1>3, <2>1 DEF Tr!Check, WatchTyped, Watched
  <2>3. sent \in 0 .. Chunks + 1 /\ watch.checks + 1 \in 0 .. MaxChecks
    BY <1>0, <2>1, <2>2 DEF FlowTyped
  <2>4. WatchTyped'
    BY <1>0, <2>0, <2>3 DEF WatchTyped, Tr!Nothing
  <2>5. FlowTyped' /\ PipeTyped' 
    BY <1>0, <1>3 DEF Tr!Check, FlowTyped, PipeTyped
  <2>6. aborted' \in BOOLEAN
    BY <1>0, <1>3 DEF Tr!Check
  <2>7. Watched' /\ Tr!SilenceIsDeath'
    BY <1>0, <1>3, <2>1 DEF Tr!Check, Tr!Stalled, Tr!Sluggish, Watched, WatchTyped, 
       PipeTyped, Tr!SilenceIsDeath
  <2> QED
    BY <2>4, <2>5, <2>6, <2>7 DEF TransferInv, Tr!TypeOK, WatchTyped, FlowTyped, PipeTyped
<1>4. CASE Tr!Abort
  <2>1. WatchTyped' /\ FlowTyped' /\ PipeTyped'
    BY <1>0, <1>4 DEF Tr!Abort, WatchTyped, FlowTyped, PipeTyped, Tr!Nothing
  <2>2. aborted' \in BOOLEAN
    BY <1>4 DEF Tr!Abort
  <2>3. Watched' /\ Tr!SilenceIsDeath'
    BY <1>0, <1>4 DEF Tr!Abort, Watched, Tr!SilenceIsDeath
  <2> QED
    BY <2>1, <2>2, <2>3 DEF TransferInv, Tr!TypeOK, WatchTyped, FlowTyped, PipeTyped
<1>5. CASE UNCHANGED transfer
  BY <1>5 DEF transfer, TransferInv, Tr!TypeOK, Watched, Tr!SilenceIsDeath, Tr!Nothing
<1> QED
  BY <1>1, <1>2, <1>3, <1>4, <1>5 DEF Tr!Next, Tr!Flows

----------------------------------------------------------------------------
(* Shells.                                                                 *)

Renewals == [next : Sh!Times, moved : BOOLEAN]
Shells0 == [phase : {"none", "issued", "redeemed", "connecting", "up", "over"},
            row : Sh!Outcomes \union {"none", "open"},
            until : Sh!Times, opened : Sh!Times, deadline : Sh!Times,
            ended : BOOLEAN, ssh : BOOLEAN, typed : Nat, touched : Nat,
            closing : Sh!Outcomes \union {"none"}, renewals : SUBSET Renewals]

Alive(h) == h.phase \in {"connecting", "up"} /\ ~h.ended

(* What holds of a session at time n.  Before the gateway has it, it is    *)
(* young and its window is the first; while it is held, the deadline, and  *)
(* every renewal that may still move it, stays within the window after the *)
(* last keystroke and under the ceiling; and whoever ends it finds the row *)
(* open and nobody else's outcome on its way.                              *)
Fits(h, n) ==
  /\ h.opened <= LastIssue /\ h.opened <= n /\ h.typed <= n /\ h.touched <= n
  /\ h.phase = "none" => h.row = "none"
  /\ h.phase \in {"issued", "redeemed"} =>
       /\ n <= h.opened + 1 /\ h.until = h.opened + Ttl
       /\ h.row = "open" /\ h.closing = "none" /\ h.renewals = {} /\ ~h.ended
  /\ Alive(h) =>
       /\ h.row = "open" /\ h.closing = "none"
       /\ n <= h.touched + IdleFor /\ n <= h.typed + Ttl /\ n <= h.opened + MaxTotal
       /\ h.deadline <= h.typed + Ttl /\ h.deadline <= h.opened + MaxTotal
       /\ \A r \in h.renewals : r.next <= h.typed + Ttl /\ r.next <= h.opened + MaxTotal
  /\ h.closing # "none" => h.row = "open"

Registry ==
  /\ now \in 0 .. LastIssue + MaxTotal + 1
  /\ server \in BOOLEAN
  /\ live \subseteq Sessions

ShellsInv ==
  /\ Registry
  /\ shell \in [Sessions -> Shells0]
  /\ \A s \in Sessions : Fits(shell[s], now)

Good(h, n) == h \in Shells0 /\ Fits(h, n)

(* A step from one state of a session to another: an outcome that is on    *)
(* the row stays, and the window with it.                                  *)
Turns(h, g, n) ==
  /\ Good(g, n)
  /\ h.row \in Sh!Outcomes => g.row = h.row /\ g.until = h.until

LEMMA FitsUnborn == Good(Sh!Unborn, 0)
BY Bounds DEF Good, Fits, Shells0, Alive, Sh!Unborn, Sh!Times, Sh!Outcomes

LEMMA FitsIssued ==
  ASSUME NEW n \in Nat, n <= LastIssue
  PROVE  /\ Good([Sh!Unborn EXCEPT !.phase = "over", !.row = "refused", !.until = n], n)
         /\ Good([Sh!Unborn EXCEPT !.phase = "issued", !.row = "open",
                                   !.until = n + Ttl, !.opened = n], n)
<1>1. n \in Sh!Times /\ n + Ttl \in Sh!Times /\ 0 \in Sh!Times
  BY Bounds, WindowsAssumption DEF Sh!Times
<1>2. /\ [Sh!Unborn EXCEPT !.phase = "over", !.row = "refused", !.until = n] \in Shells0
      /\ [Sh!Unborn EXCEPT !.phase = "issued", !.row = "open",
                                   !.until = n + Ttl, !.opened = n] \in Shells0
  BY <1>1 DEF Shells0, Sh!Unborn, Sh!Outcomes
<1>3. /\ Fits([Sh!Unborn EXCEPT !.phase = "over", !.row = "refused", !.until = n], n)
      /\ Fits([Sh!Unborn EXCEPT !.phase = "issued", !.row = "open",
                                   !.until = n + Ttl, !.opened = n], n)
  BY Bounds DEF Fits, Alive, Sh!Unborn
<1> QED
  BY <1>2, <1>3 DEF Good

LEMMA FitsRedeemed ==
  ASSUME NEW h, NEW n \in Nat, Good(h, n), h.phase = "issued"
  PROVE  /\ Turns(h, [h EXCEPT !.phase = "redeemed"], n)
         /\ Turns(h, [h EXCEPT !.phase = "over"], n)
         /\ Turns(h, [h EXCEPT !.phase = "over", !.closing = "expired"], n)
<1>1. h \in Shells0 /\ Fits(h, n)
  BY DEF Good
<1>2. /\ [h EXCEPT !.phase = "redeemed"] \in Shells0
      /\ [h EXCEPT !.phase = "over"] \in Shells0
      /\ [h EXCEPT !.phase = "over", !.closing = "expired"] \in Shells0
  BY <1>1 DEF Shells0, Sh!Outcomes
<1>3. /\ Fits([h EXCEPT !.phase = "redeemed"], n)
      /\ Fits([h EXCEPT !.phase = "over"], n)
      /\ Fits([h EXCEPT !.phase = "over", !.closing = "expired"], n)
  BY <1>1 DEF Shells0, Fits, Alive
<1> QED
  BY <1>1, <1>2, <1>3 DEF Good, Turns, Shells0, Fits, Alive, Sh!Outcomes

LEMMA FitsHeld ==
  ASSUME NEW h, NEW n \in Nat, Good(h, n), h.phase = "redeemed"
  PROVE  /\ Turns(h, [h EXCEPT !.phase = "over"], n)
         /\ Turns(h, [h EXCEPT !.phase = "connecting", !.deadline = h.until,
                           !.typed = h.opened, !.touched = n], n)
<1>1. h \in Shells0 /\ Fits(h, n)
  BY DEF Good
<1>2. /\ [h EXCEPT !.phase = "over"] \in Shells0
      /\ [h EXCEPT !.phase = "connecting", !.deadline = h.until,
                           !.typed = h.opened, !.touched = n] \in Shells0
  <2>1. h.until \in Sh!Times /\ h.opened \in Nat
    BY <1>1, Bounds DEF Shells0, Sh!Times
  <2> QED
    BY <1>1, <2>1 DEF Shells0
<1>3. Fits([h EXCEPT !.phase = "over"], n)
  BY <1>1 DEF Shells0, Fits, Alive
<1>4. Fits([h EXCEPT !.phase = "connecting", !.deadline = h.until,
                           !.typed = h.opened, !.touched = n], n)
  BY <1>1, Bounds, WindowsAssumption DEF Shells0, Fits, Alive, Sh!Times
<1> QED
  BY <1>1, <1>2, <1>3, <1>4 DEF Good, Turns, Shells0, Fits, Alive, Sh!Outcomes

LEMMA FitsEnded ==
  ASSUME NEW h, NEW n \in Nat, Good(h, n), Alive(h), NEW o \in Sh!Outcomes
  PROVE  /\ Turns(h, [h EXCEPT !.ended = TRUE, !.ssh = FALSE, !.closing = o], n)
         /\ Turns(h, [h EXCEPT !.phase = "over", !.ended = TRUE, !.closing = o], n)
<1>1. h \in Shells0 /\ Fits(h, n)
  BY DEF Good
<1>2. /\ [h EXCEPT !.ended = TRUE, !.ssh = FALSE, !.closing = o] \in Shells0
      /\ [h EXCEPT !.phase = "over", !.ended = TRUE, !.closing = o] \in Shells0
  BY <1>1 DEF Shells0
<1>3. /\ Fits([h EXCEPT !.ended = TRUE, !.ssh = FALSE, !.closing = o], n)
      /\ Fits([h EXCEPT !.phase = "over", !.ended = TRUE, !.closing = o], n)
  BY <1>1 DEF Shells0, Fits, Alive
<1> QED
  BY <1>1, <1>2, <1>3 DEF Good, Turns, Shells0, Fits, Alive, Sh!Outcomes

LEMMA FitsClosed ==
  ASSUME NEW h, NEW n \in Nat, Good(h, n), h.closing # "none"
  PROVE  Turns(h, [h EXCEPT !.row = h.closing, !.closing = "none"], n)
<1>1. h \in Shells0 /\ Fits(h, n)
  BY DEF Good
<1>2. [h EXCEPT !.row = h.closing, !.closing = "none"] \in Shells0
  BY <1>1 DEF Shells0
<1>3. Fits([h EXCEPT !.row = h.closing, !.closing = "none"], n)
  BY <1>1 DEF Shells0, Fits, Alive
<1> QED
  BY <1>1, <1>2, <1>3 DEF Good, Turns, Shells0, Fits, Alive, Sh!Outcomes

LEMMA FitsConnection ==
  ASSUME NEW h, NEW n \in Nat, Good(h, n), h.phase \in {"connecting", "up"}
  PROVE  /\ Turns(h, [h EXCEPT !.phase = "up", !.ssh = TRUE], n)
         /\ h.ended => Turns(h, [h EXCEPT !.phase = "over"], n)
         /\ h.ended => Turns(h, [h EXCEPT !.ssh = FALSE], n)
<1>1. h \in Shells0 /\ Fits(h, n)
  BY DEF Good
<1>2. /\ [h EXCEPT !.phase = "up", !.ssh = TRUE] \in Shells0
      /\ [h EXCEPT !.phase = "over"] \in Shells0
      /\ [h EXCEPT !.ssh = FALSE] \in Shells0
  BY <1>1 DEF Shells0
<1>3. /\ Fits([h EXCEPT !.phase = "up", !.ssh = TRUE], n)
      /\ h.ended => Fits([h EXCEPT !.phase = "over"], n)
      /\ h.ended => Fits([h EXCEPT !.ssh = FALSE], n)
  BY <1>1 DEF Shells0, Fits, Alive
<1> QED
  BY <1>1, <1>2, <1>3 DEF Good, Turns, Shells0, Fits, Alive, Sh!Outcomes

LEMMA FitsTraffic ==
  ASSUME NEW h, NEW n \in Nat, Good(h, n), Alive(h), NEW R \in SUBSET Renewals,
         \A r \in R : r.next <= n + Ttl /\ r.next <= h.opened + MaxTotal
  PROVE  /\ Turns(h, [h EXCEPT !.touched = n], n)
         /\ Turns(h, [h EXCEPT !.touched = n, !.typed = n, !.renewals = h.renewals \union R], n)
<1>1. h \in Shells0 /\ Fits(h, n)
  BY DEF Good
<1>2. /\ [h EXCEPT !.touched = n] \in Shells0
      /\ [h EXCEPT !.touched = n, !.typed = n, !.renewals = h.renewals \union R] \in Shells0
  BY <1>1 DEF Shells0
<1>3. Fits([h EXCEPT !.touched = n], n)
  BY <1>1, Bounds, WindowsAssumption DEF Shells0, Fits, Alive
<1>4. Fits([h EXCEPT !.touched = n, !.typed = n, !.renewals = h.renewals \union R], n)
  <2> DEFINE g == [h EXCEPT !.touched = n, !.typed = n, !.renewals = h.renewals \union R]
  <2>1. /\ g.phase = h.phase /\ g.row = h.row /\ g.opened = h.opened /\ g.until = h.until
        /\ g.deadline = h.deadline /\ g.closing = h.closing
        /\ g.touched = n /\ g.typed = n /\ g.renewals = h.renewals \union R
    BY <1>1 DEF Shells0
  <2>2. ~g.ended
    BY <1>1 DEF Shells0, Alive
  <2>3. /\ h.opened \in Nat /\ h.typed \in Nat /\ h.touched \in Nat /\ h.deadline \in Nat
        /\ \A r \in h.renewals \union R : r.next \in Nat
    BY <1>1, Bounds DEF Shells0, Renewals, Sh!Times
  <2>4. \A r \in h.renewals \union R : r.next <= n + Ttl /\ r.next <= h.opened + MaxTotal
    BY <1>1, <2>3, Bounds DEF Fits
  <2> QED
    BY <1>1, <2>1, <2>2, <2>3, <2>4, Bounds, WindowsAssumption DEF Fits, Alive
<1> QED
  BY <1>1, <1>2, <1>3, <1>4 DEF Good, Turns, Shells0, Fits, Alive, Sh!Outcomes

(* Renewals land, or are dropped: what is left are some of them.           *)
LEMMA FitsRenewed ==
  ASSUME NEW h, NEW n \in Nat, Good(h, n), NEW r \in h.renewals, NEW R \in SUBSET Renewals,
         \A q \in R : \E p \in h.renewals : q.next = p.next
  PROVE  /\ Turns(h, [h EXCEPT !.renewals = R], n)
         /\ h.row = "open" => Turns(h, [h EXCEPT !.until = r.next, !.renewals = R], n)
         /\ Turns(h, [h EXCEPT !.renewals = R, !.deadline = IF h.ended THEN @ ELSE r.next], n)
<1>1. h \in Shells0 /\ Fits(h, n) /\ r.next \in Sh!Times
  BY DEF Good, Shells0, Renewals
<1>2. /\ [h EXCEPT !.renewals = R] \in Shells0
      /\ [h EXCEPT !.until = r.next, !.renewals = R] \in Shells0
      /\ [h EXCEPT !.renewals = R, !.deadline = IF h.ended THEN @ ELSE r.next] \in Shells0
  BY <1>1 DEF Shells0
<1>3. h.phase \notin {"issued", "redeemed"}
  BY <1>1 DEF Fits
<1>4. Alive(h) => \A q \in R : q.next <= h.typed + Ttl /\ q.next <= h.opened + MaxTotal
  BY <1>1 DEF Fits
<1>5. Fits([h EXCEPT !.renewals = R], n) /\ Fits([h EXCEPT !.until = r.next, !.renewals = R], n)
  BY <1>1, <1>3, <1>4 DEF Shells0, Fits, Alive
<1>6. Fits([h EXCEPT !.renewals = R, !.deadline = IF h.ended THEN @ ELSE r.next], n)
  BY <1>1, <1>3, <1>4 DEF Shells0, Fits, Alive
<1> QED
  BY <1>1, <1>2, <1>5, <1>6 DEF Good, Turns, Shells0, Fits, Alive, Sh!Outcomes

LEMMA FitsRestarted ==
  ASSUME NEW h, NEW n \in Nat, Good(h, n), h.phase # "none"
  PROVE  Turns(h, [h EXCEPT !.phase = "over", !.ended = TRUE, !.ssh = FALSE,
                        !.closing = "none", !.renewals = {}], n)
<1>1. h \in Shells0 /\ Fits(h, n)
  BY DEF Good
<1>2. [h EXCEPT !.phase = "over", !.ended = TRUE, !.ssh = FALSE,
                !.closing = "none", !.renewals = {}] \in Shells0
  BY <1>1 DEF Shells0
<1>3. Fits([h EXCEPT !.phase = "over", !.ended = TRUE, !.ssh = FALSE,
                     !.closing = "none", !.renewals = {}], n)
  BY <1>1 DEF Shells0, Fits, Alive
<1> QED
  BY <1>1, <1>2, <1>3 DEF Good, Turns, Shells0, Fits, Alive, Sh!Outcomes

(* Nothing is due, so that a tick may pass.                                *)
LEMMA FitsLater ==
  ASSUME NEW h, NEW n \in Nat, Good(h, n), h.phase # "redeemed",
         ~(Alive(h) /\ (n >= h.deadline \/ n >= h.touched + IdleFor)),
         ~(h.phase = "issued" /\ h.opened < n)
  PROVE  Good(h, n + 1)
<1>1. h \in Shells0 /\ Fits(h, n)
  BY DEF Good
<1>2. h.opened \in Nat /\ h.deadline \in Nat
  BY <1>1, Bounds DEF Shells0, Sh!Times
<1>3. Fits(h, n + 1)
  BY <1>1, <1>2, Bounds DEF Shells0, Fits
<1> QED
  BY <1>1, <1>3 DEF Good

TrailKept ==
  \A s \in Sessions :
    shell[s].row \in Sh!Outcomes =>
      shell'[s].row = shell[s].row /\ shell'[s].until = shell[s].until

LEMMA ShellsStart == Sh!Init => ShellsInv
<1> SUFFICES ASSUME Sh!Init PROVE ShellsInv
  OBVIOUS
<1>1. Registry
  BY Bounds DEF Sh!Init, Registry
<1>2. shell = [s \in Sessions |-> Sh!Unborn] /\ now = 0
  BY DEF Sh!Init
<1> QED
  BY <1>1, <1>2, FitsUnborn DEF ShellsInv, Good

LEMMA OneTurns ==
  ASSUME ShellsInv, NEW s \in Sessions, NEW g, Turns(shell[s], g, now), Sh!Becomes(s, g),
         UNCHANGED <<now, server>>, live' \subseteq Sessions
  PROVE  ShellsInv' /\ TrailKept
<1>1. shell' = [shell EXCEPT ![s] = g] /\ now' = now /\ Good(g, now)
  BY DEF Sh!Becomes, Turns
<1>2. shell' \in [Sessions -> Shells0]
  BY <1>1 DEF ShellsInv, Good
<1>3. \A t \in Sessions : Fits(shell'[t], now)
  BY <1>1 DEF ShellsInv, Good
<1>4. TrailKept
  <2> SUFFICES ASSUME NEW t \in Sessions, shell[t].row \in Sh!Outcomes
               PROVE  shell'[t].row = shell[t].row /\ shell'[t].until = shell[t].until
    BY DEF TrailKept
  <2>1. CASE t = s
    BY <1>1, <2>1 DEF ShellsInv, Turns
  <2>2. CASE t # s
    BY <1>1, <2>2 DEF ShellsInv
  <2> QED
    BY <2>1, <2>2
<1> QED
  BY <1>1, <1>2, <1>3, <1>4 DEF ShellsInv, Registry

LEMMA SessionTurns ==
  ASSUME ShellsInv, NEW s \in Sessions,
         \/ Sh!Issue(s) \/ Sh!Redeem(s) \/ Sh!Timers(s) \/ Sh!Answers(s)
         \/ Sh!SocketCloses(s) \/ Sh!Connected(s) \/ Sh!ConnectFails(s) \/ Sh!FarEndExits(s)
         \/ Sh!Types(s) \/ Sh!Stirs(s)
  PROVE  ShellsInv' /\ TrailKept
<1> DEFINE h == shell[s]
<1>1. Good(h, now) /\ now \in Nat /\ live \subseteq Sessions
  BY Bounds DEF ShellsInv, Good, Registry
<1>2. Sh!Outcomes = {"closed", "expired", "idle", "error", "refused"}
  BY DEF Sh!Outcomes
<1>3. SUFFICES \E g : /\ Turns(h, g, now) /\ Sh!Becomes(s, g)
                      /\ UNCHANGED <<now, server>> /\ live' \subseteq Sessions
  BY OneTurns
<1>4. CASE Sh!Issue(s)
  <2>1. h.row = "none"
    BY <1>1, <1>4 DEF Sh!Issue, Sh!Phase, Good, Fits
  <2>2. now <= LastIssue /\ UNCHANGED <<now, server, live>>
    BY <1>4 DEF Sh!Issue
  <2>3. PICK g : Sh!Becomes(s, g) /\ Good(g, now)
    BY <1>1, <1>4, FitsIssued DEF Sh!Issue
  <2> QED
    BY <1>1, <1>2, <2>1, <2>2, <2>3 DEF Turns
<1>5. CASE Sh!Redeem(s) \/ Sh!TicketLapses(s)
  BY <1>1, <1>5, FitsRedeemed DEF Sh!Redeem, Sh!TicketLapses, Sh!Phase
<1>6. CASE Sh!FindServer(s)
  <2>1. h.phase = "redeemed" /\ UNCHANGED <<now, server, live>>
    BY <1>6 DEF Sh!FindServer, Sh!Phase
  <2>2. PICK g : Sh!Becomes(s, g) /\ Turns(h, g, now)
    BY <1>1, <1>6, <2>1, FitsHeld DEF Sh!FindServer
  <2> QED
    BY <1>1, <2>1, <2>2
<1>7. CASE Sh!HardExpiry(s) \/ Sh!IdleExpiry(s) \/ Sh!SocketCloses(s)
  <2>1. Alive(h) /\ UNCHANGED <<now, server>>
    BY <1>7 DEF Sh!HardExpiry, Sh!IdleExpiry, Sh!SocketCloses, Sh!Held, Sh!Phase, Alive
  <2>2. \E o \in Sh!Outcomes : Sh!End(s, o)
    BY <1>2, <1>7 DEF Sh!HardExpiry, Sh!IdleExpiry, Sh!SocketCloses
  <2> QED
    BY <1>1, <2>1, <2>2, FitsEnded DEF Sh!End
<1>8. CASE Sh!CloseRow(s)
  BY <1>1, <1>8, FitsClosed DEF Sh!CloseRow
<1>9. CASE Sh!RowMoves(s)
  <2>1. PICK r \in h.renewals :
          /\ UNCHANGED <<now, server, live>>
          /\ \/ /\ h.row = "open"
                /\ \E left \in {h.renewals \ {r},
                                (h.renewals \ {r}) \union {[r EXCEPT !.moved = TRUE]}} :
                     Sh!Becomes(s, [h EXCEPT !.until = r.next, !.renewals = left])
             \/ Sh!Becomes(s, [h EXCEPT !.renewals = h.renewals \ {r}])
    BY <1>9 DEF Sh!RowMoves
  <2>2. h.renewals \subseteq Renewals /\ r \in Renewals
    BY <1>1 DEF Good, Shells0
  <2>3. [r EXCEPT !.moved = TRUE] \in Renewals /\ [r EXCEPT !.moved = TRUE].next = r.next
    BY <2>2 DEF Renewals
  <2>4. \A left \in {h.renewals \ {r}, (h.renewals \ {r}) \union {[r EXCEPT !.moved = TRUE]}} :
          /\ left \in SUBSET Renewals
          /\ \A q \in left : \E p \in h.renewals : q.next = p.next
    BY <2>2, <2>3
  <2>5. CASE h.row = "open" /\ \E left \in {h.renewals \ {r},
                                (h.renewals \ {r}) \union {[r EXCEPT !.moved = TRUE]}} :
                     Sh!Becomes(s, [h EXCEPT !.until = r.next, !.renewals = left])
    <3>1. PICK left \in {h.renewals \ {r},
                         (h.renewals \ {r}) \union {[r EXCEPT !.moved = TRUE]}} :
            Sh!Becomes(s, [h EXCEPT !.until = r.next, !.renewals = left])
      BY <2>5
    <3>2. Turns(h, [h EXCEPT !.until = r.next, !.renewals = left], now)
      BY <1>1, <2>1, <2>4, <2>5, FitsRenewed
    <3> QED
      BY <1>1, <2>1, <3>1, <3>2
  <2>6. CASE Sh!Becomes(s, [h EXCEPT !.renewals = h.renewals \ {r}])
    <3>1. Turns(h, [h EXCEPT !.renewals = h.renewals \ {r}], now)
      BY <1>1, <2>1, <2>4, FitsRenewed
    <3> QED
      BY <1>1, <2>1, <2>6, <3>1
  <2> QED
    BY <2>1, <2>5, <2>6
<1>10. CASE Sh!DeadlineFollows(s)
  <2>1. PICK r \in h.renewals :
          /\ UNCHANGED <<now, server, live>>
          /\ Sh!Becomes(s, [h EXCEPT !.renewals = @ \ {r},
                                     !.deadline = IF h.ended THEN @ ELSE r.next])
    BY <1>10 DEF Sh!DeadlineFollows
  <2>2. h.renewals \ {r} \in SUBSET Renewals
    BY <1>1 DEF Good, Shells0
  <2>3. Turns(h, [h EXCEPT !.renewals = h.renewals \ {r},
                           !.deadline = IF h.ended THEN @ ELSE r.next], now)
    BY <1>1, <2>1, <2>2, FitsRenewed
  <2> QED
    BY <1>1, <2>1, <2>3
<1>11. CASE Sh!Connected(s) \/ Sh!ConnectFails(s)
  <2>1. h.phase \in {"connecting", "up"} /\ UNCHANGED <<now, server>> /\ live' \subseteq Sessions
    BY <1>1, <1>11 DEF Sh!Connected, Sh!ConnectFails, Sh!Phase
  <2>2. CASE Sh!Connected(s)
    BY <1>1, <2>1, <2>2, FitsConnection DEF Sh!Connected
  <2>3. CASE Sh!ConnectFails(s) /\ h.ended
    BY <1>1, <2>1, <2>3, FitsConnection DEF Sh!ConnectFails
  <2>4. CASE Sh!ConnectFails(s) /\ ~h.ended
    BY <1>1, <1>2, <2>1, <2>4, FitsEnded DEF Sh!ConnectFails, Alive
  <2> QED
    BY <1>11, <2>2, <2>3, <2>4
<1>12. CASE Sh!FarEndExits(s)
  <2>1. h.phase \in {"connecting", "up"} /\ UNCHANGED <<now, server>> /\ live' \subseteq Sessions
    BY <1>1, <1>12 DEF Sh!FarEndExits, Sh!End, Sh!Phase
  <2>2. CASE h.ended
    BY <1>1, <1>12, <2>1, <2>2, FitsConnection DEF Sh!FarEndExits
  <2>3. CASE ~h.ended
    BY <1>1, <1>2, <1>12, <2>1, <2>3, FitsEnded DEF Sh!FarEndExits, Sh!End, Alive
  <2> QED
    BY <2>2, <2>3
<1>13. CASE Sh!Types(s)
  <2>1. Alive(h) /\ UNCHANGED <<now, server, live>>
    BY <1>13 DEF Sh!Types, Sh!Held, Sh!Phase, Alive
  <2>2. Sh!NextExpiry(s) \in Sh!Times
    BY <1>1, <2>1, Bounds, WindowsAssumption
    DEF Sh!NextExpiry, Sh!Least, Sh!Ceiling, Sh!Times, Good, Fits, Shells0
  <2>3. Sh!NextExpiry(s) <= now + Ttl /\ Sh!NextExpiry(s) <= h.opened + MaxTotal
    BY <1>1, Bounds DEF Sh!NextExpiry, Sh!Least, Sh!Ceiling, Good, Shells0, Sh!Times
  <2>4. /\ Sh!Renewal(s) \in SUBSET Renewals
        /\ \A r \in Sh!Renewal(s) : r.next <= now + Ttl /\ r.next <= h.opened + MaxTotal
    BY <2>2, <2>3 DEF Sh!Renewal, Renewals
  <2>5. Turns(h, [h EXCEPT !.touched = now, !.typed = now,
                           !.renewals = h.renewals \union Sh!Renewal(s)], now)
    BY <1>1, <2>1, <2>4, FitsTraffic
  <2> QED
    BY <1>1, <1>13, <2>1, <2>5 DEF Sh!Types
<1>14. CASE Sh!Stirs(s)
  <2>1. Alive(h) /\ UNCHANGED <<now, server, live>>
    BY <1>14 DEF Sh!Stirs, Sh!Held, Sh!Phase, Alive
  <2>2. Turns(h, [h EXCEPT !.touched = now], now)
    <3>1. {} \in SUBSET Renewals
      OBVIOUS
    <3> QED
      BY <1>1, <2>1, <3>1, FitsTraffic
  <2> QED
    BY <1>1, <1>14, <2>1, <2>2 DEF Sh!Stirs
<1> HIDE DEF h
<1> QED
  BY <1>4, <1>5, <1>6, <1>7, <1>8, <1>9, <1>10, <1>11, <1>12, <1>13, <1>14
  DEF Sh!Timers, Sh!Answers

LEMMA ShellsContinue == ShellsInv /\ [Sh!Next]_shells => ShellsInv' /\ TrailKept
<1> SUFFICES ASSUME ShellsInv, [Sh!Next]_shells PROVE ShellsInv' /\ TrailKept
  OBVIOUS
<1>0. /\ shell \in [Sessions -> Shells0] /\ now \in Nat
      /\ \A s \in Sessions : Good(shell[s], now)
  BY Bounds DEF ShellsInv, Registry, Good
<1>1. CASE Sh!Tick
  <2>1. now' = now + 1 /\ now' \in 0 .. LastIssue + MaxTotal + 1 /\ UNCHANGED <<shell, server, live>>
    BY <1>0, <1>1, Bounds DEF Sh!Tick
  <2>2. \A s \in Sessions : Good(shell[s], now + 1)
    BY <1>0, <1>1, FitsLater DEF Sh!Tick, Sh!TimerDue, Sh!Held, Sh!Phase, Alive
  <2> QED
    BY <2>1, <2>2 DEF ShellsInv, Registry, Good, TrailKept
<1>2. CASE Sh!DeleteServer
  BY <1>2 DEF Sh!DeleteServer, ShellsInv, Registry, TrailKept
<1>3. CASE Sh!Restart
  <2>1. UNCHANGED <<now, server>> /\ live' = {}
    BY <1>3 DEF Sh!Restart
  <2>2. \A s \in Sessions : Turns(shell[s], shell[s], now)
    BY <1>0 DEF Turns
  <2>3. \A s \in Sessions :
          Turns(shell[s], IF shell[s].phase = "none" THEN shell[s]
                ELSE [shell[s] EXCEPT !.phase = "over", !.ended = TRUE, !.ssh = FALSE,
                                       !.closing = "none", !.renewals = {}], now)
    BY <1>0, <2>2, FitsRestarted
  <2>4. shell' = [s \in Sessions |-> IF shell[s].phase = "none" THEN shell[s]
                ELSE [shell[s] EXCEPT !.phase = "over", !.ended = TRUE, !.ssh = FALSE,
                                       !.closing = "none", !.renewals = {}]]
    BY <1>3 DEF Sh!Restart, Sh!Phase
  <2>5. \A s \in Sessions : Turns(shell[s], shell'[s], now)
    BY <2>3, <2>4
  <2>6. shell' \in [Sessions -> Shells0]
    BY <2>4, <2>5 DEF Turns, Good
  <2> QED
    BY <2>1, <2>5, <2>6 DEF ShellsInv, Registry, Turns, Good, TrailKept
<1>4. CASE UNCHANGED shells
  BY <1>4 DEF shells, ShellsInv, Registry, TrailKept
<1> QED
  BY <1>1, <1>2, <1>3, <1>4, SessionTurns DEF Sh!Next

(* What the invariant says in the terms of Shells.                         *)
LEMMA ShellsKeep == ShellsInv /\ deaths \in 0 .. MaxDeaths => Sh!TypeOK /\ Sh!ForgottenEnds
<1> SUFFICES ASSUME ShellsInv, deaths \in 0 .. MaxDeaths PROVE Sh!TypeOK /\ Sh!ForgottenEnds
  OBVIOUS
<1>1. \A s \in Sessions : shell[s] \in Shells0 /\ Fits(shell[s], now)
  BY DEF ShellsInv
<1>2. Sh!ForgottenEnds
  BY <1>1 DEF Sh!ForgottenEnds, Sh!Held, Sh!Phase, Sh!Ceiling, Fits, Alive
<1>3. ASSUME NEW s \in Sessions
      PROVE  /\ {shell[s].typed, shell[s].touched} \subseteq 0 .. now
             /\ {shell[s].until, shell[s].opened, shell[s].deadline} \subseteq Sh!Times
             /\ shell[s].ended \in BOOLEAN /\ shell[s].ssh \in BOOLEAN
  BY <1>1, Bounds DEF Fits, Shells0, ShellsInv, Registry
<1>4. ASSUME NEW s \in Sessions
      PROVE  /\ shell[s].phase \in {"none", "issued", "redeemed", "connecting", "up", "over"}
             /\ shell[s].row \in Sh!Outcomes \union {"none", "open"}
             /\ shell[s].closing \in Sh!Outcomes \union {"none"}
             /\ shell[s].renewals \subseteq [next : Sh!Times, moved : BOOLEAN]
  BY <1>1 DEF Shells0, Renewals
<1>5. Sh!TypeOK
  BY <1>3, <1>4 DEF Sh!TypeOK, ShellsInv, Registry
<1> QED
  BY <1>2, <1>5

----------------------------------------------------------------------------
(* ServerChecks.                                                           *)

Rows == [host : Hosts \union {None}, pin : Keys \union {None}, status : Ch!Statuses]
Checks == [pc : {"idle", "probe", "write"}, host : Hosts \union {None},
           pin : Keys \union {None}, saw : Keys \union {None}]
Machines == [key : Keys, up : BOOLEAN]

(* A check is on the network for a machine, at the address it read.        *)
ChecksInv ==
  /\ srv \in Rows
  /\ check \in [Ch!Jobs -> Checks]
  /\ \A j \in Ch!Jobs : check[j].pc = "probe" => check[j].host \in Hosts
  /\ asked \in {"none", "queued", "running", "kept"}
  /\ machine \in [Hosts -> Machines]
  /\ edits \in 0 .. MaxEdits /\ changes \in 0 .. MaxChanges
  /\ overlapped \in BOOLEAN

PinKept == srv.pin # None => srv'.pin \in {srv.pin, None} \/ overlapped'

LEMMA ChecksKeep == ChecksInv => Ch!TypeOK
BY DEF ChecksInv, Ch!TypeOK, Rows, Checks, Machines

LEMMA ChecksStart == Ch!Init => ChecksInv
<1> SUFFICES ASSUME Ch!Init PROVE ChecksInv
  OBVIOUS
<1>1. srv \in Rows
  BY DEF Ch!Init, Rows, Ch!Statuses
<1>2. Ch!NoCheck \in Checks /\ Ch!NoCheck.pc = "idle"
  BY DEF Ch!NoCheck, Checks
<1>3. machine \in [Hosts -> Machines]
  <2>1. [key : Keys, up : {TRUE}] \subseteq Machines
    BY DEF Machines
  <2> QED
    BY <2>1 DEF Ch!Init
<1>4. check = [j \in Ch!Jobs |-> Ch!NoCheck]
  BY DEF Ch!Init
<1>5. /\ asked \in {"none", "queued", "running", "kept"}
      /\ edits \in 0 .. MaxEdits /\ changes \in 0 .. MaxChanges
  BY Bounds DEF Ch!Init
<1>6. overlapped \in BOOLEAN
  BY DEF Ch!Init
<1> QED
  BY <1>1, <1>2, <1>3, <1>4, <1>5, <1>6 DEF ChecksInv

(* A job moves on, or ends.                                                *)
LEMMA JobTurns ==
  ASSUME ChecksInv, NEW j \in Ch!Jobs, NEW c \in Checks, c.pc = "probe" => c.host \in Hosts,
         check' = [check EXCEPT ![j] = c]
  PROVE  /\ check' \in [Ch!Jobs -> Checks]
         /\ \A i \in Ch!Jobs : check'[i].pc = "probe" => check'[i].host \in Hosts
BY DEF ChecksInv

LEMMA ChecksContinue == ChecksInv /\ [Ch!Next]_checks => ChecksInv' /\ PinKept
<1> SUFFICES ASSUME ChecksInv, [Ch!Next]_checks PROVE ChecksInv' /\ PinKept
  OBVIOUS
<1>0. /\ srv \in Rows /\ Ch!NoCheck \in Checks /\ Ch!NoCheck.pc = "idle"
      /\ Ch!Exists => srv.host \in Hosts
      /\ \A j \in Ch!Jobs : check[j] \in Checks
  BY DEF ChecksInv, Rows, Checks, Ch!NoCheck, Ch!Exists
<1>1. ASSUME NEW h \in Hosts, Ch!Update(h)
      PROVE  ChecksInv' /\ PinKept
  <2>1. srv' \in Rows /\ srv'.pin = None
    BY <1>1 DEF Ch!Update, Ch!ResetsPin, Rows, Ch!Statuses
  <2>2. edits' \in 0 .. MaxEdits /\ UNCHANGED <<check, asked, machine, changes>>
    BY <1>1, Bounds DEF Ch!Update, ChecksInv
  <2>3. overlapped' \in BOOLEAN
    BY <1>1 DEF Ch!Update, ChecksInv
  <2> QED
    BY <2>1, <2>2, <2>3 DEF ChecksInv, PinKept
<1>2. CASE Ch!Delete
  <2>1. srv' \in Rows /\ srv'.pin = srv.pin
    BY <1>0, <1>2 DEF Ch!Delete, Rows
  <2> QED
    BY <1>2, <2>1 DEF Ch!Delete, ChecksInv, PinKept
<1>3. CASE Ch!Test \/ Ch!FindsNothing
  BY <1>3 DEF Ch!Test, Ch!FindsNothing, ChecksInv, PinKept
<1>4. ASSUME NEW j \in Ch!Jobs, Ch!ReadRow(j)
      PROVE  ChecksInv' /\ PinKept
  <2> DEFINE c == [pc |-> "probe", host |-> srv.host, pin |-> srv.pin, saw |-> None]
  <2>1. c \in Checks /\ c.host \in Hosts
    BY <1>0, <1>4 DEF Ch!ReadRow, Rows, Checks
  <2>2. check' = [check EXCEPT ![j] = c] /\ UNCHANGED <<srv, machine, edits, changes, overlapped>>
    BY <1>4 DEF Ch!ReadRow
  <2>3. asked' \in {"none", "queued", "running", "kept"}
    BY <1>4 DEF Ch!ReadRow, ChecksInv
  <2> HIDE DEF c
  <2> QED
    BY <2>1, <2>2, <2>3, JobTurns DEF ChecksInv, PinKept
<1>5. ASSUME NEW j \in Ch!Jobs, Ch!TestConnection(j)
      PROVE  ChecksInv' /\ PinKept
  <2> DEFINE m == machine[check[j].host]
             c == [check[j] EXCEPT !.pc = "write", !.saw = IF m.up THEN m.key ELSE None]
  <2>1. m \in Machines
    BY <1>5 DEF Ch!TestConnection, ChecksInv
  <2>2. c \in Checks /\ c.pc = "write"
    BY <1>0, <2>1 DEF Checks, Machines
  <2>3. check' = [check EXCEPT ![j] = c]
    BY <1>5 DEF Ch!TestConnection, ChecksInv
  <2> HIDE DEF c
  <2> QED
    BY <1>5, <2>2, <2>3, JobTurns DEF Ch!TestConnection, ChecksInv, PinKept
<1>6. ASSUME NEW j \in Ch!Jobs, Ch!WriteStatus(j)
      PROVE  ChecksInv' /\ PinKept
  <2>1. /\ check' = [check EXCEPT ![j] = Ch!NoCheck] /\ UNCHANGED <<machine, edits, changes>>
        /\ srv' = IF Ch!Exists THEN Ch!Patched(check[j]) ELSE srv
    BY <1>6 DEF Ch!WriteStatus, Ch!Ends
  <2>2. asked' \in {"none", "queued", "running", "kept"}
    BY <1>6 DEF Ch!WriteStatus, ChecksInv
  <2>3. overlapped' \in BOOLEAN
    BY <1>6 DEF Ch!WriteStatus, ChecksInv
  <2>4. Ch!Verdict(check[j].pin, check[j].saw) \in Ch!Statuses
    BY DEF Ch!Verdict, Ch!Statuses
  <2>5. Ch!Patched(check[j]) \in Rows
    BY <1>0, <2>4 DEF Ch!Patched, Rows, Checks
  <2>6. PinKept
    <3> SUFFICES ASSUME srv.pin # None, srv'.pin # srv.pin PROVE overlapped'
      BY DEF PinKept
    <3>1. Ch!Exists /\ check[j].pin = None
      BY <1>0, <2>1 DEF Ch!Patched, Rows
    <3> QED
      BY <1>6, <3>1 DEF Ch!WriteStatus
  <2> QED
    BY <1>0, <2>1, <2>2, <2>3, <2>5, <2>6, JobTurns DEF ChecksInv
<1>7. ASSUME NEW j \in Ch!Jobs, Ch!CheckFails(j)
      PROVE  ChecksInv' /\ PinKept
  <2>1. check' = [check EXCEPT ![j] = Ch!NoCheck] /\ UNCHANGED <<srv, machine, edits, changes, overlapped>>
    BY <1>7 DEF Ch!CheckFails, Ch!Ends
  <2>2. asked' \in {"none", "queued", "running", "kept"}
    BY <1>7 DEF Ch!CheckFails, ChecksInv
  <2> QED
    BY <1>0, <2>1, <2>2, JobTurns DEF ChecksInv, PinKept
<1>8. ASSUME NEW h \in Hosts, Ch!GoesDownOrUp(h) \/ Ch!IsReinstalled(h)
      PROVE  ChecksInv' /\ PinKept
  <2>1. machine[h] \in Machines
    BY DEF ChecksInv
  <2>2. /\ [machine[h] EXCEPT !.up = ~@] \in Machines
        /\ \A k \in Keys : [machine[h] EXCEPT !.key = k] \in Machines
    BY <2>1 DEF Machines
  <2>3. \E m \in Machines : Ch!Changes(h, m)
    BY <1>8, <2>2 DEF Ch!GoesDownOrUp, Ch!IsReinstalled
  <2> QED
    BY <2>3, Bounds DEF Ch!Changes, ChecksInv, PinKept
<1>9. CASE UNCHANGED checks
  BY <1>9 DEF checks, ChecksInv, PinKept
<1> QED
  BY <1>1, <1>2, <1>3, <1>4, <1>5, <1>6, <1>7, <1>8, <1>9 DEF Ch!Next, Ch!CheckOne


----------------------------------------------------------------------------
(* Attachments.                                                            *)

AtRows == [status : {"none", "pending", "uploaded"} \union At!Gone, deleted : BOOLEAN,
           thumb : BOOLEAN, age : 0 .. 2, kept : BOOLEAN]
Stores == [main : {"absent", "fits", "large"}, thumb : BOOLEAN]

AtTyped ==
  /\ row \in AtRows
  /\ store \in Stores
  /\ upload \in [Calls -> At!Runs]
  /\ sweep \in At!Runs

(* Nobody works on a row that is not there yet.                            *)
Young == row.status = "none" => row = At!Unborn /\ \A c \in Calls : upload[c] = At!Idle

(* The sweep comes after the urls are spent.                               *)
Aged ==
  /\ sweep # At!Idle => row.age = 2
  /\ row.status = "swept" => row.age = 2
  /\ ~row.kept => row.age = 2

(* What is served, or will be by a confirmation that has seen the object,  *)
(* is in the store, or somebody who removes it has yet to do the row.      *)
Promised ==
  \/ At!Served
  \/ /\ row.status = "pending" /\ ~row.deleted
     /\ \E c \in Calls : upload[c].pc \in {"thumb", "swap"}
Backed == Promised /\ store.main = "absent" => At!Removing \/ torn

(* The row never gains a thumbnail, so that what was read of it covers it. *)
Named ==
  /\ \A c \in Calls :
       upload[c].pc \in {"head", "thumb", "swap"} /\ upload[c].thumb /\ row.status = "pending"
         => row.thumb
  /\ sweep # At!Idle /\ row.thumb => sweep.thumb

(* What the sweep has removed stays removed.                               *)
Cleared ==
  /\ sweep.pc = "row" /\ ~blipped => store.main = "absent" /\ (store.thumb => ~sweep.thumb)
  /\ At!NothingLeftBehind

AttachmentsInv == AtTyped /\ Young /\ Aged /\ Backed /\ Named /\ Cleared

(* What a removal leaves in the store.                                     *)
LEMMA StoreShrinks ==
  ASSUME store \in Stores, NEW t \in BOOLEAN, At!DeletesObjects(t)
  PROVE  /\ store' \in Stores
         /\ store'.thumb => store.thumb
         /\ blipped => blipped'
         /\ ~blipped' => store'.main = "absent" /\ (store'.thumb => ~t)
<1>1. CASE store' = At!Deleted(t) /\ UNCHANGED blipped
  <2> DEFINE left == store.thumb /\ ~t
  <2>1. left \in BOOLEAN /\ store' = [main |-> "absent", thumb |-> left]
    BY <1>1 DEF At!Deleted
  <2>2. (left => store.thumb) /\ (left => ~t)
    OBVIOUS
  <2> HIDE DEF left
  <2>3. store' \in Stores /\ store'.main = "absent" /\ (store'.thumb <=> left)
    BY <2>1 DEF Stores
  <2> QED
    BY <1>1, <2>2, <2>3
<1>2. CASE store' = store /\ blipped' = TRUE
  BY <1>2
<1>3. CASE store' = [store EXCEPT !.main = "absent"] /\ blipped' = TRUE
  BY <1>3 DEF Stores
<1> QED
  BY <1>1, <1>2, <1>3 DEF At!DeletesObjects

LEMMA CreateUploadKeeps ==
  ASSUME AttachmentsInv, At!CreateUpload
  PROVE  AttachmentsInv'
<1> USE DEF At!CreateUpload, At!Kept, At!Found, At!Idle, At!Unborn
<1>1. AtTyped'
  <2>1. PICK thumb \in BOOLEAN : row' = [At!Unborn EXCEPT !.status = "pending", !.thumb = thumb]
    OBVIOUS
  <2>2. At!Unborn \in AtRows
    BY DEF AtRows
  <2>3. row' \in AtRows
    BY ONLY <2>1, <2>2 DEF AtRows
  <2> QED
    BY <2>3 DEF AttachmentsInv, AtTyped
<1>2. Young'
  BY DEF AttachmentsInv, AtTyped, AtRows, Young
<1>3. Aged'
  BY DEF AttachmentsInv, AtTyped, AtRows, Young, Aged
<1>4. Backed'
  BY DEF AttachmentsInv, AtTyped, AtRows, Stores, At!Runs, Young, Backed,
     Promised, At!Served, At!Removing
<1>5. Named'
  BY DEF AttachmentsInv, AtTyped, AtRows, At!Runs, Young, Aged, Named
<1>6. Cleared'
  BY DEF AttachmentsInv, AtTyped, AtRows, Stores, At!Runs, Aged, Named,
     Cleared, At!NothingLeftBehind
<1> QED
  BY <1>1, <1>2, <1>3, <1>4, <1>5, <1>6 DEF AttachmentsInv

LEMMA PutKeeps ==
  ASSUME AttachmentsInv, At!Put
  PROVE  AttachmentsInv'
<1> USE DEF At!Put, At!Kept, At!Found, At!Idle, At!Unborn
<1>1. AtTyped'
  BY DEF AttachmentsInv, AtTyped, AtRows, Stores, At!Runs, At!Steps, At!Gone
<1>2. Backed'
  BY DEF AttachmentsInv, AtTyped, AtRows, Stores, At!Runs, Young, Backed,
     Promised, At!Served, At!Removing
<1>3. Cleared'
  BY DEF AttachmentsInv, AtTyped, AtRows, Stores, At!Runs, Aged, Named,
     Cleared, At!NothingLeftBehind
<1>4. Young' /\ Aged' /\ Named'
  BY DEF AttachmentsInv, Young, Aged, Named
<1> QED
  BY <1>1, <1>2, <1>3, <1>4 DEF AttachmentsInv

LEMMA SubjectDeletedKeeps ==
  ASSUME AttachmentsInv, At!SubjectDeleted
  PROVE  AttachmentsInv'
BY DEF At!SubjectDeleted, AttachmentsInv, AtTyped, Young, Aged, Backed,
   Promised, At!Served, At!Removing, Named, Cleared, At!NothingLeftBehind

LEMMA AgesKeeps ==
  ASSUME AttachmentsInv, At!Ages
  PROVE  AttachmentsInv'
<1> USE DEF At!Ages, At!Kept, At!Found, At!Idle, At!Unborn
<1>1. AtTyped'
  BY DEF AttachmentsInv, AtTyped, AtRows, Stores, At!Runs, At!Steps, At!Gone
<1>2. Young'
  BY DEF AttachmentsInv, AtTyped, AtRows, Young
<1>3. Aged'
  BY DEF AttachmentsInv, AtTyped, AtRows, Young, Aged
<1>4. Backed'
  BY DEF AttachmentsInv, AtTyped, AtRows, Stores, At!Runs, Young, Backed,
     Promised, At!Served, At!Removing
<1>5. Named'
  BY DEF AttachmentsInv, AtTyped, AtRows, At!Runs, Young, Aged, Named
<1>6. Cleared'
  BY DEF AttachmentsInv, AtTyped, AtRows, Stores, At!Runs, Aged, Named,
     Cleared, At!NothingLeftBehind
<1> QED
  BY <1>1, <1>2, <1>3, <1>4, <1>5, <1>6 DEF AttachmentsInv

LEMMA RetentionEndsKeeps ==
  ASSUME AttachmentsInv, At!RetentionEnds
  PROVE  AttachmentsInv'
<1> USE DEF At!RetentionEnds, At!Kept, At!Found, At!Idle, At!Unborn
<1>1. AtTyped'
  BY DEF AttachmentsInv, AtTyped, AtRows, Stores, At!Runs, At!Steps, At!Gone
<1>2. Young'
  BY DEF AttachmentsInv, AtTyped, AtRows, Young
<1>3. Aged'
  BY DEF AttachmentsInv, AtTyped, AtRows, Young, Aged
<1>4. Backed'
  BY DEF AttachmentsInv, AtTyped, AtRows, Stores, At!Runs, Young, Backed,
     Promised, At!Served, At!Removing
<1>5. Named'
  BY DEF AttachmentsInv, AtTyped, AtRows, At!Runs, Young, Aged, Named
<1>6. Cleared'
  BY DEF AttachmentsInv, AtTyped, AtRows, Stores, At!Runs, Aged, Named,
     Cleared, At!NothingLeftBehind
<1> QED
  BY <1>1, <1>2, <1>3, <1>4, <1>5, <1>6 DEF AttachmentsInv

LEMMA ConfirmReadsKeeps ==
  ASSUME AttachmentsInv, NEW c \in Calls, At!ConfirmReads(c)
  PROVE  AttachmentsInv'
<1> USE DEF At!ConfirmReads, At!OnlyCalls, At!Kept, At!Found, At!Idle,
   At!Unborn
<1>1. AtTyped'
  BY DEF AttachmentsInv, AtTyped, AtRows, Stores, At!Runs, At!Steps, At!Gone
<1>2. Young'
  BY DEF AttachmentsInv, AtTyped, AtRows, Young
<1>3. Backed'
  BY DEF AttachmentsInv, AtTyped, AtRows, Stores, At!Runs, Young, Backed,
     Promised, At!Served, At!Removing
<1>4. Named'
  BY DEF AttachmentsInv, AtTyped, AtRows, At!Runs, Young, Aged, Named
<1>5. Aged' /\ Cleared'
  BY DEF AttachmentsInv, Aged, Cleared, At!NothingLeftBehind
<1> QED
  BY <1>1, <1>2, <1>3, <1>4, <1>5 DEF AttachmentsInv

LEMMA HeadKeeps ==
  ASSUME AttachmentsInv, NEW c \in Calls, At!Head(c)
  PROVE  AttachmentsInv'
<1> USE DEF At!Head, At!OnlyCalls, At!Reaches, At!Ends, At!Kept, At!Found,
   At!Idle, At!Unborn
<1>0. \/ upload' = [upload EXCEPT ![c] = At!Idle]
      \/ \E pc \in {"drop", "thumb", "swap"} : upload' = [upload EXCEPT ![c].pc = pc]
  BY DEF AttachmentsInv, AtTyped, Stores
<1>1. AtTyped'
  <2>1. upload[c] \in At!Runs /\ At!Idle \in At!Runs
    BY DEF AttachmentsInv, AtTyped, At!Runs, At!Steps
  <2>3. \E r \in At!Runs : upload' = [upload EXCEPT ![c] = r]
    BY <1>0, <2>1 DEF At!Runs, At!Steps
  <2> QED
    BY <2>3 DEF AttachmentsInv, AtTyped
<1>2. Young'
  BY DEF AttachmentsInv, AtTyped, AtRows, Young
<1>3. Backed'
  BY DEF AttachmentsInv, AtTyped, AtRows, Stores, At!Runs, Young, Backed,
     Promised, At!Served, At!Removing
<1>4. Named'
  <2>1. UNCHANGED <<row, sweep>> /\ upload[c].pc = "head"
    OBVIOUS
  <2> QED
    BY <1>0, <2>1 DEF AttachmentsInv, AtTyped, At!Runs, Named
<1>5. Aged' /\ Cleared'
  BY DEF AttachmentsInv, Aged, Cleared, At!NothingLeftBehind
<1> QED
  BY <1>1, <1>2, <1>3, <1>4, <1>5 DEF AttachmentsInv

LEMMA DropObjectKeeps ==
  ASSUME AttachmentsInv, NEW c \in Calls, At!DropObject(c)
  PROVE  AttachmentsInv'
<1> USE DEF At!DropObject, At!Reaches, At!OnlyStore, At!Kept, At!Found,
   At!Idle, At!Unborn
<1>1. AtTyped'
  BY DEF AttachmentsInv, AtTyped, AtRows, Stores, At!Runs, At!Steps, At!Gone
<1>2. Young'
  BY DEF AttachmentsInv, AtTyped, AtRows, Young
<1>3. Backed'
  BY DEF AttachmentsInv, AtTyped, AtRows, Stores, At!Runs, Young, Backed,
     Promised, At!Served, At!Removing
<1>4. Named'
  BY DEF AttachmentsInv, AtTyped, AtRows, At!Runs, Young, Aged, Named
<1>5. Cleared'
  BY DEF AttachmentsInv, AtTyped, AtRows, Stores, At!Runs, Aged, Named,
     Cleared, At!NothingLeftBehind
<1>6. Aged'
  BY DEF AttachmentsInv, Aged
<1> QED
  BY <1>1, <1>2, <1>3, <1>4, <1>5, <1>6 DEF AttachmentsInv

LEMMA EraseRowKeeps ==
  ASSUME AttachmentsInv, NEW c \in Calls, At!EraseRow(c)
  PROVE  AttachmentsInv'
<1> USE DEF At!EraseRow, At!Ends, At!OnlyRows, At!Kept, At!Found, At!Idle,
   At!Unborn
<1>1. AtTyped'
  BY DEF AttachmentsInv, AtTyped, AtRows, Stores, At!Runs, At!Steps, At!Gone
<1>2. Young'
  BY DEF AttachmentsInv, AtTyped, AtRows, Young
<1>3. Aged'
  BY DEF AttachmentsInv, AtTyped, AtRows, Young, Aged
<1>4. Backed'
  BY DEF AttachmentsInv, AtTyped, AtRows, Stores, At!Runs, Young, Backed,
     Promised, At!Served, At!Removing
<1>5. Named'
  BY DEF AttachmentsInv, AtTyped, AtRows, At!Runs, Young, Aged, Named
<1>6. Cleared'
  BY DEF AttachmentsInv, AtTyped, AtRows, Stores, At!Runs, Aged, Named,
     Cleared, At!NothingLeftBehind
<1> QED
  BY <1>1, <1>2, <1>3, <1>4, <1>5, <1>6 DEF AttachmentsInv

LEMMA HeadThumbnailKeeps ==
  ASSUME AttachmentsInv, NEW c \in Calls, At!HeadThumbnail(c)
  PROVE  AttachmentsInv'
<1> USE DEF At!HeadThumbnail, At!OnlyCalls, At!Kept, At!Found, At!Idle,
   At!Unborn
<1>1. AtTyped'
  BY DEF AttachmentsInv, AtTyped, AtRows, Stores, At!Runs, At!Steps, At!Gone
<1>2. Young'
  BY DEF AttachmentsInv, AtTyped, AtRows, Young
<1>3. Backed'
  BY DEF AttachmentsInv, AtTyped, AtRows, Stores, At!Runs, Young, Backed,
     Promised, At!Served, At!Removing
<1>4. Named'
  BY DEF AttachmentsInv, AtTyped, AtRows, At!Runs, Young, Aged, Named
<1>5. Aged' /\ Cleared'
  BY DEF AttachmentsInv, Aged, Cleared, At!NothingLeftBehind
<1> QED
  BY <1>1, <1>2, <1>3, <1>4, <1>5 DEF AttachmentsInv

LEMMA SwapKeeps ==
  ASSUME AttachmentsInv, NEW c \in Calls, At!Swap(c)
  PROVE  AttachmentsInv'
<1> USE DEF At!Swap, At!Ends, At!OnlyRows, At!Kept, At!Found, At!Idle,
   At!Unborn
<1>1. AtTyped'
  BY DEF AttachmentsInv, AtTyped, AtRows, Stores, At!Runs, At!Steps, At!Gone
<1>2. Young'
  BY DEF AttachmentsInv, AtTyped, AtRows, Young
<1>3. Aged'
  BY DEF AttachmentsInv, AtTyped, AtRows, Young, Aged
<1>4. Backed'
  BY DEF AttachmentsInv, AtTyped, AtRows, Stores, At!Runs, Young, Backed,
     Promised, At!Served, At!Removing
<1>5. Named'
  BY DEF AttachmentsInv, AtTyped, AtRows, At!Runs, Young, Aged, Named
<1>6. Cleared'
  BY DEF AttachmentsInv, AtTyped, AtRows, Stores, At!Runs, Aged, Named,
     Cleared, At!NothingLeftBehind
<1> QED
  BY <1>1, <1>2, <1>3, <1>4, <1>5, <1>6 DEF AttachmentsInv

LEMMA DeleteReadsKeeps ==
  ASSUME AttachmentsInv, NEW c \in Calls, At!DeleteReads(c)
  PROVE  AttachmentsInv'
<1> USE DEF At!DeleteReads, At!OnlyCalls, At!Kept, At!Found, At!Idle,
   At!Unborn
<1>1. AtTyped'
  BY DEF AttachmentsInv, AtTyped, AtRows, Stores, At!Runs, At!Steps, At!Gone
<1>2. Young'
  BY DEF AttachmentsInv, AtTyped, AtRows, Young
<1>3. Backed'
  BY DEF AttachmentsInv, AtTyped, AtRows, Stores, At!Runs, Young, Backed,
     Promised, At!Served, At!Removing
<1>4. Named'
  BY DEF AttachmentsInv, AtTyped, AtRows, At!Runs, Young, Aged, Named
<1>5. Aged' /\ Cleared'
  BY DEF AttachmentsInv, Aged, Cleared, At!NothingLeftBehind
<1> QED
  BY <1>1, <1>2, <1>3, <1>4, <1>5 DEF AttachmentsInv

LEMMA DeleteObjectsKeeps ==
  ASSUME AttachmentsInv, NEW c \in Calls, At!DeleteObjects(c)
  PROVE  AttachmentsInv'
<1> USE DEF At!DeleteObjects, At!DeletesObjects, At!Deleted, At!Reaches,
   At!OnlyStore, At!Kept, At!Found, At!Idle, At!Unborn
<1>1. AtTyped'
  <2>1. /\ store' \in Stores
        /\ ~blipped' => store'.main = "absent" /\ (store'.thumb => ~upload[c].thumb)
    <3>1. store \in Stores /\ upload[c].thumb \in BOOLEAN
      BY DEF AttachmentsInv, AtTyped, At!Runs
    <3> QED
      BY <3>1, StoreShrinks
  <2>2. upload' \in [Calls -> At!Runs]
    BY DEF AttachmentsInv, AtTyped, At!Runs, At!Steps
  <2>3. UNCHANGED <<row, sweep>>
    OBVIOUS
  <2> QED
    BY <2>1, <2>2, <2>3 DEF AttachmentsInv, AtTyped
<1>2. Young'
  BY DEF AttachmentsInv, AtTyped, AtRows, Young
<1>3. Backed'
  BY DEF AttachmentsInv, AtTyped, AtRows, Stores, At!Runs, Young, Backed,
     Promised, At!Served, At!Removing
<1>4. Named'
  BY DEF AttachmentsInv, AtTyped, AtRows, At!Runs, Young, Aged, Named
<1>5. Cleared'
  BY DEF AttachmentsInv, AtTyped, AtRows, Stores, At!Runs, Aged, Named,
     Cleared, At!NothingLeftBehind
<1>6. Aged'
  BY DEF AttachmentsInv, Aged
<1> QED
  BY <1>1, <1>2, <1>3, <1>4, <1>5, <1>6 DEF AttachmentsInv

LEMMA SoftDeleteKeeps ==
  ASSUME AttachmentsInv, NEW c \in Calls, At!SoftDelete(c)
  PROVE  AttachmentsInv'
<1> USE DEF At!SoftDelete, At!Ends, At!OnlyRows, At!Kept, At!Found, At!Idle,
   At!Unborn
<1>1. AtTyped'
  BY DEF AttachmentsInv, AtTyped, AtRows, Stores, At!Runs, At!Steps, At!Gone
<1>2. Young'
  BY DEF AttachmentsInv, AtTyped, AtRows, Young
<1>3. Aged'
  BY DEF AttachmentsInv, AtTyped, AtRows, Young, Aged
<1>4. Backed'
  BY DEF AttachmentsInv, AtTyped, AtRows, Stores, At!Runs, Young, Backed,
     Promised, At!Served, At!Removing
<1>5. Named'
  BY DEF AttachmentsInv, AtTyped, AtRows, At!Runs, Young, Aged, Named
<1>6. Cleared'
  BY DEF AttachmentsInv, AtTyped, AtRows, Stores, At!Runs, Aged, Named,
     Cleared, At!NothingLeftBehind
<1> QED
  BY <1>1, <1>2, <1>3, <1>4, <1>5, <1>6 DEF AttachmentsInv

LEMMA CallFailsKeeps ==
  ASSUME AttachmentsInv, NEW c \in Calls, At!CallFails(c)
  PROVE  AttachmentsInv'
<1> USE DEF At!CallFails, At!Ends, At!OnlyCalls, At!Kept, At!Found, At!Idle,
   At!Unborn
<1>1. AtTyped'
  BY DEF AttachmentsInv, AtTyped, AtRows, Stores, At!Runs, At!Steps, At!Gone
<1>2. Young'
  BY DEF AttachmentsInv, AtTyped, AtRows, Young
<1>3. Backed'
  BY DEF AttachmentsInv, AtTyped, AtRows, Stores, At!Runs, Young, Backed,
     Promised, At!Served, At!Removing
<1>4. Named'
  BY DEF AttachmentsInv, AtTyped, AtRows, At!Runs, Young, Aged, Named
<1>5. Aged' /\ Cleared'
  BY DEF AttachmentsInv, Aged, Cleared, At!NothingLeftBehind
<1> QED
  BY <1>1, <1>2, <1>3, <1>4, <1>5 DEF AttachmentsInv

LEMMA CallDiesKeeps ==
  ASSUME AttachmentsInv, NEW c \in Calls, At!CallDies(c)
  PROVE  AttachmentsInv'
<1> USE DEF At!CallDies, At!Ends, At!Kept, At!Found, At!Idle, At!Unborn
<1>1. AtTyped'
  BY DEF AttachmentsInv, AtTyped, AtRows, Stores, At!Runs, At!Steps, At!Gone
<1>2. Young'
  BY DEF AttachmentsInv, AtTyped, AtRows, Young
<1>3. Backed'
  BY DEF AttachmentsInv, AtTyped, AtRows, Stores, At!Runs, Young, Backed,
     Promised, At!Served, At!Removing
<1>4. Named'
  BY DEF AttachmentsInv, AtTyped, AtRows, At!Runs, Young, Aged, Named
<1>5. Aged' /\ Cleared'
  BY DEF AttachmentsInv, Aged, Cleared, At!NothingLeftBehind
<1> QED
  BY <1>1, <1>2, <1>3, <1>4, <1>5 DEF AttachmentsInv

LEMMA SweepSelectsKeeps ==
  ASSUME AttachmentsInv, At!SweepSelects
  PROVE  AttachmentsInv'
<1> USE DEF At!SweepSelects, At!Stale, At!Purgeable, At!Kept, At!Found,
   At!Idle, At!Unborn
<1>1. AtTyped'
  BY DEF AttachmentsInv, AtTyped, AtRows, Stores, At!Runs, At!Steps, At!Gone
<1>2. Aged'
  BY DEF AttachmentsInv, AtTyped, AtRows, Young, Aged
<1>3. Backed'
  BY DEF AttachmentsInv, AtTyped, AtRows, Stores, At!Runs, Young, Backed,
     Promised, At!Served, At!Removing
<1>4. Named'
  BY DEF AttachmentsInv, AtTyped, AtRows, At!Runs, Young, Aged, Named
<1>5. Cleared'
  BY DEF AttachmentsInv, AtTyped, AtRows, Stores, At!Runs, Aged, Named,
     Cleared, At!NothingLeftBehind
<1>6. Young'
  BY DEF AttachmentsInv, Young
<1> QED
  BY <1>1, <1>2, <1>3, <1>4, <1>5, <1>6 DEF AttachmentsInv

LEMMA SweepObjectsKeeps ==
  ASSUME AttachmentsInv, At!SweepObjects
  PROVE  AttachmentsInv'
<1> USE DEF At!SweepObjects, At!DeletesObjects, At!Deleted, At!Kept, At!Found,
   At!Idle, At!Unborn
<1>1. AtTyped'
  <2>1. /\ store' \in Stores
        /\ ~blipped' => store'.main = "absent" /\ (store'.thumb => ~sweep.thumb)
    <3>1. store \in Stores /\ sweep.thumb \in BOOLEAN
      BY DEF AttachmentsInv, AtTyped, At!Runs
    <3> QED
      BY <3>1, StoreShrinks
  <2>2. sweep' \in At!Runs
    BY DEF AttachmentsInv, AtTyped, At!Runs, At!Steps
  <2>3. UNCHANGED <<row, upload>>
    OBVIOUS
  <2> QED
    BY <2>1, <2>2, <2>3 DEF AttachmentsInv, AtTyped
<1>2. Aged'
  BY DEF AttachmentsInv, AtTyped, AtRows, Young, Aged
<1>3. Backed'
  BY DEF AttachmentsInv, AtTyped, AtRows, Stores, At!Runs, Young, Backed,
     Promised, At!Served, At!Removing
<1>4. Named'
  BY DEF AttachmentsInv, AtTyped, AtRows, At!Runs, Young, Aged, Named
<1>5. Cleared'
  <2>1. ~blipped' => store'.main = "absent" /\ (store'.thumb => ~sweep.thumb)
    BY StoreShrinks DEF AttachmentsInv, AtTyped
  <2>2. ~blipped' => ~blipped /\ (store'.thumb => store.thumb)
    BY StoreShrinks DEF AttachmentsInv, AtTyped
  <2>3. UNCHANGED row /\ sweep' = [sweep EXCEPT !.pc = "row"] /\ sweep.pc = "objects"
    OBVIOUS
  <2> QED
    BY <2>1, <2>2, <2>3 DEF AttachmentsInv, AtTyped, At!Runs, Cleared, At!NothingLeftBehind
<1>6. Young'
  BY DEF AttachmentsInv, Young
<1> QED
  BY <1>1, <1>2, <1>3, <1>4, <1>5, <1>6 DEF AttachmentsInv

LEMMA SweepRowKeeps ==
  ASSUME AttachmentsInv, At!SweepRow
  PROVE  AttachmentsInv'
<1> USE DEF At!SweepRow, At!Kept, At!Found, At!Idle, At!Unborn
<1>1. AtTyped'
  BY DEF AttachmentsInv, AtTyped, AtRows, Stores, At!Runs, At!Steps, At!Gone
<1>2. Young'
  BY DEF AttachmentsInv, AtTyped, AtRows, Young
<1>3. Aged'
  BY DEF AttachmentsInv, AtTyped, AtRows, Young, Aged
<1>4. Backed'
  BY DEF AttachmentsInv, AtTyped, AtRows, Stores, At!Runs, Young, Backed,
     Promised, At!Served, At!Removing
<1>5. Named'
  BY DEF AttachmentsInv, AtTyped, AtRows, At!Runs, Young, Aged, Named
<1>6. Cleared'
  BY DEF AttachmentsInv, AtTyped, AtRows, Stores, At!Runs, Aged, Named,
     Cleared, At!NothingLeftBehind
<1> QED
  BY <1>1, <1>2, <1>3, <1>4, <1>5, <1>6 DEF AttachmentsInv

LEMMA SweepDiesKeeps ==
  ASSUME AttachmentsInv, At!SweepDies
  PROVE  AttachmentsInv'
<1> USE DEF At!SweepDies, At!Kept, At!Found, At!Idle, At!Unborn
<1>1. AtTyped'
  BY DEF AttachmentsInv, AtTyped, AtRows, Stores, At!Runs, At!Steps, At!Gone
<1>2. Aged'
  BY DEF AttachmentsInv, AtTyped, AtRows, Young, Aged
<1>3. Backed'
  BY DEF AttachmentsInv, AtTyped, AtRows, Stores, At!Runs, Young, Backed,
     Promised, At!Served, At!Removing
<1>4. Named'
  BY DEF AttachmentsInv, AtTyped, AtRows, At!Runs, Young, Aged, Named
<1>5. Cleared'
  BY DEF AttachmentsInv, AtTyped, AtRows, Stores, At!Runs, Aged, Named,
     Cleared, At!NothingLeftBehind
<1>6. Young'
  BY DEF AttachmentsInv, Young
<1> QED
  BY <1>1, <1>2, <1>3, <1>4, <1>5, <1>6 DEF AttachmentsInv

AttachmentsBooleans == subject \in BOOLEAN /\ blipped \in BOOLEAN /\ torn \in BOOLEAN

LEMMA AttachmentsStart == At!Init => AttachmentsInv /\ AttachmentsBooleans
<1> SUFFICES ASSUME At!Init PROVE AttachmentsInv /\ AttachmentsBooleans
  OBVIOUS
<1> USE DEF At!Init
<1>1. AtTyped
  <2>1. row \in AtRows
    BY DEF AtRows, At!Unborn
  <2>2. store \in Stores
    BY DEF Stores
  <2>3. At!Idle \in At!Runs
    BY DEF At!Runs, At!Idle, At!Steps
  <2> QED
    BY <2>1, <2>2, <2>3 DEF AtTyped
<1>2. Young /\ Aged /\ Backed /\ Named /\ Cleared
  BY DEF Young, Aged, Backed, Promised, At!Served, Named, Cleared, At!NothingLeftBehind,
     At!Unborn, At!Idle
<1>3. AttachmentsBooleans
  BY DEF AttachmentsBooleans
<1> QED
  BY <1>1, <1>2, <1>3 DEF AttachmentsInv

LEMMA AttachmentsRemember ==
  AttachmentsBooleans /\ [At!Next]_attachments => AttachmentsBooleans'
<1> SUFFICES ASSUME AttachmentsBooleans, [At!Next]_attachments PROVE AttachmentsBooleans'
  OBVIOUS
<1>1. CASE UNCHANGED <<blipped, torn>> /\ (UNCHANGED subject \/ subject' = FALSE)
  BY <1>1 DEF AttachmentsBooleans
<1>2. ASSUME NEW t, At!DeletesObjects(t), UNCHANGED <<subject, torn>>
      PROVE  AttachmentsBooleans'
  BY <1>2 DEF AttachmentsBooleans, At!DeletesObjects
<1>3. ASSUME NEW b \in BOOLEAN, torn' = (torn \/ b), UNCHANGED <<subject, blipped>>
      PROVE  AttachmentsBooleans'
  BY <1>3 DEF AttachmentsBooleans
<1>4. ASSUME NEW c \in Calls, At!Confirm(c) \/ At!DeleteReads(c) \/ At!SoftDelete(c) \/ At!CallFails(c)
      PROVE  UNCHANGED <<subject, blipped, torn>>
  BY <1>4 DEF At!Confirm, At!ConfirmReads, At!Head, At!DropObject, At!EraseRow,
     At!HeadThumbnail, At!Swap, At!DeleteReads, At!SoftDelete, At!CallFails,
     At!OnlyCalls, At!OnlyRows, At!OnlyStore
<1>5. ASSUME NEW c \in Calls, At!DeleteObjects(c)
      PROVE  AttachmentsBooleans'
  BY <1>2, <1>5 DEF At!DeleteObjects, At!OnlyStore
<1>6. ASSUME NEW c \in Calls, At!CallDies(c)
      PROVE  AttachmentsBooleans'
  <2>1. (upload[c].pc \in {"erase", "soft"}) \in BOOLEAN
    OBVIOUS
  <2> QED
    BY <1>3, <1>6, <2>1 DEF At!CallDies
<1>7. CASE At!SweepStep
  BY <1>1, <1>2, <1>7 DEF At!SweepStep, At!SweepSelects, At!SweepObjects, At!SweepRow
<1>8. CASE At!SweepDies
  <2>1. (sweep.pc = "row") \in BOOLEAN
    OBVIOUS
  <2> QED
    BY <1>3, <1>8, <2>1 DEF At!SweepDies
<1>9. CASE At!CreateUpload \/ At!Put \/ At!SubjectDeleted \/ At!Ages \/ At!RetentionEnds
  BY <1>1, <1>9 DEF At!CreateUpload, At!Put, At!SubjectDeleted, At!Ages, At!RetentionEnds
<1>10. CASE UNCHANGED attachments
  BY <1>1, <1>10 DEF attachments
<1> QED
  BY <1>1, <1>4, <1>5, <1>6, <1>7, <1>8, <1>9, <1>10 DEF At!Next, At!Delete

LEMMA AttachmentsContinue == AttachmentsInv /\ [At!Next]_attachments => AttachmentsInv'
<1> SUFFICES ASSUME AttachmentsInv, [At!Next]_attachments PROVE AttachmentsInv'
  OBVIOUS
<1>1. ASSUME NEW c \in Calls, At!Confirm(c) \/ At!Delete(c) \/ At!CallFails(c) \/ At!CallDies(c)
      PROVE  AttachmentsInv'
  BY <1>1, ConfirmReadsKeeps, HeadKeeps, DropObjectKeeps, EraseRowKeeps, HeadThumbnailKeeps,
     SwapKeeps, DeleteReadsKeeps, DeleteObjectsKeeps, SoftDeleteKeeps, CallFailsKeeps,
     CallDiesKeeps DEF At!Confirm, At!Delete
<1>2. CASE At!SweepStep \/ At!SweepDies
  BY <1>2, SweepSelectsKeeps, SweepObjectsKeeps, SweepRowKeeps, SweepDiesKeeps
  DEF At!SweepStep
<1>3. CASE At!CreateUpload \/ At!Put \/ At!SubjectDeleted \/ At!Ages \/ At!RetentionEnds
  BY <1>3, CreateUploadKeeps, PutKeeps, SubjectDeletedKeeps, AgesKeeps, RetentionEndsKeeps
<1>4. CASE UNCHANGED attachments
  BY <1>4 DEF attachments, AttachmentsInv, AtTyped, Young, Aged, Backed, Promised,
     At!Served, At!Removing, Named, Cleared, At!NothingLeftBehind
<1> QED
  BY <1>1, <1>2, <1>3, <1>4 DEF At!Next

LEMMA AttachmentsKeep ==
  AttachmentsInv /\ AttachmentsBooleans /\ deaths \in 0 .. MaxDeaths
    => At!TypeOK /\ At!ServedIsStored /\ At!NothingLeftBehind
<1> SUFFICES ASSUME AttachmentsInv, AttachmentsBooleans, deaths \in 0 .. MaxDeaths
             PROVE  At!TypeOK /\ At!ServedIsStored /\ At!NothingLeftBehind
  OBVIOUS
<1>1. At!TypeOK
  BY DEF AttachmentsInv, AttachmentsBooleans, AtTyped, AtRows, Stores, Aged, At!TypeOK
<1>2. At!ServedIsStored
  BY DEF AttachmentsInv, Backed, Promised, At!ServedIsStored
<1> QED
  BY <1>1, <1>2 DEF AttachmentsInv, Cleared

----------------------------------------------------------------------------
(* Research.                                                               *)

Docs == [status : {"researching", "needs_review", "accepted", "deleted"},
         version : 0 .. MaxTurns, accepted : BOOLEAN]
Turns0 == [pc : {"idle", "publish", "draft", "reply", "accept", "feedback", "reopen"},
           version : 0 .. MaxTurns, heard : BOOLEAN]

ReTyped ==
  /\ doc \in Docs
  /\ turn \in [Calls -> Turns0]
  /\ turns \in [agent : 0 .. MaxTurns, people : 0 .. MaxTurns]
  /\ turns.agent + turns.people <= MaxTurns
  /\ drafts \in Nat

(* Nobody has read a version that no draft stands for.                     *)
Numbered ==
  /\ doc.version <= drafts
  /\ \A c \in Calls : turn[c].pc \in {"publish", "draft"} => turn[c].version <= drafts

(* Every draft, published or on its way to the document, has its message.  *)
Drafting == {c \in Calls : turn[c].pc = "draft"}
Spoken == IsFiniteSet(Drafting) /\ drafts + Cardinality(Drafting) <= turns.agent

(* Who accepts or reopens has seen a version, and versions stay.           *)
Versioned ==
  \/ doc.status \in {"needs_review", "accepted"}
  \/ \E c \in Calls : turn[c].pc \in {"accept", "feedback", "reopen"}
Reviewed == Versioned => doc.version >= 1

(* A reply that met nobody is being written, or has been; in that case the *)
(* document is in the agent's court, and whoever is at work has read it.   *)
Awaited ==
  unheard /\ ~excused /\ Re!Exists =>
    \/ \E c \in Calls : turn[c].pc = "reply"
    \/ /\ doc.status = "researching"
       /\ \A c \in Calls :
            turn[c] = Re!Idle \/ (turn[c].pc \in {"publish", "draft"} /\ turn[c].heard)

ResearchInv == ReTyped /\ Numbered /\ Spoken /\ Reviewed /\ Awaited

LEMMA FewerDrafting ==
  ASSUME ReTyped, Spoken, Drafting' \subseteq Drafting, UNCHANGED drafts,
         turns'.agent \in Nat, turns.agent <= turns'.agent
  PROVE  Spoken'
<1>1. /\ IsFiniteSet(Drafting') /\ Cardinality(Drafting') <= Cardinality(Drafting)
      /\ Cardinality(Drafting) \in Nat /\ Cardinality(Drafting') \in Nat
  BY FS_Subset, FS_CardinalityType DEF Spoken
<1> QED
  BY <1>1, Bounds DEF ReTyped, Spoken

LEMMA SaysTyped ==
  ASSUME ReTyped, NEW who \in {"agent", "people"}, Re!Says(who)
  PROVE  /\ turns' \in [agent : 0 .. MaxTurns, people : 0 .. MaxTurns]
         /\ turns'.agent + turns'.people <= MaxTurns
<1>1. /\ turns.agent \in 0 .. MaxTurns /\ turns.people \in 0 .. MaxTurns
      /\ turns.agent + turns.people < MaxTurns
      /\ turns' = [turns EXCEPT ![who] = @ + 1]
  BY DEF ReTyped, Re!Says
<1>2. \/ turns' = [agent |-> turns.agent + 1, people |-> turns.people]
      \/ turns' = [agent |-> turns.agent, people |-> turns.people + 1]
  BY <1>1 DEF ReTyped
<1>3. turns.agent + 1 \in 0 .. MaxTurns /\ turns.people + 1 \in 0 .. MaxTurns
  BY <1>1, Bounds
<1>4. turns' \in [agent : 0 .. MaxTurns, people : 0 .. MaxTurns]
  BY <1>1, <1>2, <1>3
<1>5. turns'.agent + turns'.people = turns.agent + turns.people + 1
  <2>1. turns.agent \in Nat /\ turns.people \in Nat
    BY <1>1, Bounds
  <2>2. \/ turns'.agent = turns.agent + 1 /\ turns'.people = turns.people
        \/ turns'.agent = turns.agent /\ turns'.people = turns.people + 1
    BY <1>2
  <2> QED
    BY <2>1, <2>2
<1> QED
  BY <1>1, <1>4, <1>5, Bounds

(* The document is written, by its id.                                     *)
LEMMA WritesTyped ==
  ASSUME ReTyped, NEW new \in Docs, Re!Writes(new)
  PROVE  doc' \in Docs
BY DEF ReTyped, Re!Writes

(* A request moves on, or ends.                                            *)
LEMMA RequestTurns ==
  ASSUME ReTyped, NEW c \in Calls,
         \/ turn' = [turn EXCEPT ![c] = Re!Idle]
         \/ \E pc \in {"draft", "reopen", "accept", "feedback"} : turn' = [turn EXCEPT ![c].pc = pc]
  PROVE  turn' \in [Calls -> Turns0]
<1>1. Re!Idle \in Turns0 /\ turn[c] \in Turns0
  BY Bounds DEF ReTyped, Turns0, Re!Idle
<1>2. \E t \in Turns0 : turn' = [turn EXCEPT ![c] = t]
  BY <1>1 DEF Turns0
<1> QED
  BY <1>2 DEF ReTyped

LEMMA AgentReadsKeeps ==
  ASSUME ResearchInv, NEW c \in Calls, Re!AgentReads(c)
  PROVE  ResearchInv'
<1> USE Bounds DEF Re!AgentReads, Re!Exists, Re!Idle
<1>1. ReTyped'
  BY DEF ResearchInv, ReTyped, Docs, Turns0
<1>2. Numbered'
  BY DEF ResearchInv, ReTyped, Docs, Turns0, Numbered
<1>3. Spoken'
  <2>1. Drafting' \subseteq Drafting /\ turns'.agent \in Nat /\ turns.agent <= turns'.agent
    BY DEF ResearchInv, ReTyped, Turns0, Drafting
  <2> QED
    BY <2>1, FewerDrafting DEF ResearchInv
<1>4. Reviewed'
  BY DEF ResearchInv, ReTyped, Docs, Turns0, Reviewed, Versioned
<1>5. Awaited'
  <2>1. /\ turn'[c].pc = "publish" /\ turn'[c].heard
        /\ \A d \in Calls \ {c} : turn'[d] = turn[d]
    BY DEF ResearchInv, ReTyped
  <2>2. UNCHANGED <<doc, unheard, excused>> /\ turn[c].pc = "idle"
    OBVIOUS
  <2> QED
    BY <2>1, <2>2 DEF ResearchInv, Awaited
<1> QED
  BY <1>1, <1>2, <1>3, <1>4, <1>5 DEF ResearchInv

LEMMA AgentSaysKeeps ==
  ASSUME ResearchInv, NEW c \in Calls, Re!AgentSays(c)
  PROVE  ResearchInv'
<1> USE Bounds DEF Re!AgentSays, Re!Says, Re!Reaches, Re!Ends, Re!Exists,
   Re!Idle
<1>1. ReTyped'
  <2>1. turn' \in [Calls -> Turns0]
    BY RequestTurns DEF ResearchInv, Re!Reaches, Re!Ends
  <2>2. CASE Re!Exists
    BY <2>1, <2>2, SaysTyped DEF ResearchInv, ReTyped
  <2>3. CASE ~Re!Exists
    BY <2>1, <2>3 DEF ResearchInv, ReTyped
  <2> QED
    BY <2>2, <2>3
<1>2. Numbered'
  BY DEF ResearchInv, ReTyped, Docs, Turns0, Numbered
<1>3. Spoken'
  <2>1. CASE ~Re!Exists
    <3>1. Drafting' \subseteq Drafting /\ turns'.agent \in Nat /\ turns.agent <= turns'.agent
      BY <2>1 DEF ResearchInv, ReTyped, Turns0, Drafting
    <3> QED
      BY <3>1, FewerDrafting DEF ResearchInv
  <2>2. CASE Re!Exists
    <3>1. Drafting' = Drafting \union {c} /\ c \notin Drafting
      BY <2>2 DEF ResearchInv, ReTyped, Turns0, Drafting
    <3>2. turns'.agent = turns.agent + 1 /\ drafts' = drafts
      BY <2>2 DEF ResearchInv, ReTyped
    <3>3. /\ IsFiniteSet(Drafting') /\ Cardinality(Drafting') = Cardinality(Drafting) + 1
          /\ Cardinality(Drafting) \in Nat
      BY <3>1, FS_AddElement, FS_CardinalityType DEF ResearchInv, Spoken
    <3> QED
      BY <3>2, <3>3, Bounds DEF ResearchInv, ReTyped, Spoken
  <2> QED
    BY <2>1, <2>2
<1>4. Reviewed'
  BY DEF ResearchInv, ReTyped, Docs, Turns0, Reviewed, Versioned
<1>5. Awaited'
  BY DEF ResearchInv, ReTyped, Docs, Turns0, Awaited
<1> QED
  BY <1>1, <1>2, <1>3, <1>4, <1>5 DEF ResearchInv

LEMMA PublishesKeeps ==
  ASSUME ResearchInv, NEW c \in Calls, Re!Publishes(c)
  PROVE  ResearchInv'
<1> USE Bounds DEF Re!Publishes, Re!Writes, Re!NextVersion, Re!Ends,
   Re!Exists, Re!Idle
<1>1. ReTyped'
  <2>1. c \in Drafting /\ turn[c].version <= drafts /\ turn[c].version \in Nat
    BY DEF ResearchInv, ReTyped, Turns0, Numbered, Drafting
  <2>2. Cardinality(Drafting) \in Nat /\ Cardinality(Drafting) # 0
    BY <2>1, FS_EmptySet, FS_CardinalityType DEF ResearchInv, Spoken
  <2>3. turn[c].version + 1 \in 0 .. MaxTurns
    BY <2>1, <2>2 DEF ResearchInv, ReTyped, Spoken
  <2>4. [doc EXCEPT !.status = "needs_review", !.version = turn[c].version + 1] \in Docs
    BY <2>3 DEF ResearchInv, ReTyped, Docs
  <2>5. doc' \in Docs
    BY <2>4, WritesTyped DEF ResearchInv, ReTyped
  <2>6. drafts' \in Nat /\ UNCHANGED turns
    BY DEF ResearchInv, ReTyped
  <2> QED
    BY <2>5, <2>6, RequestTurns DEF ResearchInv, ReTyped
<1>2. Numbered'
  BY DEF ResearchInv, ReTyped, Docs, Turns0, Numbered
<1>3. Spoken'
  <2>1. Drafting' = Drafting \ {c} /\ c \in Drafting
    BY DEF ResearchInv, ReTyped, Turns0, Drafting
  <2>2. drafts' \in {drafts, drafts + 1} /\ UNCHANGED turns
    OBVIOUS
  <2>3. /\ IsFiniteSet(Drafting') /\ Cardinality(Drafting') = Cardinality(Drafting) - 1
        /\ Cardinality(Drafting) \in Nat
    BY <2>1, FS_RemoveElement, FS_CardinalityType DEF ResearchInv, Spoken
  <2> QED
    BY <2>2, <2>3, Bounds DEF ResearchInv, ReTyped, Spoken
<1>4. Reviewed'
  BY DEF ResearchInv, ReTyped, Docs, Turns0, Reviewed, Versioned
<1>5. Awaited'
  <2>1. turn'[c] = Re!Idle /\ \A d \in Calls \ {c} : turn'[d] = turn[d]
    BY DEF ResearchInv, ReTyped
  <2>2. /\ unheard' => unheard /\ ~turn[c].heard
        /\ doc'.status # "deleted" => doc.status # "deleted"
        /\ turn[c].pc = "draft" /\ UNCHANGED excused
    BY DEF ResearchInv, ReTyped, Docs
  <2> QED
    BY <2>1, <2>2 DEF ResearchInv, Awaited
<1> QED
  BY <1>1, <1>2, <1>3, <1>4, <1>5 DEF ResearchInv

LEMMA ReplySaysKeeps ==
  ASSUME ResearchInv, NEW c \in Calls, Re!ReplySays(c)
  PROVE  ResearchInv'
<1> USE Bounds DEF Re!ReplySays, Re!Says, Re!Others, Re!Exists, Re!Idle
<1>1. ReTyped'
  <2>1. \A d \in Calls : turn[d] \in Turns0
    BY DEF ResearchInv, ReTyped
  <2>2. \A d \in Calls : [turn[d] EXCEPT !.heard = FALSE] \in Turns0
    BY <2>1 DEF Turns0
  <2>3. [Re!Idle EXCEPT !.pc = "reply"] \in Turns0
    <3>1. Re!Idle \in Turns0
      BY DEF Turns0
    <3> QED
      BY ONLY <3>1 DEF Turns0
  <2>4. turn' \in [Calls -> Turns0]
    BY <2>2, <2>3
  <2> QED
    BY <2>4, SaysTyped DEF ResearchInv, ReTyped
<1>2. Numbered'
  BY DEF ResearchInv, ReTyped, Docs, Turns0, Numbered
<1>3. Spoken'
  <2>1. Drafting' \subseteq Drafting /\ turns'.agent \in Nat /\ turns.agent <= turns'.agent
    BY DEF ResearchInv, ReTyped, Turns0, Drafting
  <2> QED
    BY <2>1, FewerDrafting DEF ResearchInv
<1>4. Reviewed'
  BY DEF ResearchInv, ReTyped, Docs, Turns0, Reviewed, Versioned
<1>5. Awaited'
  BY DEF ResearchInv, ReTyped, Docs, Turns0, Awaited
<1> QED
  BY <1>1, <1>2, <1>3, <1>4, <1>5 DEF ResearchInv

LEMMA ReplyAwaitsKeeps ==
  ASSUME ResearchInv, NEW c \in Calls, Re!ReplyAwaits(c)
  PROVE  ResearchInv'
<1> USE Bounds DEF Re!ReplyAwaits, Re!Writes, Re!Ends, Re!Others, Re!Exists,
   Re!Idle
<1>1. ReTyped'
  BY DEF ResearchInv, ReTyped, Docs, Turns0
<1>2. Numbered'
  BY DEF ResearchInv, ReTyped, Docs, Turns0, Numbered
<1>3. Spoken'
  <2>1. Drafting' \subseteq Drafting /\ turns'.agent \in Nat /\ turns.agent <= turns'.agent
    BY DEF ResearchInv, ReTyped, Turns0, Drafting
  <2> QED
    BY <2>1, FewerDrafting DEF ResearchInv
<1>4. Reviewed'
  BY DEF ResearchInv, ReTyped, Docs, Turns0, Reviewed, Versioned
<1>5. Awaited'
  BY DEF ResearchInv, ReTyped, Docs, Turns0, Awaited
<1> QED
  BY <1>1, <1>2, <1>3, <1>4, <1>5 DEF ResearchInv

LEMMA AcceptReadsKeeps ==
  ASSUME ResearchInv, NEW c \in Calls, Re!AcceptReads(c)
  PROVE  ResearchInv'
<1> USE Bounds DEF Re!AcceptReads, Re!Reaches, Re!Exists, Re!Idle
<1>1. ReTyped'
  BY DEF ResearchInv, ReTyped, Docs, Turns0
<1>2. Numbered'
  BY DEF ResearchInv, ReTyped, Docs, Turns0, Numbered
<1>3. Spoken'
  <2>1. Drafting' \subseteq Drafting /\ turns'.agent \in Nat /\ turns.agent <= turns'.agent
    BY DEF ResearchInv, ReTyped, Turns0, Drafting
  <2> QED
    BY <2>1, FewerDrafting DEF ResearchInv
<1>4. Reviewed'
  BY DEF ResearchInv, ReTyped, Docs, Turns0, Reviewed, Versioned
<1>5. Awaited'
  BY DEF ResearchInv, ReTyped, Docs, Turns0, Awaited
<1> QED
  BY <1>1, <1>2, <1>3, <1>4, <1>5 DEF ResearchInv

LEMMA AcceptWritesKeeps ==
  ASSUME ResearchInv, NEW c \in Calls, Re!AcceptWrites(c)
  PROVE  ResearchInv'
<1> USE Bounds DEF Re!AcceptWrites, Re!Writes, Re!Ends, Re!Exists, Re!Idle
<1>1. ReTyped'
  <2>1. [doc EXCEPT !.status = "accepted", !.accepted = TRUE] \in Docs
    BY DEF ResearchInv, ReTyped, Docs
  <2>2. doc' \in Docs
    BY <2>1, WritesTyped DEF ResearchInv, ReTyped
  <2> QED
    BY <2>2, RequestTurns DEF ResearchInv, ReTyped
<1>2. Numbered'
  BY DEF ResearchInv, ReTyped, Docs, Turns0, Numbered
<1>3. Spoken'
  <2>1. Drafting' \subseteq Drafting /\ turns'.agent \in Nat /\ turns.agent <= turns'.agent
    BY DEF ResearchInv, ReTyped, Turns0, Drafting
  <2> QED
    BY <2>1, FewerDrafting DEF ResearchInv
<1>4. Reviewed'
  BY DEF ResearchInv, ReTyped, Docs, Turns0, Reviewed, Versioned
<1>5. Awaited'
  BY DEF ResearchInv, ReTyped, Docs, Turns0, Awaited
<1> QED
  BY <1>1, <1>2, <1>3, <1>4, <1>5 DEF ResearchInv

LEMMA ReopenReadsKeeps ==
  ASSUME ResearchInv, NEW c \in Calls, Re!ReopenReads(c)
  PROVE  ResearchInv'
<1> USE Bounds DEF Re!ReopenReads, Re!Reaches, Re!Exists, Re!Idle
<1>1. ReTyped'
  BY DEF ResearchInv, ReTyped, Docs, Turns0
<1>2. Numbered'
  BY DEF ResearchInv, ReTyped, Docs, Turns0, Numbered
<1>3. Spoken'
  <2>1. Drafting' \subseteq Drafting /\ turns'.agent \in Nat /\ turns.agent <= turns'.agent
    BY DEF ResearchInv, ReTyped, Turns0, Drafting
  <2> QED
    BY <2>1, FewerDrafting DEF ResearchInv
<1>4. Reviewed'
  BY DEF ResearchInv, ReTyped, Docs, Turns0, Reviewed, Versioned
<1>5. Awaited'
  BY DEF ResearchInv, ReTyped, Docs, Turns0, Awaited
<1> QED
  BY <1>1, <1>2, <1>3, <1>4, <1>5 DEF ResearchInv

LEMMA ReopenSaysKeeps ==
  ASSUME ResearchInv, NEW c \in Calls, Re!ReopenSays(c)
  PROVE  ResearchInv'
<1> USE Bounds DEF Re!ReopenSays, Re!Says, Re!Reaches, Re!Ends, Re!Exists,
   Re!Idle
<1>1. ReTyped'
  <2>1. turn' \in [Calls -> Turns0]
    BY RequestTurns DEF ResearchInv, Re!Reaches, Re!Ends
  <2>2. CASE Re!Exists
    BY <2>1, <2>2, SaysTyped DEF ResearchInv, ReTyped
  <2>3. CASE ~Re!Exists
    BY <2>1, <2>3 DEF ResearchInv, ReTyped
  <2> QED
    BY <2>2, <2>3
<1>2. Numbered'
  BY DEF ResearchInv, ReTyped, Docs, Turns0, Numbered
<1>3. Spoken'
  <2>1. Drafting' \subseteq Drafting /\ turns'.agent \in Nat /\ turns.agent <= turns'.agent
    BY DEF ResearchInv, ReTyped, Turns0, Drafting
  <2> QED
    BY <2>1, FewerDrafting DEF ResearchInv
<1>4. Reviewed'
  BY DEF ResearchInv, ReTyped, Docs, Turns0, Reviewed, Versioned
<1>5. Awaited'
  BY DEF ResearchInv, ReTyped, Docs, Turns0, Awaited
<1> QED
  BY <1>1, <1>2, <1>3, <1>4, <1>5 DEF ResearchInv

LEMMA ReopenWritesKeeps ==
  ASSUME ResearchInv, NEW c \in Calls, Re!ReopenWrites(c)
  PROVE  ResearchInv'
<1> USE Bounds DEF Re!ReopenWrites, Re!Writes, Re!Ends, Re!Exists, Re!Idle
<1>1. ReTyped'
  <2>1. [doc EXCEPT !.status = "needs_review", !.accepted = FALSE] \in Docs
    BY DEF ResearchInv, ReTyped, Docs
  <2>2. doc' \in Docs
    BY <2>1, WritesTyped DEF ResearchInv, ReTyped
  <2> QED
    BY <2>2, RequestTurns DEF ResearchInv, ReTyped
<1>2. Numbered'
  BY DEF ResearchInv, ReTyped, Docs, Turns0, Numbered
<1>3. Spoken'
  <2>1. Drafting' \subseteq Drafting /\ turns'.agent \in Nat /\ turns.agent <= turns'.agent
    BY DEF ResearchInv, ReTyped, Turns0, Drafting
  <2> QED
    BY <2>1, FewerDrafting DEF ResearchInv
<1>4. Reviewed'
  BY DEF ResearchInv, ReTyped, Docs, Turns0, Reviewed, Versioned
<1>5. Awaited'
  BY DEF ResearchInv, ReTyped, Docs, Turns0, Awaited
<1> QED
  BY <1>1, <1>2, <1>3, <1>4, <1>5 DEF ResearchInv

LEMMA CallCutOffKeeps ==
  ASSUME ResearchInv, NEW c \in Calls, Re!CallDies(c)
  PROVE  ResearchInv'
<1> USE Bounds DEF Re!CallDies, Re!Ends, Re!Exists, Re!Idle
<1>1. ReTyped'
  BY DEF ResearchInv, ReTyped, Docs, Turns0
<1>2. Numbered'
  BY DEF ResearchInv, ReTyped, Docs, Turns0, Numbered
<1>3. Spoken'
  <2>1. Drafting' \subseteq Drafting /\ turns'.agent \in Nat /\ turns.agent <= turns'.agent
    BY DEF ResearchInv, ReTyped, Turns0, Drafting
  <2> QED
    BY <2>1, FewerDrafting DEF ResearchInv
<1>4. Reviewed'
  BY DEF ResearchInv, ReTyped, Docs, Turns0, Reviewed, Versioned
<1>5. Awaited'
  BY DEF ResearchInv, ReTyped, Docs, Turns0, Awaited
<1> QED
  BY <1>1, <1>2, <1>3, <1>4, <1>5 DEF ResearchInv

ResearchBooleans == unheard \in BOOLEAN /\ excused \in BOOLEAN

LEMMA ResearchStarts == Re!Init => ResearchInv /\ ResearchBooleans
<1> SUFFICES ASSUME Re!Init PROVE ResearchInv /\ ResearchBooleans
  OBVIOUS
<1>1. ReTyped
  <2>1. doc \in Docs
    BY Bounds DEF Re!Init, Docs
  <2>2. Re!Idle \in Turns0
    BY Bounds DEF Re!Idle, Turns0
  <2>3. turns = [agent |-> 0, people |-> 0] /\ turn = [c \in Calls |-> Re!Idle] /\ drafts = 0
    BY DEF Re!Init
  <2> QED
    BY <2>1, <2>2, <2>3, Bounds DEF ReTyped
<1>2. Numbered /\ Reviewed
  BY DEF Re!Init, Re!Idle, Numbered, Reviewed, Versioned
<1>3. Spoken
  <2>1. Drafting = {}
    BY DEF Re!Init, Re!Idle, Drafting
  <2> QED
    BY <2>1, FS_EmptySet DEF Spoken, Re!Init
<1>4. Awaited
  BY DEF Re!Init, Awaited
<1>5. ResearchBooleans
  BY DEF Re!Init, ResearchBooleans
<1> QED
  BY <1>1, <1>2, <1>3, <1>4, <1>5 DEF ResearchInv

LEMMA ResearchContinues == ResearchInv /\ [Re!Next]_research => ResearchInv'
<1> SUFFICES ASSUME ResearchInv, [Re!Next]_research PROVE ResearchInv'
  OBVIOUS
<1>1. CASE Re!Delete
  <2>1. doc' \in Docs /\ doc'.status = "deleted" /\ doc'.version = doc.version
    BY <1>1 DEF Re!Delete, ResearchInv, ReTyped, Docs
  <2>2. UNCHANGED <<turn, turns, drafts>>
    BY <1>1 DEF Re!Delete
  <2> QED
    BY <2>1, <2>2 DEF ResearchInv, ReTyped, Numbered, Spoken, Drafting, Reviewed, Versioned,
       Awaited, Re!Exists
<1>2. CASE UNCHANGED research
  BY <1>2 DEF research, ResearchInv, ReTyped, Numbered, Spoken, Drafting, Reviewed, Versioned,
     Awaited, Re!Exists
<1>3. ASSUME NEW c \in Calls,
             Re!AgentAppend(c) \/ Re!Reply(c) \/ Re!Accept(c) \/ Re!Reopen(c) \/ Re!CallDies(c)
      PROVE  ResearchInv'
  BY <1>3, AgentReadsKeeps, AgentSaysKeeps, PublishesKeeps, ReplySaysKeeps, ReplyAwaitsKeeps,
     AcceptReadsKeeps, AcceptWritesKeeps, ReopenReadsKeeps, ReopenSaysKeeps, ReopenWritesKeeps,
     CallCutOffKeeps
  DEF Re!AgentAppend, Re!Reply, Re!Accept, Re!Reopen
<1> QED
  BY <1>1, <1>2, <1>3 DEF Re!Next

LEMMA ResearchRemembers == ResearchBooleans /\ [Re!Next]_research => ResearchBooleans'
<1> SUFFICES ASSUME ResearchBooleans, [Re!Next]_research PROVE ResearchBooleans'
  OBVIOUS
<1>1. ASSUME NEW c \in Calls, Re!Accept(c) \/ Re!Reopen(c) \/ Re!AgentReads(c) \/ Re!AgentSays(c)
      PROVE  UNCHANGED <<unheard, excused>>
  BY <1>1 DEF Re!Accept, Re!Reopen, Re!AgentReads, Re!AgentSays, Re!AcceptReads,
     Re!AcceptWrites, Re!ReopenReads, Re!ReopenSays, Re!ReopenWrites
<1>2. ASSUME NEW c \in Calls, Re!Publishes(c)
      PROVE  ResearchBooleans'
  BY <1>2 DEF Re!Publishes, ResearchBooleans
<1>3. ASSUME NEW c \in Calls, Re!Reply(c)
      PROVE  ResearchBooleans'
  BY <1>3 DEF Re!Reply, Re!ReplySays, Re!ReplyAwaits, ResearchBooleans
<1>4. ASSUME NEW c \in Calls, Re!CallDies(c)
      PROVE  ResearchBooleans'
  BY <1>4 DEF Re!CallDies, ResearchBooleans
<1>5. CASE Re!Delete \/ UNCHANGED research
  BY <1>5 DEF Re!Delete, research, ResearchBooleans
<1> QED
  BY <1>1, <1>2, <1>3, <1>4, <1>5 DEF Re!Next, Re!AgentAppend, ResearchBooleans

LEMMA ResearchKeeps ==
  ResearchInv /\ ResearchBooleans /\ deaths \in 0 .. MaxDeaths
    => Re!TypeOK /\ Re!VersionsAreDrafts /\ Re!RepliesAreAwaited
<1> SUFFICES ASSUME ResearchInv, ResearchBooleans, deaths \in 0 .. MaxDeaths
             PROVE  Re!TypeOK /\ Re!VersionsAreDrafts /\ Re!RepliesAreAwaited
  OBVIOUS
<1>1. drafts \in 0 .. turns.agent
  <2>1. Cardinality(Drafting) \in Nat
    BY FS_CardinalityType DEF ResearchInv, Spoken
  <2> QED
    BY <2>1, Bounds DEF ResearchInv, ReTyped, Spoken
<1>2. Re!TypeOK
  BY <1>1 DEF ResearchInv, ResearchBooleans, ReTyped, Docs, Turns0, Re!TypeOK
<1>3. Re!VersionsAreDrafts
  BY DEF ResearchInv, Numbered, Reviewed, Versioned, Re!VersionsAreDrafts
<1>4. Re!RepliesAreAwaited
  BY DEF ResearchInv, Awaited, Re!RepliesAreAwaited, Re!Idle
<1> QED
  BY <1>2, <1>3, <1>4

----------------------------------------------------------------------------
(* MobileSession.                                                          *)

Tokens == 0 .. MaxPairs
Jars == [access : Tokens, refresh : Tokens]
Flows == [pc : {"none", "boot", "login", "me", "logout"}, tok : Tokens]
Reqs == [pc : {"idle", "sent", "waits", "resent"}, tok : Tokens]
Flights == [pc : {"none", "read", "post", "store", "landed", "refused", "failed"},
            tok : Tokens, got : Tokens]

MoTyped ==
  /\ status \in {"loading", "in", "out"}
  /\ jar \in Jars
  /\ flow \in Flows
  /\ req \in [Mo!All -> Reqs]
  /\ flight \in Flights
  /\ pair \in [Mo!Pairs -> {"unborn", "live", "spent", "over"}]
  /\ fresh \subseteq Mo!Pairs /\ lost \subseteq Mo!Pairs

(* What the refresh or a sign-in carries is a pair of the server's.        *)
Carried ==
  /\ flight.pc \in {"post", "store"} => flight.tok # 0
  /\ flight.pc = "store" => flight.got # 0
  /\ flow.pc = "login" => flow.tok # 0

(* The refresh presents the token that is stored, and none is stored that  *)
(* is spent, unless its answer was lost or is just being stored; what is   *)
(* about to be stored is not spent; and a refusal speaks of what is stored.*)
(* Unless somebody signed in or out beside it.                             *)
Undisturbed ==
  /\ flight.pc \in {"post", "store"} => jar.refresh = flight.tok
  /\ jar.refresh # 0 /\ pair[jar.refresh] = "spent" =>
       jar.refresh \in lost \/ flight.pc = "store"
  /\ flight.pc = "store" => pair[flight.got] # "spent"
  /\ flow.pc = "login" => flight.pc = "none" /\ pair[flow.tok] # "spent"
  /\ flight.pc = "refused" => jar.refresh = 0 \/ pair[jar.refresh] \in {"spent", "over"}
Settled == ~crossed => Undisturbed

MobileInv == MoTyped /\ Carried /\ Settled

Kept ==
  jar.refresh # 0 /\ pair[jar.refresh] = "live" /\ jar' = Mo!Empty =>
    \/ flow.pc \in {"logout", "boot"} /\ flow'.pc = "none"
    \/ crossed

LEMMA MobileConstants ==
  /\ Mo!Pairs = 1 .. MaxPairs /\ Mo!Pairs \subseteq Tokens /\ 0 \in Tokens
  /\ \A t \in Tokens : t # 0 => t \in Mo!Pairs
  /\ Mo!Empty \in Jars /\ Mo!Empty.refresh = 0
  /\ \A p \in Tokens : Mo!Of(p) \in Jars /\ Mo!Of(p).refresh = p
  /\ Mo!NoReq \in Reqs
  /\ Mo!NoFlight \in Flights /\ Mo!NoFlight.pc = "none"
  /\ Mo!NoFlow \in Flows /\ Mo!NoFlow.pc = "none"
<1>1. /\ Mo!Pairs = 1 .. MaxPairs /\ Mo!Pairs \subseteq Tokens /\ 0 \in Tokens
      /\ \A t \in Tokens : t # 0 => t \in Mo!Pairs
  BY Bounds DEF Mo!Pairs, Tokens
<1> QED
  BY <1>1 DEF Mo!Empty, Jars, Mo!Of, Mo!NoReq, Reqs, Mo!NoFlight, Flights, Mo!NoFlow, Flows

LEMMA SendKeeps ==
  ASSUME MobileInv, NEW r \in Mo!All, Mo!Send(r)
  PROVE  MobileInv' /\ Kept
<1> USE MobileConstants DEF Mo!Send, Mo!Sends, Mo!Server, Mo!History,
   MobileInv
<1>1. MoTyped'
  BY DEF MoTyped, Jars, Flows, Reqs, Flights
<1>2. Carried'
  BY DEF MoTyped, Flows, Flights, Carried
<1>3. Settled'
  BY DEF MoTyped, Jars, Flows, Flights, Carried, Settled, Undisturbed
<1>4. Kept
  BY DEF MoTyped, Jars, Flows, Flights, Carried, Settled, Undisturbed, Kept
<1> QED
  BY <1>1, <1>2, <1>3, <1>4

LEMMA AnsweredKeeps ==
  ASSUME MobileInv, NEW r \in Mo!All, Mo!Answered(r)
  PROVE  MobileInv' /\ Kept
<1> USE MobileConstants DEF Mo!Answered, Mo!Ends, Mo!FlowEnds,
   Mo!DropsCredentials, Mo!EndedBy, Mo!Server, Mo!History, MobileInv
<1>1. MoTyped'
  <2>1. /\ jar' \in Jars /\ status' \in {"loading", "in", "out"} /\ flow' \in Flows
        /\ req' \in [Mo!All -> Reqs]
    BY DEF MoTyped, Flows
  <2>2. /\ pair' \in [Mo!Pairs -> {"unborn", "live", "spent", "over"}]
        /\ fresh' \subseteq Mo!Pairs
    <3>1. CASE r = Flow /\ flow.pc = "logout" /\ flow.tok # 0
      <4>1. pair' = [p \in Mo!Pairs |-> IF p \in Mo!EndedBy(flow.tok) THEN "over" ELSE pair[p]]
        BY <3>1
      <4>2. fresh' \subseteq fresh
        BY <3>1
      <4> QED
        BY <4>1, <4>2 DEF MoTyped
    <3>2. CASE ~(r = Flow /\ flow.pc = "logout" /\ flow.tok # 0)
      BY <3>2 DEF MoTyped
    <3> QED
      BY <3>1, <3>2
  <2> QED
    BY <2>1, <2>2 DEF MoTyped
<1>2. Carried'
  BY DEF MoTyped, Flows, Flights, Carried
<1>3. Settled'
  BY DEF MoTyped, Jars, Flows, Flights, Carried, Settled, Undisturbed
<1>4. Kept
  BY DEF MoTyped, Jars, Flows, Flights, Carried, Settled, Undisturbed, Kept
<1> QED
  BY <1>1, <1>2, <1>3, <1>4

LEMMA UnauthorizedKeeps ==
  ASSUME MobileInv, NEW r \in Mo!All, Mo!Unauthorized(r)
  PROVE  MobileInv' /\ Kept
<1> USE MobileConstants DEF Mo!Unauthorized, Mo!Server, Mo!History, MobileInv
<1>1. MoTyped'
  BY DEF MoTyped, Jars, Flows, Reqs, Flights
<1>2. Carried'
  BY DEF MoTyped, Flows, Flights, Carried
<1>3. Settled'
  BY DEF MoTyped, Jars, Flows, Flights, Carried, Settled, Undisturbed
<1>4. Kept
  BY DEF MoTyped, Jars, Flows, Flights, Carried, Settled, Undisturbed, Kept
<1> QED
  BY <1>1, <1>2, <1>3, <1>4

LEMMA RejectedKeeps ==
  ASSUME MobileInv, NEW r \in Mo!All, Mo!Rejected(r)
  PROVE  MobileInv' /\ Kept
<1> USE MobileConstants DEF Mo!Rejected, Mo!Ends, Mo!FlowEnds,
   Mo!DropsCredentials, Mo!Server, Mo!History, MobileInv
<1>1. MoTyped'
  BY DEF MoTyped, Jars, Flows, Reqs, Flights
<1>2. Carried'
  BY DEF MoTyped, Flows, Flights, Carried
<1>3. Settled'
  BY DEF MoTyped, Jars, Flows, Flights, Carried, Settled, Undisturbed
<1>4. Kept
  BY DEF MoTyped, Jars, Flows, Flights, Carried, Settled, Undisturbed, Kept
<1> QED
  BY <1>1, <1>2, <1>3, <1>4

LEMMA ReadTokenKeeps ==
  ASSUME MobileInv, Mo!ReadToken
  PROVE  MobileInv' /\ Kept
<1> USE MobileConstants DEF Mo!ReadToken, Mo!Server, Mo!History, MobileInv
<1>1. MoTyped'
  BY DEF MoTyped, Jars, Flows, Reqs, Flights
<1>2. Carried'
  BY DEF MoTyped, Flows, Flights, Carried
<1>3. Settled'
  BY DEF MoTyped, Jars, Flows, Flights, Carried, Settled, Undisturbed
<1>4. Kept
  BY DEF MoTyped, Jars, Flows, Flights, Carried, Settled, Undisturbed, Kept
<1> QED
  BY <1>1, <1>2, <1>3, <1>4

LEMMA ServerRotatesKeeps ==
  ASSUME MobileInv, Mo!ServerRotates
  PROVE  MobileInv' /\ Kept
<1> USE MobileConstants DEF Mo!ServerRotates, Mo!Server, Mo!History, MobileInv
<1>1. MoTyped'
  BY DEF MoTyped, Jars, Flows, Reqs, Flights
<1>2. Carried'
  BY DEF MoTyped, Flows, Flights, Carried
<1>3. Settled'
  BY DEF MoTyped, Jars, Flows, Flights, Carried, Settled, Undisturbed
<1>4. Kept
  BY DEF MoTyped, Jars, Flows, Flights, Carried, Settled, Undisturbed, Kept
<1> QED
  BY <1>1, <1>2, <1>3, <1>4

LEMMA ServerRepeatsKeeps ==
  ASSUME MobileInv, Mo!ServerRepeats
  PROVE  MobileInv' /\ Kept
<1> USE MobileConstants DEF Mo!ServerRepeats, Mo!Server, Mo!History, MobileInv
<1>1. MoTyped'
  <2>1. PICK p \in Mo!Pairs : /\ flight' = [flight EXCEPT !.pc = "store", !.got = p]
                            /\ fresh' = fresh \union {p}
    OBVIOUS
  <2>2. flight' \in Flights /\ fresh' \subseteq Mo!Pairs
    BY <2>1 DEF MoTyped, Flights
  <2> QED
    BY <2>2 DEF MoTyped
<1>2. Carried'
  BY DEF MoTyped, Flows, Flights, Carried
<1>3. Settled'
  BY DEF MoTyped, Jars, Flows, Flights, Carried, Settled, Undisturbed
<1>4. Kept
  BY DEF MoTyped, Jars, Flows, Flights, Carried, Settled, Undisturbed, Kept
<1> QED
  BY <1>1, <1>2, <1>3, <1>4

LEMMA ServerRefusesKeeps ==
  ASSUME MobileInv, Mo!ServerRefuses
  PROVE  MobileInv' /\ Kept
<1> USE MobileConstants DEF Mo!ServerRefuses, Mo!Server, Mo!History, MobileInv
<1>1. MoTyped'
  BY DEF MoTyped, Jars, Flows, Reqs, Flights
<1>2. Carried'
  BY DEF MoTyped, Flows, Flights, Carried
<1>3. Settled'
  BY DEF MoTyped, Jars, Flows, Flights, Carried, Settled, Undisturbed
<1>4. Kept
  BY DEF MoTyped, Jars, Flows, Flights, Carried, Settled, Undisturbed, Kept
<1> QED
  BY <1>1, <1>2, <1>3, <1>4

LEMMA SetTokensKeeps ==
  ASSUME MobileInv, Mo!SetTokens
  PROVE  MobileInv' /\ Kept
<1> USE MobileConstants DEF Mo!SetTokens, Mo!Server, Mo!History, MobileInv
<1>1. MoTyped'
  BY DEF MoTyped, Jars, Flows, Reqs, Flights
<1>2. Carried'
  BY DEF MoTyped, Flows, Flights, Carried
<1>3. Settled'
  BY DEF MoTyped, Jars, Flows, Flights, Carried, Settled, Undisturbed
<1>4. Kept
  <2>1. jar'.refresh # 0
    BY DEF MoTyped, Flights, Carried
  <2> QED
    BY <2>1 DEF Kept
<1> QED
  BY <1>1, <1>2, <1>3, <1>4

LEMMA LandsKeeps ==
  ASSUME MobileInv, Mo!Lands
  PROVE  MobileInv' /\ Kept
<1> USE MobileConstants DEF Mo!Lands, Mo!Retried, Mo!Server, Mo!History,
   MobileInv
<1>1. MoTyped'
  BY DEF MoTyped, Jars, Flows, Reqs, Flights
<1>2. Carried'
  BY DEF MoTyped, Flows, Flights, Carried
<1>3. Settled'
  BY DEF MoTyped, Jars, Flows, Flights, Carried, Settled, Undisturbed
<1>4. Kept
  BY DEF MoTyped, Jars, Flows, Flights, Carried, Settled, Undisturbed, Kept
<1> QED
  BY <1>1, <1>2, <1>3, <1>4

LEMMA KeepsTokensKeeps ==
  ASSUME MobileInv, Mo!KeepsTokens
  PROVE  MobileInv' /\ Kept
<1> USE MobileConstants DEF Mo!KeepsTokens, Mo!Crashes, Mo!DropsCredentials,
   Mo!Server, Mo!History, MobileInv
<1>1. MoTyped'
  BY DEF MoTyped, Jars, Flows, Reqs, Flights
<1>2. Carried'
  BY DEF MoTyped, Flows, Flights, Carried
<1>3. Settled'
  BY DEF MoTyped, Jars, Flows, Flights, Carried, Settled, Undisturbed
<1>4. Kept
  BY DEF MoTyped, Jars, Flows, Flights, Carried, Settled, Undisturbed, Kept
<1> QED
  BY <1>1, <1>2, <1>3, <1>4

LEMMA ClearsTokensKeeps ==
  ASSUME MobileInv, Mo!ClearsTokens
  PROVE  MobileInv' /\ Kept
<1> USE MobileConstants DEF Mo!ClearsTokens, Mo!Crashes, Mo!DropsCredentials,
   Mo!Server, Mo!History, MobileInv
<1>1. MoTyped'
  BY DEF MoTyped, Jars, Flows, Reqs, Flights
<1>2. Carried'
  BY DEF MoTyped, Flows, Flights, Carried
<1>3. Settled'
  BY DEF MoTyped, Jars, Flows, Flights, Carried, Settled, Undisturbed
<1>4. Kept
  BY DEF MoTyped, Jars, Flows, Flights, Carried, Settled, Undisturbed, Kept
<1> QED
  BY <1>1, <1>2, <1>3, <1>4

LEMMA NoAnswerKeeps ==
  ASSUME MobileInv, Mo!NoAnswer
  PROVE  MobileInv' /\ Kept
<1> USE MobileConstants DEF Mo!NoAnswer, Mo!Server, Mo!History, MobileInv
<1>1. MoTyped'
  <2>1. lost' \subseteq Mo!Pairs
    <3>1. flight.pc = "store" => flight.tok \in Mo!Pairs
      BY DEF MoTyped, Flights, Carried
    <3> QED
      BY <3>1 DEF MoTyped
  <2>2. flight' \in Flights
    BY DEF MoTyped, Flights
  <2> QED
    BY <2>1, <2>2 DEF MoTyped
<1>2. Carried'
  BY DEF MoTyped, Flows, Flights, Carried
<1>3. Settled'
  BY DEF MoTyped, Jars, Flows, Flights, Carried, Settled, Undisturbed
<1>4. Kept
  BY DEF MoTyped, Jars, Flows, Flights, Carried, Settled, Undisturbed, Kept
<1> QED
  BY <1>1, <1>2, <1>3, <1>4

LEMMA BootstrapKeeps ==
  ASSUME MobileInv, Mo!Bootstrap
  PROVE  MobileInv' /\ Kept
<1> USE MobileConstants DEF Mo!Bootstrap, Mo!Sends, Mo!Server, Mo!History,
   MobileInv
<1>1. MoTyped'
  BY DEF MoTyped, Jars, Flows, Reqs, Flights
<1>2. Carried'
  BY DEF MoTyped, Flows, Flights, Carried
<1>3. Settled'
  BY DEF MoTyped, Jars, Flows, Flights, Carried, Settled, Undisturbed
<1>4. Kept
  BY DEF MoTyped, Jars, Flows, Flights, Carried, Settled, Undisturbed, Kept
<1> QED
  BY <1>1, <1>2, <1>3, <1>4

LEMMA LoginKeeps ==
  ASSUME MobileInv, Mo!Login
  PROVE  MobileInv' /\ Kept
<1> USE MobileConstants DEF Mo!Login, Mo!Server, Mo!History, MobileInv
<1>1. MoTyped'
  BY DEF MoTyped, Jars, Flows, Reqs, Flights
<1>2. Carried'
  BY DEF MoTyped, Flows, Flights, Carried
<1>3. Settled'
  BY DEF MoTyped, Jars, Flows, Flights, Carried, Settled, Undisturbed
<1>4. Kept
  BY DEF MoTyped, Jars, Flows, Flights, Carried, Settled, Undisturbed, Kept
<1> QED
  BY <1>1, <1>2, <1>3, <1>4

LEMMA SignInKeeps ==
  ASSUME MobileInv, Mo!SignIn
  PROVE  MobileInv' /\ Kept
<1> USE MobileConstants DEF Mo!SignIn, Mo!Server, Mo!History, MobileInv
<1>1. MoTyped'
  BY DEF MoTyped, Jars, Flows, Reqs, Flights
<1>2. Carried'
  BY DEF MoTyped, Flows, Flights, Carried
<1>3. Settled'
  BY DEF MoTyped, Jars, Flows, Flights, Carried, Settled, Undisturbed
<1>4. Kept
  <2>1. jar'.refresh # 0
    BY DEF MoTyped, Flows, Carried
  <2> QED
    BY <2>1 DEF Kept
<1> QED
  BY <1>1, <1>2, <1>3, <1>4

LEMMA SignOutKeeps ==
  ASSUME MobileInv, Mo!SignOut
  PROVE  MobileInv' /\ Kept
<1> USE MobileConstants DEF Mo!SignOut, Mo!Sends, Mo!Server, Mo!History,
   MobileInv
<1>1. MoTyped'
  BY DEF MoTyped, Jars, Flows, Reqs, Flights
<1>2. Carried'
  BY DEF MoTyped, Flows, Flights, Carried
<1>3. Settled'
  BY DEF MoTyped, Jars, Flows, Flights, Carried, Settled, Undisturbed
<1>4. Kept
  BY DEF MoTyped, Jars, Flows, Flights, Carried, Settled, Undisturbed, Kept
<1> QED
  BY <1>1, <1>2, <1>3, <1>4

LEMMA KilledKeeps ==
  ASSUME MobileInv, Mo!Killed
  PROVE  MobileInv' /\ Kept
<1> USE MobileConstants DEF Mo!Killed, Mo!Stored, Mo!Server, Mo!History,
   MobileInv
<1>1. MoTyped'
  <2>1. lost' \subseteq Mo!Pairs
    <3>1. flight.pc = "store" => flight.tok \in Mo!Pairs
      BY DEF MoTyped, Flights, Carried
    <3> QED
      BY <3>1 DEF MoTyped
  <2>2. jar' \in Jars
    BY DEF MoTyped, Jars, Flights, Flows
  <2>3. req' \in [Mo!All -> Reqs]
    OBVIOUS
  <2> QED
    BY <2>1, <2>2, <2>3 DEF MoTyped
<1>2. Carried'
  BY DEF MoTyped, Flows, Flights, Carried
<1>3. Settled'
  BY DEF MoTyped, Jars, Flows, Flights, Carried, Settled, Undisturbed
<1>4. Kept
  BY DEF MoTyped, Jars, Flows, Flights, Carried, Settled, Undisturbed, Kept
<1> QED
  BY <1>1, <1>2, <1>3, <1>4

LEMMA AccessExpiresKeeps ==
  ASSUME MobileInv, Mo!AccessExpires
  PROVE  MobileInv' /\ Kept
<1> USE MobileConstants DEF Mo!AccessExpires, Mo!Server, Mo!History, MobileInv
<1>1. MoTyped'
  BY DEF MoTyped, Jars, Flows, Reqs, Flights
<1>2. Carried'
  BY DEF MoTyped, Flows, Flights, Carried
<1>3. Settled'
  BY DEF MoTyped, Jars, Flows, Flights, Carried, Settled, Undisturbed
<1>4. Kept
  BY DEF MoTyped, Jars, Flows, Flights, Carried, Settled, Undisturbed, Kept
<1> QED
  BY <1>1, <1>2, <1>3, <1>4

LEMMA SessionEndsKeeps ==
  ASSUME MobileInv, Mo!SessionEnds
  PROVE  MobileInv' /\ Kept
<1> USE MobileConstants DEF Mo!SessionEnds, Mo!Server, Mo!History, MobileInv
<1>1. MoTyped'
  BY DEF MoTyped, Jars, Flows, Reqs, Flights
<1>2. Carried'
  BY DEF MoTyped, Flows, Flights, Carried
<1>3. Settled'
  BY DEF MoTyped, Jars, Flows, Flights, Carried, Settled, Undisturbed
<1>4. Kept
  BY DEF MoTyped, Jars, Flows, Flights, Carried, Settled, Undisturbed, Kept
<1> QED
  BY <1>1, <1>2, <1>3, <1>4

LEMMA MobileStarts == Mo!Init => MobileInv /\ crossed \in BOOLEAN
<1> SUFFICES ASSUME Mo!Init PROVE MobileInv /\ crossed \in BOOLEAN
  OBVIOUS
<1> USE MobileConstants
<1>1. MoTyped
  <2>1. jar \in {Mo!Empty, Mo!Of(1)} /\ 1 \in Tokens
    BY BoundsAssumption DEF Mo!Init, Tokens
  <2>2. jar \in Jars
    BY <2>1
  <2>3. pair \in [Mo!Pairs -> {"unborn", "live", "spent", "over"}]
    BY DEF Mo!Init
  <2>4. fresh \subseteq Mo!Pairs
    <3>1. jar.refresh \in Tokens
      BY <2>2 DEF Jars
    <3> QED
      BY <3>1 DEF Mo!Init
  <2>5. flow \in Flows /\ flight \in Flights /\ status \in {"loading", "in", "out"}
    BY DEF Mo!Init
  <2>6. req \in [Mo!All -> Reqs] /\ lost \subseteq Mo!Pairs
    BY DEF Mo!Init
  <2> QED
    BY <2>2, <2>3, <2>4, <2>5, <2>6 DEF MoTyped
<1>2. Carried /\ Settled
  BY <1>1 DEF Mo!Init, MoTyped, Jars, Carried, Settled, Undisturbed, Mo!NoFlight, Mo!NoFlow
<1>3. crossed \in BOOLEAN
  BY DEF Mo!Init
<1> QED
  BY <1>1, <1>2, <1>3 DEF MobileInv

LEMMA MobileContinues == MobileInv /\ [Mo!Next]_mobile => MobileInv' /\ Kept
<1> SUFFICES ASSUME MobileInv, [Mo!Next]_mobile PROVE MobileInv' /\ Kept
  OBVIOUS
<1>1. ASSUME NEW r \in Mo!All, Mo!Send(r) \/ Mo!Answered(r) \/ Mo!Unauthorized(r) \/ Mo!Rejected(r)
      PROVE  MobileInv' /\ Kept
  BY <1>1, SendKeeps, AnsweredKeeps, UnauthorizedKeeps, RejectedKeeps
<1>2. CASE Mo!Flies \/ Mo!NoAnswer
  BY <1>2, ReadTokenKeeps, ServerRotatesKeeps, ServerRepeatsKeeps, ServerRefusesKeeps,
     SetTokensKeeps, LandsKeeps, KeepsTokensKeeps, ClearsTokensKeeps, NoAnswerKeeps
  DEF Mo!Flies, Mo!ServerRefresh
<1>3. CASE Mo!Bootstrap \/ Mo!Login \/ Mo!SignIn \/ Mo!SignOut \/ Mo!Killed
           \/ Mo!AccessExpires \/ Mo!SessionEnds
  BY <1>3, BootstrapKeeps, LoginKeeps, SignInKeeps, SignOutKeeps, KilledKeeps,
     AccessExpiresKeeps, SessionEndsKeeps
<1>4. CASE UNCHANGED mobile
  BY <1>4, MobileConstants DEF mobile, MobileInv, MoTyped, Carried, Settled, Undisturbed, Kept
<1> QED
  BY <1>1, <1>2, <1>3, <1>4 DEF Mo!Next

LEMMA MobileRemembers == crossed \in BOOLEAN /\ [Mo!Next]_mobile => crossed' \in BOOLEAN
<1> SUFFICES ASSUME crossed \in BOOLEAN, [Mo!Next]_mobile PROVE crossed' \in BOOLEAN
  OBVIOUS
<1>1. ASSUME NEW r \in Mo!All, Mo!Send(r) \/ Mo!Unauthorized(r)
      PROVE  crossed' \in BOOLEAN
  BY <1>1 DEF Mo!Send, Mo!Unauthorized, Mo!History
<1>2. ASSUME NEW r \in Mo!All, Mo!Answered(r) \/ Mo!Rejected(r)
      PROVE  crossed' \in BOOLEAN
  <2>1. \E a \in BOOLEAN : Mo!Ends(r, a)
    BY <1>2 DEF Mo!Answered, Mo!Rejected
  <2> QED
    BY <2>1 DEF Mo!Ends, Mo!FlowEnds
<1>3. CASE Mo!Login
  BY <1>3 DEF Mo!Login
<1>4. CASE \/ Mo!Flies \/ Mo!NoAnswer
           \/ Mo!Bootstrap \/ Mo!SignIn \/ Mo!SignOut \/ Mo!Killed
           \/ Mo!AccessExpires \/ Mo!SessionEnds \/ UNCHANGED mobile
  BY <1>4 DEF Mo!Flies, Mo!ServerRefresh, Mo!ReadToken, Mo!ServerRotates, Mo!ServerRepeats,
     Mo!ServerRefuses, Mo!SetTokens, Mo!Lands, Mo!KeepsTokens, Mo!ClearsTokens, Mo!Crashes,
     Mo!NoAnswer, Mo!Bootstrap, Mo!SignIn, Mo!SignOut, Mo!Killed, Mo!AccessExpires,
     Mo!SessionEnds, Mo!History, mobile
<1> QED
  BY <1>1, <1>2, <1>3, <1>4 DEF Mo!Next

LEMMA MobileKeeps ==
  MobileInv /\ crossed \in BOOLEAN /\ deaths \in 0 .. MaxDeaths
    => Mo!TypeOK /\ Mo!NeverSpentTwice
<1> SUFFICES ASSUME MobileInv, crossed \in BOOLEAN, deaths \in 0 .. MaxDeaths
             PROVE  Mo!TypeOK /\ Mo!NeverSpentTwice
  OBVIOUS
<1>1. Mo!TypeOK
  BY DEF MobileInv, MoTyped, Tokens, Jars, Flows, Reqs, Flights, Mo!TypeOK
<1>2. Mo!NeverSpentTwice
  BY DEF MobileInv, Carried, Settled, Undisturbed, Mo!NeverSpentTwice
<1> QED
  BY <1>1, <1>2

----------------------------------------------------------------------------
(* ManagedAgents.                                                          *)

(* What is under way, queued or executed has been asked for.               *)
Asked ==
  /\ \A c \in handing : wish[c] = "start"
  /\ \A i \in DOMAIN queue : wish[queue[i].click] # "none"
  /\ last # 0 => wish[last] # "none"
  /\ ~Ma!At("idle") => job.click \in Ma!Clicks /\ wish[job.click] # "none"
  /\ Ma!At("idle") => job.click = 0

(* The worker does what the click asked for, and when it is about to say   *)
(* that it has, the session is as asked.                                   *)
JobFits ==
  /\ job.pc \in {"ensure", "launch"} => wish[job.click] = "start"
  /\ Ma!At("kill") => wish[job.click] = "stop"
  /\ Ma!At("write") => job.writes \in Ma!Statuses
  /\ Ma!At("write") /\ job.writes = "idle" => wish[job.click] = "start" /\ session # "none"
  /\ Ma!At("write") /\ job.writes = "stopped" => wish[job.click] = "stop" /\ session = "none"

(* The click enqueued last is carried out last.                            *)
LastIsLast ==
  /\ queue # <<>> => queue[Len(queue)].click = last
  /\ queue = <<>> /\ ~Ma!At("idle") => job.click = last
  /\ Ma!Quiet /\ last # 0 => outcome[last] # "open"

AgentsInv == Ma!TypeOK /\ Asked /\ JobFits /\ LastIsLast /\ Ma!StoppedIsGone /\ Ma!LastWordHolds

----------------------------------------------------------------------------
(* Facts about the constants and the queue.                                *)

Jobs == [click : Ma!Clicks, again : BOOLEAN]

LEMMA AgentBounds == /\ MaxClicks \in Nat /\ MaxCrashes \in Nat /\ MaxFails \in Nat
                     /\ MaxLosses \in Nat /\ Ma!Clicks \subseteq Nat \ {0}
BY BoundsAssumption DEF Ma!Clicks

LEMMA Empty == ASSUME NEW q \in Seq(Jobs) PROVE q = <<>> <=> Len(q) = 0
OBVIOUS

LEMMA Appended ==
  ASSUME NEW q \in Seq(Jobs), NEW j \in Jobs
  PROVE  /\ Append(q, j) \in Seq(Jobs) /\ Append(q, j) # <<>>
         /\ DOMAIN Append(q, j) = 1 .. Len(q) + 1
         /\ Len(Append(q, j)) = Len(q) + 1
         /\ DOMAIN q = 1 .. Len(q) /\ Len(q) \in Nat
         /\ \A i \in 1 .. Len(q) : Append(q, j)[i] = q[i]
         /\ Append(q, j)[Len(q) + 1] = j
OBVIOUS

LEMMA Prepended ==
  ASSUME NEW q \in Seq(Jobs), NEW j \in Jobs
  PROVE  /\ <<j>> \o q \in Seq(Jobs) /\ <<j>> \o q # <<>>
         /\ DOMAIN (<<j>> \o q) = 1 .. Len(q) + 1
         /\ Len(<<j>> \o q) = Len(q) + 1
         /\ DOMAIN q = 1 .. Len(q) /\ Len(q) \in Nat
         /\ (<<j>> \o q)[1] = j
         /\ \A i \in 1 .. Len(q) : (<<j>> \o q)[i + 1] = q[i]
         /\ \A i \in 2 .. Len(q) + 1 : (<<j>> \o q)[i] = q[i - 1]
OBVIOUS

LEMMA Taken ==
  ASSUME NEW q \in Seq(Jobs), q # <<>>
  PROVE  /\ Head(q) = q[1] /\ q[1] \in Jobs /\ 1 \in DOMAIN q
         /\ Tail(q) \in Seq(Jobs)
         /\ DOMAIN q = 1 .. Len(q) /\ Len(q) \in Nat /\ Len(q) > 0
         /\ DOMAIN Tail(q) = 1 .. Len(q) - 1
         /\ Len(Tail(q)) = Len(q) - 1
         /\ \A i \in 1 .. Len(q) - 1 : Tail(q)[i] = q[i + 1]
         /\ Tail(q) = <<>> <=> Len(q) = 1
<1>1. /\ Head(q) = q[1] /\ q[1] \in Jobs /\ 1 \in DOMAIN q
      /\ Tail(q) \in Seq(Jobs)
      /\ DOMAIN q = 1 .. Len(q) /\ Len(q) \in Nat /\ Len(q) > 0
      /\ DOMAIN Tail(q) = 1 .. Len(q) - 1
      /\ Len(Tail(q)) = Len(q) - 1
      /\ \A i \in 1 .. Len(q) - 1 : Tail(q)[i] = q[i + 1]
  OBVIOUS
<1>2. Tail(q) = <<>> <=> Len(q) = 1
  BY <1>1, Empty
<1> QED
  BY <1>1, <1>2

LEMMA JobTyped ==
  ASSUME Ma!TypeOK
  PROVE  /\ queue \in Seq(Jobs)
         /\ \A i \in DOMAIN queue : queue[i] \in Jobs /\ queue[i].click \in Ma!Clicks
<1>1. queue \in Seq(Jobs)
  BY DEF Ma!TypeOK, Jobs
<1>2. \A i \in DOMAIN queue : queue[i] \in Jobs
  BY <1>1
<1> QED
  BY <1>1, <1>2 DEF Jobs

----------------------------------------------------------------------------
(* Types.                                                                  *)

JobStates == [pc : {"idle", "ensure", "launch", "kill", "write"}, click : 0 .. MaxClicks,
              again : BOOLEAN, writes : Ma!Statuses \union {"none"}]

LEMMA AgentsStart == Ma!Init => AgentsInv
<1> SUFFICES ASSUME Ma!Init PROVE AgentsInv
  OBVIOUS
<1>1. Ma!TypeOK
  BY AgentBounds DEF Ma!Init, Ma!TypeOK, Ma!Statuses, Ma!Presence, Ma!Up, Ma!Nobody
<1>2. Asked /\ JobFits /\ LastIsLast
  BY DEF Ma!Init, Asked, JobFits, LastIsLast, Ma!At, Ma!Nobody
<1>3. Ma!StoppedIsGone /\ Ma!LastWordHolds
  BY DEF Ma!Init, Ma!StoppedIsGone, Ma!LastWordHolds, Ma!Up
<1> QED
  BY <1>1, <1>2, <1>3 DEF AgentsInv

LEMMA ApiTyped ==
  ASSUME Ma!TypeOK, Asked, NEW c \in Ma!Clicks,
         Ma!Start(c) \/ Ma!EnqueueStart(c) \/ Ma!Stop(c) \/ Ma!HandoverDies(c)
  PROVE  Ma!TypeOK'
<1> USE AgentBounds DEF Ma!TypeOK, Ma!Statuses, Ma!Presence, Ma!Up, Ma!asking, Ma!bounds
<1>0. [click |-> c, again |-> FALSE] \in Jobs
  BY DEF Jobs
<1>1. CASE Ma!Start(c)
  BY <1>1 DEF Ma!Start
<1>2. CASE Ma!EnqueueStart(c)
  <2>1. queue' \in Seq(Jobs)
    BY <1>0, <1>2, JobTyped, Appended DEF Ma!EnqueueStart, Ma!Enqueued
  <2> QED
    BY <1>2, <2>1 DEF Ma!EnqueueStart, Jobs, Ma!Clicks
<1>3. CASE Ma!Stop(c)
  <2>1. queue' \in Seq(Jobs)
    BY <1>0, <1>3, JobTyped, Appended DEF Ma!Stop, Ma!Enqueued
  <2> QED
    BY <1>3, <2>1 DEF Ma!Stop, Jobs, Ma!Clicks
<1>4. CASE Ma!HandoverDies(c)
  BY <1>4 DEF Ma!HandoverDies, Ma!Dies
<1> QED
  BY <1>1, <1>2, <1>3, <1>4

LEMMA WorkerTyped ==
  ASSUME Ma!TypeOK, Asked, JobFits, Ma!WorkerStep \/ Ma!WorkerDies
  PROVE  Ma!TypeOK'
<1> USE AgentBounds DEF Ma!TypeOK
<1>0. job \in JobStates
  BY DEF JobStates
<1>1. CASE Ma!TakeJob
  <2>1. /\ Tail(queue) \in Seq(Jobs) /\ Head(queue) \in Jobs
        /\ wish[Head(queue).click] \in {"start", "stop"}
    <3>1. queue \in Seq(Jobs) /\ queue # <<>>
      BY <1>1, JobTyped DEF Ma!TakeJob
    <3>2. Tail(queue) \in Seq(Jobs) /\ Head(queue) = queue[1] /\ queue[1] \in Jobs /\ 1 \in DOMAIN queue
      BY <3>1, Taken
    <3>3. queue[1].click \in Ma!Clicks /\ wish[queue[1].click] # "none"
      BY <3>2 DEF Asked, Jobs
    <3>4. wish[queue[1].click] \in {"none", "start", "stop"}
      BY <3>3
    <3> QED
      BY <3>2, <3>3, <3>4
  <2>2. queue' \in Seq([click : Ma!Clicks, again : BOOLEAN])
    BY <1>1, <2>1 DEF Ma!TakeJob, Jobs
  <2>3. job' \in JobStates
    BY <1>0, <1>1, <2>1 DEF Ma!TakeJob, Ma!First, JobStates, Jobs, Ma!Clicks
  <2>4. outcome' \in [Ma!Clicks -> {"open", "done", "failed", "lost"}]
    BY <1>1, <2>1 DEF Ma!TakeJob, Jobs
  <2> QED
    BY <1>1, <2>2, <2>3, <2>4 DEF Ma!TakeJob, JobStates, Ma!asking, Ma!bounds
<1>2. CASE Ma!Ensure \/ Ma!Launch \/ Ma!Kill \/ Ma!CommandFails
  <2>1. job' \in JobStates
    BY <1>0, <1>2
    DEF Ma!Ensure, Ma!Launch, Ma!Kill, Ma!CommandFails, Ma!WillWrite, JobStates,
        Ma!Statuses, Ma!Presence
  <2>2. session' \in Ma!Up \union {"none", "gone"} /\ fails' \in 0 .. MaxFails
    BY <1>2 DEF Ma!Ensure, Ma!Launch, Ma!Kill, Ma!CommandFails, Ma!Launched, Ma!Up
  <2> QED
    BY <1>2, <2>1, <2>2
    DEF Ma!Ensure, Ma!Launch, Ma!Kill, Ma!CommandFails, JobStates, Ma!restOfJob, Ma!asking
<1>3. CASE Ma!Patch
  BY <1>3 DEF Ma!Patch, Ma!Ends, Ma!Nobody, JobFits, Ma!At, Ma!restOfJob, Ma!asking, Asked
<1>4. CASE Ma!WorkerDies
  <2>1. job.click \in Ma!Clicks
    BY <1>4 DEF Ma!WorkerDies, Asked
  <2>2. Ma!Again \in Seq(Jobs)
    BY <2>1, JobTyped, Prepended DEF Ma!Again, Jobs
  <2> QED
    BY <1>4, <2>1, <2>2 DEF Ma!WorkerDies, Ma!Ends, Ma!Nobody, Ma!Dies, Jobs, Ma!asking
<1> QED
  BY <1>1, <1>2, <1>3, <1>4 DEF Ma!WorkerStep

LEMMA OthersTyped ==
  ASSUME Ma!TypeOK,
         \/ Ma!TouchReads \/ Ma!TouchStamps \/ Ma!DeleteServer \/ Ma!SweepStep
         \/ Ma!CliExits \/ Ma!SessionVanishes \/ Ma!SweepDies
  PROVE  Ma!TypeOK'
<1> USE AgentBounds DEF Ma!TypeOK, Ma!asking, Ma!bounds, Ma!Statuses, Ma!Presence, Ma!Up
<1>1. CASE Ma!TouchReads \/ Ma!TouchStamps
  BY <1>1 DEF Ma!TouchReads, Ma!TouchStamps
<1>2. CASE Ma!DeleteServer
  <2>1. losses' \in 0 .. MaxLosses
    BY <1>2 DEF Ma!DeleteServer
  <2>2. hosted' \in BOOLEAN
    BY <1>2 DEF Ma!DeleteServer
  <2> QED
    BY <1>2, <2>1, <2>2 DEF Ma!DeleteServer
<1>3. CASE Ma!SweepStep
  <2>1. fails' \in 0 .. MaxFails /\ poll' \in {"idle", "asks", "writes"}
    BY <1>3 DEF Ma!SweepStep, Ma!SweepSelects, Ma!SweepAsks, Ma!SweepWrites
  <2>2. presence' \in Ma!Statuses
    BY <1>3 DEF Ma!SweepStep, Ma!SweepSelects, Ma!SweepAsks, Ma!SweepWrites
  <2> QED
    BY <1>3, <2>1, <2>2 DEF Ma!SweepStep, Ma!SweepSelects, Ma!SweepAsks, Ma!SweepWrites
<1>4. CASE Ma!CliExits \/ Ma!SessionVanishes \/ Ma!SweepDies
  <2>1. losses' \in 0 .. MaxLosses /\ crashes' \in 0 .. MaxCrashes
    BY <1>4 DEF Ma!CliExits, Ma!SessionVanishes, Ma!SweepDies, Ma!Dies
  <2> QED
    BY <1>4, <2>1 DEF Ma!CliExits, Ma!SessionVanishes, Ma!SweepDies
<1> QED
  BY <1>1, <1>2, <1>3, <1>4

----------------------------------------------------------------------------
(* The requests and the job.                                               *)

LEMMA AskedKept ==
  ASSUME Ma!TypeOK, Asked, [Ma!Next]_agents
  PROVE  Asked'
<1> USE JobTyped, AgentBounds DEF Asked, Ma!At
<1>1. CASE \E c \in Ma!Clicks : Ma!Start(c)
  BY <1>1 DEF Ma!Start, Ma!IsNext, Ma!TypeOK, Ma!bounds
<1>2. CASE \E c \in Ma!Clicks : Ma!EnqueueStart(c)
  <2> PICK c \in Ma!Clicks : Ma!EnqueueStart(c)
    BY <1>2
  <2>1. [click |-> c, again |-> FALSE] \in Jobs
    BY DEF Jobs
  <2>3. wish[c] = "start"
    BY DEF Ma!EnqueueStart
  <2>2. \A i \in DOMAIN queue' : wish[queue'[i].click] # "none"
    <3> DEFINE j == [click |-> c, again |-> FALSE]
    <3>1. queue' = Append(queue, j)
      BY DEF Ma!EnqueueStart, Ma!Enqueued
    <3>2. /\ DOMAIN queue' = 1 .. Len(queue) + 1 /\ queue'[Len(queue) + 1] = j
          /\ DOMAIN queue = 1 .. Len(queue) /\ Len(queue) \in Nat
          /\ \A i \in 1 .. Len(queue) : queue'[i] = queue[i]
      BY <2>1, <3>1, Appended
    <3> QED
      BY <2>3, <3>2
  <2> QED
    BY <2>2, <2>3 DEF Ma!EnqueueStart, Ma!bounds
<1>3. CASE \E c \in Ma!Clicks : Ma!Stop(c)
  <2> PICK c \in Ma!Clicks : Ma!Stop(c)
    BY <1>3
  <2>1. [click |-> c, again |-> FALSE] \in Jobs
    BY DEF Jobs
  <2>2. wish'[c] = "stop" /\ \A b \in Ma!Clicks : b # c => wish'[b] = wish[b]
    BY DEF Ma!Stop, Ma!TypeOK
  <2>3. \A i \in DOMAIN queue' : wish'[queue'[i].click] # "none"
    BY <2>1, <2>2, Appended DEF Ma!Stop, Ma!Enqueued
  <2> QED
    BY <2>2, <2>3 DEF Ma!Stop, Ma!IsNext, Ma!bounds, Ma!TypeOK
<1>4. CASE \E c \in Ma!Clicks : Ma!HandoverDies(c)
  BY <1>4 DEF Ma!HandoverDies
<1>5. CASE Ma!TakeJob
  <2>1. /\ Head(queue) = queue[1] /\ queue[1] \in Jobs /\ 1 \in DOMAIN queue
        /\ DOMAIN Tail(queue) = 1 .. Len(queue) - 1 /\ DOMAIN queue = 1 .. Len(queue)
        /\ \A i \in 1 .. Len(queue) - 1 : Tail(queue)[i] = queue[i + 1]
        /\ Len(queue) \in Nat
    BY <1>5, Taken DEF Ma!TakeJob
  <2>2. \A i \in DOMAIN queue' : wish[queue'[i].click] # "none"
    BY <1>5, <2>1 DEF Ma!TakeJob
  <2>3. /\ ~Ma!At("idle")' => job'.click \in Ma!Clicks /\ wish[job'.click] # "none"
        /\ Ma!At("idle")' => job'.click = 0
    <3>1. CASE hosted
      <4>1. wish[queue[1].click] \in {"start", "stop"} /\ queue[1].click \in Ma!Clicks
        BY <2>1 DEF Ma!TypeOK, Jobs
      <4> QED
        BY <1>5, <2>1, <3>1, <4>1 DEF Ma!TakeJob, Ma!First
    <3>2. CASE ~hosted
      BY <1>5, <3>2 DEF Ma!TakeJob
    <3> QED
      BY <3>1, <3>2
  <2> QED
    BY <1>5, <2>2, <2>3 DEF Ma!TakeJob, Ma!asking
<1>6. CASE Ma!Ensure \/ Ma!Launch \/ Ma!Kill \/ Ma!CommandFails \/ Ma!Patch
  <2>1. UNCHANGED <<wish, handing, last, queue>>
    BY <1>6 DEF Ma!Ensure, Ma!Launch, Ma!Kill, Ma!CommandFails, Ma!Patch, Ma!restOfJob,
      Ma!asking
  <2>2. /\ ~Ma!At("idle")' => ~Ma!At("idle") /\ job'.click = job.click
        /\ Ma!At("idle")' => job'.click = 0
    <3>1. CASE Ma!Ensure \/ Ma!Launch
      BY <3>1 DEF Ma!Ensure, Ma!Launch, Ma!WillWrite, Ma!TypeOK
    <3>2. CASE Ma!Kill \/ Ma!CommandFails
      BY <3>2 DEF Ma!Kill, Ma!CommandFails, Ma!WillWrite, Ma!TypeOK
    <3>3. CASE Ma!Patch
      BY <3>3 DEF Ma!Patch, Ma!Nobody
    <3> QED
      BY <1>6, <3>1, <3>2, <3>3
  <2> QED
    BY <2>1, <2>2
<1>7. CASE Ma!WorkerDies
  <2>1. [click |-> job.click, again |-> TRUE] \in Jobs
    BY <1>7 DEF Ma!WorkerDies, Jobs
  <2>2. \A i \in DOMAIN Ma!Again : wish[Ma!Again[i].click] # "none"
    BY <1>7, <2>1, Prepended DEF Ma!Again, Ma!WorkerDies
  <2> QED
    BY <1>7, <2>2 DEF Ma!WorkerDies, Ma!Nobody, Ma!asking
<1>8. CASE UNCHANGED <<Ma!asking, queue, job>>
  BY <1>8 DEF Ma!asking
<1> QED
  BY <1>1, <1>2, <1>3, <1>4, <1>5, <1>6, <1>7, <1>8
  DEF Ma!Next, Ma!WorkerStep, Ma!SweepStep, Ma!SweepSelects, Ma!SweepAsks, Ma!SweepWrites,
      Ma!TouchReads, Ma!TouchStamps, Ma!DeleteServer, Ma!CliExits, Ma!SessionVanishes,
      Ma!SweepDies, agents

(* Outside the worker nothing creates a session or ends one, nor touches   *)
(* the job; and what a click asked for does not change.                    *)
Outside ==
  /\ UNCHANGED job
  /\ \A c \in Ma!Clicks : wish[c] # "none" => wish'[c] = wish[c]
  /\ session' # session => session \in Ma!Up /\ session' \in {"exited", "gone"}

LEMMA OthersOutside ==
  ASSUME Ma!TypeOK, [Ma!Next]_agents
  PROVE  Ma!WorkerStep \/ Ma!WorkerDies \/ Outside
<1> USE DEF Outside, Ma!Up, Ma!asking, Ma!bounds
<1>1. CASE \E c \in Ma!Clicks :
             Ma!Start(c) \/ Ma!EnqueueStart(c) \/ Ma!Stop(c) \/ Ma!HandoverDies(c)
  BY <1>1 DEF Ma!Start, Ma!EnqueueStart, Ma!Stop, Ma!HandoverDies, Ma!IsNext, Ma!TypeOK
<1>2. CASE Ma!TouchReads \/ Ma!TouchStamps \/ Ma!DeleteServer \/ Ma!SweepStep
  BY <1>2 DEF Ma!TouchReads, Ma!TouchStamps, Ma!DeleteServer, Ma!SweepStep,
    Ma!SweepSelects, Ma!SweepAsks, Ma!SweepWrites
<1>3. CASE Ma!CliExits \/ Ma!SessionVanishes \/ Ma!SweepDies
  BY <1>3 DEF Ma!CliExits, Ma!SessionVanishes, Ma!SweepDies
<1>4. CASE UNCHANGED agents
  BY <1>4 DEF agents
<1> QED
  BY <1>1, <1>2, <1>3, <1>4 DEF Ma!Next

LEMMA JobFitsKept ==
  ASSUME Ma!TypeOK, Asked, JobFits, [Ma!Next]_agents
  PROVE  JobFits'
<1> USE DEF JobFits, Ma!At
<1>1. CASE Outside
  BY <1>1 DEF Outside, Asked, Ma!Up
<1>2. CASE Ma!TakeJob
  <2>1. queue[1] \in Jobs /\ Head(queue) = queue[1] /\ 1 \in DOMAIN queue
    BY <1>2, JobTyped, Taken DEF Ma!TakeJob
  <2>2. wish[queue[1].click] \in {"start", "stop"}
    BY <2>1 DEF Asked, Ma!TypeOK, Jobs
  <2>3. wish' = wish
    BY <1>2 DEF Ma!TakeJob, Ma!asking
  <2>4. CASE hosted
    BY <1>2, <2>1, <2>2, <2>3, <2>4 DEF Ma!TakeJob, Ma!First
  <2>5. CASE ~hosted
    BY <1>2, <2>3, <2>5 DEF Ma!TakeJob
  <2> QED
    BY <2>4, <2>5
<1>3. CASE Ma!Ensure \/ Ma!Launch \/ Ma!Kill \/ Ma!CommandFails
  <2>1. wish' = wish
    BY <1>3 DEF Ma!Ensure, Ma!Launch, Ma!Kill, Ma!CommandFails, Ma!restOfJob, Ma!asking
  <2>2. CASE Ma!Ensure
    BY <2>1, <2>2 DEF Ma!Ensure, Ma!WillWrite, Ma!Statuses, Ma!TypeOK
  <2>3. CASE Ma!Launch
    BY <2>1, <2>3 DEF Ma!Launch, Ma!WillWrite, Ma!Launched, Ma!Up, Ma!Statuses,
      Ma!Presence, Ma!TypeOK
  <2>4. CASE Ma!Kill
    BY <2>1, <2>4 DEF Ma!Kill, Ma!WillWrite, Ma!Statuses, Ma!TypeOK
  <2>5. CASE Ma!CommandFails
    BY <2>1, <2>5 DEF Ma!CommandFails, Ma!WillWrite, Ma!Statuses, Ma!TypeOK
  <2> QED
    BY <1>3, <2>2, <2>3, <2>4, <2>5
<1>4. CASE Ma!Patch \/ Ma!WorkerDies
  BY <1>4 DEF Ma!Patch, Ma!WorkerDies, Ma!Nobody
<1> QED
  BY <1>1, <1>2, <1>3, <1>4, OthersOutside DEF Ma!WorkerStep

----------------------------------------------------------------------------
(* Stopped means gone.                                                     *)

(* A start that hangs goes on hanging until its job has an answer.         *)
LEMMA HangsOn ==
  ASSUME Ma!TypeOK, Asked, [Ma!Next]_agents, ~Ma!Patch, NEW c \in Ma!Clicks, Ma!StartHangs(c)
  PROVE  Ma!StartHangs(c)'
<1> USE DEF Ma!StartHangs
<1> DEFINE Waits == \E i \in DOMAIN queue : queue[i].click = c
<1>1. wish'[c] = "start"
  BY OthersOutside DEF Outside, Ma!WorkerStep, Ma!TakeJob, Ma!Ensure, Ma!Launch, Ma!Kill,
    Ma!CommandFails, Ma!WorkerDies, Ma!restOfJob, Ma!asking
<1>2. CASE job.click = c
  <2>1. CASE Outside
    BY <1>1, <1>2, <2>1 DEF Outside
  <2>2. CASE Ma!TakeJob
    BY <1>2, <2>2, AgentBounds DEF Ma!TakeJob, Asked
  <2>3. CASE Ma!Ensure \/ Ma!Launch \/ Ma!Kill \/ Ma!CommandFails
    BY <1>1, <1>2, <2>3 DEF Ma!Ensure, Ma!Launch, Ma!Kill, Ma!CommandFails, Ma!WillWrite,
      Ma!TypeOK
  <2>4. CASE Ma!WorkerDies
    <3> DEFINE j == [click |-> job.click, again |-> TRUE]
    <3>1. CASE job.again
      BY <1>1, <1>2, <2>4, <3>1 DEF Ma!WorkerDies, Ma!Ends, Ma!TypeOK
    <3>2. CASE ~job.again
      <4>1. queue' = <<j>> \o queue
        BY <2>4, <3>2 DEF Ma!WorkerDies, Ma!Again
      <4>2. j \in Jobs
        BY <1>2 DEF Jobs
      <4>3. DOMAIN queue' = 1 .. Len(queue) + 1 /\ queue'[1] = j /\ Len(queue) \in Nat
        BY <4>1, <4>2, JobTyped, Prepended
      <4> QED
        BY <1>1, <1>2, <4>3
    <3> QED
      BY <3>1, <3>2
  <2> QED
    BY <2>1, <2>2, <2>3, <2>4, OthersOutside DEF Ma!WorkerStep
<1>3. CASE outcome[c] = "lost"
  <2>1. CASE \E d \in Ma!Clicks :
               Ma!Start(d) \/ Ma!EnqueueStart(d) \/ Ma!Stop(d) \/ Ma!HandoverDies(d)
    BY <1>1, <1>3, <2>1 DEF Ma!Start, Ma!EnqueueStart, Ma!Stop, Ma!HandoverDies, Ma!TypeOK
  <2>2. CASE Ma!TakeJob \/ Ma!WorkerDies
    BY <1>1, <1>3, <2>2 DEF Ma!TakeJob, Ma!WorkerDies, Ma!Ends, Ma!TypeOK
  <2>3. CASE UNCHANGED outcome
    BY <1>1, <1>3, <2>3
  <2> QED
    BY <2>1, <2>2, <2>3
    DEF Ma!Next, Ma!WorkerStep, Ma!SweepStep, Ma!SweepSelects, Ma!SweepAsks,
        Ma!SweepWrites, Ma!TouchReads, Ma!TouchStamps, Ma!DeleteServer, Ma!CliExits,
        Ma!SessionVanishes, Ma!SweepDies, Ma!Ensure, Ma!Launch, Ma!Kill, Ma!CommandFails,
        agents
<1>4. ASSUME NEW i \in DOMAIN queue, queue[i].click = c
      PROVE  Ma!StartHangs(c)'
  <2>1. i \in 1 .. Len(queue) /\ Len(queue) \in Nat
    BY JobTyped, Empty
  <2>2. CASE \E d \in Ma!Clicks : Ma!EnqueueStart(d) \/ Ma!Stop(d)
    <3> PICK d \in Ma!Clicks : Ma!EnqueueStart(d) \/ Ma!Stop(d)
      BY <2>2
    <3> DEFINE j == [click |-> d, again |-> FALSE]
    <3>1. j \in Jobs /\ queue' = Append(queue, j)
      BY DEF Ma!EnqueueStart, Ma!Stop, Ma!Enqueued, Jobs
    <3>2. i \in DOMAIN queue' /\ queue'[i] = queue[i]
      BY <2>1, <3>1, JobTyped, Appended
    <3> QED
      BY <1>1, <1>4, <3>2
  <2>3. CASE Ma!TakeJob
    <3>1. /\ queue' = Tail(queue) /\ Head(queue) = queue[1] /\ queue[1] \in Jobs
          /\ DOMAIN Tail(queue) = 1 .. Len(queue) - 1
          /\ \A k \in 1 .. Len(queue) - 1 : Tail(queue)[k] = queue[k + 1]
      BY <2>3, JobTyped, Taken DEF Ma!TakeJob
    <3>2. CASE i = 1
      BY <1>1, <1>4, <2>3, <3>1, <3>2 DEF Ma!TakeJob, Ma!TypeOK
    <3>3. CASE i # 1
      <4>1. i - 1 \in DOMAIN queue' /\ queue'[i - 1] = queue[i]
        BY <2>1, <3>1, <3>3
      <4> QED
        BY <1>1, <1>4, <4>1
    <3> QED
      BY <3>2, <3>3
  <2>4. CASE Ma!WorkerDies /\ ~job.again
    <3> DEFINE j == [click |-> job.click, again |-> TRUE]
    <3>1. j \in Jobs /\ queue' = <<j>> \o queue
      BY <2>4 DEF Ma!WorkerDies, Asked, Ma!Again, Jobs
    <3>2. i + 1 \in DOMAIN queue' /\ queue'[i + 1] = queue[i]
      BY <2>1, <3>1, JobTyped, Prepended
    <3> QED
      BY <1>1, <1>4, <3>2
  <2>5. CASE UNCHANGED queue
    BY <1>1, <1>4, <2>5
  <2> QED
    BY <2>2, <2>3, <2>4, <2>5
    DEF Ma!Next, Ma!WorkerStep, Ma!SweepStep, Ma!Start, Ma!HandoverDies, Ma!SweepSelects,
        Ma!SweepAsks, Ma!SweepWrites, Ma!TouchReads, Ma!TouchStamps, Ma!DeleteServer,
        Ma!CliExits, Ma!SessionVanishes, Ma!SweepDies, Ma!Ensure, Ma!Launch, Ma!Kill,
        Ma!CommandFails, Ma!WorkerDies, Ma!restOfJob, agents
<1> QED
  BY <1>2, <1>3, <1>4

LEMMA StoppedKept ==
  ASSUME Ma!TypeOK, Asked, JobFits, Ma!StoppedIsGone, [Ma!Next]_agents
  PROVE  Ma!StoppedIsGone'
<1> SUFFICES ASSUME presence' = "stopped", session' \in Ma!Up
             PROVE  \E c \in Ma!Clicks : Ma!StartHangs(c)'
  BY DEF Ma!StoppedIsGone, Ma!Up
<1>1. CASE Ma!Patch
  BY <1>1 DEF Ma!Patch, JobFits, Ma!Up, Ma!At
<1>2. CASE Ma!Launch \/ (Ma!CommandFails /\ Ma!At("launch"))
  <2>1. job'.click = job.click /\ wish' = wish /\ job.click \in Ma!Clicks
    BY <1>2 DEF Ma!Launch, Ma!CommandFails, Ma!WillWrite, Ma!restOfJob, Ma!asking,
      Ma!TypeOK, Asked, Ma!At
  <2>2. wish[job.click] = "start"
    BY <1>2 DEF Ma!Launch, JobFits, Ma!At
  <2> QED
    BY <2>1, <2>2 DEF Ma!StartHangs
<1>3. CASE presence = "stopped" /\ session \in Ma!Up /\ ~Ma!Patch
  BY <1>3, HangsOn DEF Ma!StoppedIsGone
<1>4. presence = "stopped" \/ Ma!Patch
  BY DEF Ma!Next, Ma!WorkerStep, Ma!SweepStep, Ma!Start, Ma!EnqueueStart, Ma!Stop,
         Ma!HandoverDies, Ma!TouchReads, Ma!TouchStamps, Ma!DeleteServer, Ma!SweepSelects,
         Ma!SweepAsks, Ma!SweepWrites, Ma!CliExits, Ma!SessionVanishes, Ma!SweepDies,
         Ma!TakeJob, Ma!Ensure, Ma!Launch, Ma!Kill, Ma!CommandFails, Ma!WorkerDies, agents,
         Ma!TypeOK, Ma!Presence
<1>5. session \in Ma!Up \/ Ma!Patch \/ Ma!Launch \/ (Ma!CommandFails /\ Ma!At("launch"))
  <2>1. CASE Outside
    BY <2>1 DEF Outside
  <2>2. CASE Ma!WorkerStep \/ Ma!WorkerDies
    BY <2>2 DEF Ma!WorkerStep, Ma!WorkerDies, Ma!TakeJob, Ma!Ensure, Ma!Kill,
      Ma!CommandFails, Ma!Up
  <2> QED
    BY <2>1, <2>2, OthersOutside
<1> QED
  BY <1>1, <1>2, <1>3, <1>4, <1>5

----------------------------------------------------------------------------
(* The last word.                                                          *)

(* What the queue ends with is what was asked last.                        *)
LEMMA LastKept ==
  ASSUME AgentsInv, [Ma!Next]_agents
  PROVE  LastIsLast' /\ Ma!LastWordHolds'
<1> USE DEF AgentsInv, LastIsLast, Ma!LastWordHolds, Ma!Quiet, Ma!At
<1>1. CASE \E c \in Ma!Clicks : Ma!EnqueueStart(c) \/ Ma!Stop(c)
  <2> PICK c \in Ma!Clicks : Ma!EnqueueStart(c) \/ Ma!Stop(c)
    BY <1>1
  <2> DEFINE j == [click |-> c, again |-> FALSE]
  <2>1. j \in Jobs /\ queue' = Append(queue, j) /\ last' = c
    BY DEF Ma!EnqueueStart, Ma!Stop, Ma!Enqueued, Jobs
  <2>2. queue' # <<>> /\ queue'[Len(queue')] = j
    BY <2>1, JobTyped, Appended
  <2> QED
    BY <2>1, <2>2
<1>2. CASE \E c \in Ma!Clicks : Ma!Start(c) \/ Ma!HandoverDies(c)
  <2> PICK c \in Ma!Clicks : Ma!Start(c) \/ Ma!HandoverDies(c)
    BY <1>2
  <2>1. UNCHANGED <<queue, job, last, session>>
    <3>1. CASE Ma!Start(c)
      BY <3>1 DEF Ma!Start
    <3>2. CASE Ma!HandoverDies(c)
      BY <3>2 DEF Ma!HandoverDies
    <3> QED
      BY <3>1, <3>2
  <2>2. outcome' = outcome \/ outcome' = [outcome EXCEPT ![c] = "lost"]
    BY DEF Ma!Start, Ma!HandoverDies
  <2>3. last # 0 => last \in Ma!Clicks
    BY AgentBounds DEF Ma!TypeOK, Ma!Clicks
  <2>4. last # 0 => outcome'[last] = outcome[last] \/ outcome'[last] = "lost"
    <3>1. outcome \in [Ma!Clicks -> {"open", "done", "failed", "lost"}]
      BY DEF Ma!TypeOK
    <3>2. \A d \in Ma!Clicks : outcome'[d] = outcome[d] \/ outcome'[d] = "lost"
      <4> HIDE DEF AgentsInv, LastIsLast, Ma!LastWordHolds, Ma!Quiet, Ma!At
      <4> QED
        BY <2>2, <3>1
    <3> QED
      BY <2>3, <3>2
  <2>5. last # 0 => wish'[last] = wish[last]
    <3>1. CASE Ma!HandoverDies(c)
      BY <3>1 DEF Ma!HandoverDies
    <3>2. CASE Ma!Start(c)
      <4>1. /\ wish' = [wish EXCEPT ![c] = "start"] /\ wish[c] = "none"
            /\ wish \in [Ma!Clicks -> {"none", "start", "stop"}]
            /\ last # 0 => wish[last] # "none"
        BY <3>2 DEF Ma!Start, Ma!IsNext, Ma!TypeOK, Asked
      <4> HIDE DEF AgentsInv, LastIsLast, Ma!LastWordHolds, Ma!Quiet, Ma!At
      <4> QED
        BY <2>3, <4>1
    <3> QED
      BY <3>1, <3>2
  <2> QED
    BY <2>1, <2>4, <2>5
<1>3. CASE Ma!TakeJob
  <2>1. /\ queue' = Tail(queue) /\ Head(queue) = queue[1] /\ queue[1] \in Jobs
        /\ Len(queue) \in Nat /\ Len(Tail(queue)) = Len(queue) - 1
        /\ \A k \in 1 .. Len(queue) - 1 : Tail(queue)[k] = queue[k + 1]
        /\ Tail(queue) = <<>> <=> Len(queue) = 1
        /\ queue # <<>> /\ Len(queue) > 0
    BY <1>3, JobTyped, Taken DEF Ma!TakeJob
  <2>2. UNCHANGED <<wish, last, session>>
    BY <1>3 DEF Ma!TakeJob, Ma!asking
  <2>3. CASE queue' # <<>>
    <3>1. queue'[Len(queue')] = queue[Len(queue)]
      BY <2>1, <2>3
    <3> QED
      BY <2>1, <2>2, <2>3, <3>1
  <2>4. CASE queue' = <<>>
    <3>1. queue[1].click = last /\ last \in Ma!Clicks
      BY <2>1, <2>4 DEF Jobs
    <3>2. CASE hosted
      <4>1. wish[last] \in {"start", "stop"}
        BY <2>1, <3>1, JobTyped, Empty DEF Asked, Ma!TypeOK
      <4>2. job'.click = last /\ job'.pc # "idle"
        BY <1>3, <2>1, <3>1, <3>2, <4>1 DEF Ma!TakeJob, Ma!First
      <4> QED
        BY <2>2, <2>4, <4>2
    <3>3. CASE ~hosted
      <4>1. outcome'[last] = "lost"
        BY <1>3, <2>1, <3>1, <3>3 DEF Ma!TakeJob, Ma!TypeOK
      <4>2. job' = job
        BY <1>3, <3>3 DEF Ma!TakeJob
      <4>3. job'.pc = "idle"
        BY <1>3, <4>2 DEF Ma!TakeJob
      <4> QED
        BY <2>2, <2>4, <4>1, <4>3
    <3> QED
      BY <3>2, <3>3
  <2> QED
    BY <2>3, <2>4
<1>4. CASE Ma!Ensure \/ Ma!Launch \/ Ma!Kill \/ Ma!CommandFails
  <2>1. UNCHANGED <<queue, last>>
    BY <1>4 DEF Ma!Ensure, Ma!Launch, Ma!Kill, Ma!CommandFails, Ma!restOfJob, Ma!asking
  <2>2. job.pc # "idle"
    BY <1>4 DEF Ma!Ensure, Ma!Launch, Ma!Kill, Ma!CommandFails
  <2>3. CASE Ma!Ensure \/ Ma!Launch
    BY <2>1, <2>2, <2>3 DEF Ma!Ensure, Ma!Launch, Ma!WillWrite, Ma!TypeOK
  <2>4. CASE Ma!Kill \/ Ma!CommandFails
    BY <2>1, <2>2, <2>4 DEF Ma!Kill, Ma!CommandFails, Ma!WillWrite, Ma!TypeOK
  <2> QED
    BY <1>4, <2>3, <2>4
<1>5. CASE Ma!Patch
  <2>1. UNCHANGED <<queue, last, wish, session>> /\ job'.pc = "idle"
    BY <1>5 DEF Ma!Patch, Ma!restOfJob, Ma!asking, Ma!Nobody
  <2>2. job.click \in Ma!Clicks
    BY <1>5 DEF Ma!Patch, Asked
  <2>3. outcome'[job.click] = IF job.writes \in {"idle", "stopped"} THEN "done" ELSE "failed"
    BY <1>5, <2>2 DEF Ma!Patch, Ma!Ends, Ma!TypeOK
  <2>4. CASE queue = <<>>
    <3>1. job.click = last
      BY <1>5, <2>4 DEF Ma!Patch
    <3>2. session \in (IF wish[last] = "start" THEN Ma!Up \union {"gone"} ELSE {"none"})
          \/ outcome'[last] = "failed"
      BY <1>5, <2>3, <3>1 DEF Ma!Patch, JobFits, Ma!TypeOK, Ma!Up
    <3> QED
      BY <2>1, <2>3, <2>4, <3>1, <3>2
  <2> QED
    BY <2>1, <2>4
<1>6. CASE Ma!WorkerDies
  <2>1. UNCHANGED <<last, wish, session>> /\ job'.pc = "idle"
    BY <1>6 DEF Ma!WorkerDies, Ma!asking, Ma!Nobody
  <2>2. job.click \in Ma!Clicks /\ job.pc # "idle"
    BY <1>6 DEF Ma!WorkerDies, Asked
  <2>3. CASE job.again
    <3>1. queue' = queue /\ outcome'[job.click] = "lost"
      BY <1>6, <2>2, <2>3 DEF Ma!WorkerDies, Ma!Ends, Ma!TypeOK
    <3> QED
      BY <2>1, <2>2, <3>1
  <2>4. CASE ~job.again
    <3> DEFINE j == [click |-> job.click, again |-> TRUE]
    <3>1. j \in Jobs /\ queue' = <<j>> \o queue
      BY <1>6, <2>2, <2>4 DEF Ma!WorkerDies, Ma!Again, Jobs
    <3>2. /\ queue' # <<>> /\ Len(queue') = Len(queue) + 1 /\ Len(queue) \in Nat
          /\ queue'[1] = j /\ \A i \in 1 .. Len(queue) : queue'[i + 1] = queue[i]
      BY <3>1, JobTyped, Prepended
    <3>3. queue'[Len(queue')].click = last
      <4>1. CASE queue = <<>>
        BY <2>2, <3>2, <4>1
      <4>2. CASE queue # <<>>
        BY <3>2, <4>2, JobTyped, Empty
      <4> QED
        BY <4>1, <4>2
    <3> QED
      BY <2>1, <3>2, <3>3
  <2> QED
    BY <2>3, <2>4
<1>7. CASE UNCHANGED <<queue, job, last, outcome, wish>> /\ Outside
  BY <1>7 DEF Outside, Ma!Up, Asked, Ma!TypeOK
<1> QED
  <2>1. CASE Ma!WorkerStep \/ Ma!WorkerDies
    BY <1>3, <1>4, <1>5, <1>6, <2>1 DEF Ma!WorkerStep
  <2>2. CASE Outside
    BY <1>1, <1>2, <1>3, <1>4, <1>5, <1>6, <1>7, <2>2
    DEF Ma!Next, Ma!WorkerStep, Ma!SweepStep, Ma!SweepSelects, Ma!SweepAsks,
        Ma!SweepWrites, Ma!TouchReads, Ma!TouchStamps, Ma!DeleteServer, Ma!CliExits,
        Ma!SessionVanishes, Ma!SweepDies, agents, Ma!asking
  <2> QED
    BY <2>1, <2>2, OthersOutside

----------------------------------------------------------------------------
(* The agents all told.                                                    *)

LEMMA AgentsContinue == AgentsInv /\ [Ma!Next]_agents => AgentsInv'
<1> SUFFICES ASSUME AgentsInv, [Ma!Next]_agents PROVE AgentsInv'
  OBVIOUS
<1>1. Ma!TypeOK'
  <2>1. CASE UNCHANGED agents
    BY <2>1 DEF AgentsInv, Ma!TypeOK, agents, Ma!asking, Ma!bounds, Ma!Statuses,
      Ma!Presence, Ma!Up
  <2>2. CASE Ma!Next
    BY <2>2, ApiTyped, WorkerTyped, OthersTyped DEF Ma!Next, AgentsInv
  <2> QED
    BY <2>1, <2>2
<1>2. Asked' /\ JobFits' /\ Ma!StoppedIsGone'
  BY AskedKept, JobFitsKept, StoppedKept DEF AgentsInv
<1>3. LastIsLast' /\ Ma!LastWordHolds'
  BY LastKept
<1> QED
  BY <1>1, <1>2, <1>3 DEF AgentsInv

----------------------------------------------------------------------------
(* All of them.                                                            *)

Booleans == AttachmentsBooleans /\ ResearchBooleans /\ crossed \in BOOLEAN

IInv ==
  /\ ShellsInv /\ ChecksInv /\ TransferInv /\ AttachmentsInv /\ ResearchInv /\ MobileInv
  /\ AgentsInv
  /\ Booleans
  /\ deaths \in 0 .. MaxDeaths

LEMMA Starts == Init => IInv
<1> SUFFICES ASSUME Init PROVE IInv
  OBVIOUS
<1>1. deaths \in 0 .. MaxDeaths
  BY Bounds DEF Init, Sh!Init
<1> QED
  BY <1>1, ShellsStart, ChecksStart, TransferStarts, AttachmentsStart, ResearchStarts,
     MobileStarts, AgentsStart DEF Init, IInv, Booleans

(* Each part takes a step of its own, or rests.                            *)
LEMMA EachSteps ==
  ASSUME [Next]_vars
  PROVE  /\ [Sh!Next]_shells /\ [Ch!Next]_checks /\ [Tr!Next]_transfer
         /\ [At!Next]_attachments /\ [Re!Next]_research /\ [Mo!Next]_mobile
         /\ [Ma!Next]_agents
BY DEF Next, vars, Shell, Checking, Transferring, Attaching, Researching, Device, Hosting

LEMMA DeathsBounded ==
  ASSUME deaths \in 0 .. MaxDeaths, [Next]_vars
  PROVE  deaths' \in 0 .. MaxDeaths
<1> SUFFICES deaths' = deaths \/ (deaths < MaxDeaths /\ deaths' = deaths + 1)
  BY Bounds
<1>1. CASE Shell
  BY <1>1 DEF Shell, Sh!Next, Sh!Issue, Sh!Redeem, Sh!Timers, Sh!Answers, Sh!TicketLapses,
     Sh!HardExpiry, Sh!IdleExpiry, Sh!FindServer, Sh!CloseRow, Sh!RowMoves,
     Sh!DeadlineFollows, Sh!SocketCloses, Sh!Connected, Sh!ConnectFails, Sh!FarEndExits,
     Sh!Types, Sh!Stirs, Sh!Tick, Sh!DeleteServer, Sh!Restart
<1>2. CASE Checking \/ Transferring \/ Hosting \/ UNCHANGED vars
  BY <1>2 DEF Checking, Transferring, Hosting, vars
<1>3. CASE Attaching
  BY <1>3 DEF Attaching, At!Next, At!Confirm, At!Delete, At!SweepStep, At!ConfirmReads,
     At!Head, At!DropObject, At!EraseRow, At!HeadThumbnail, At!Swap, At!DeleteReads,
     At!DeleteObjects, At!SoftDelete, At!CallFails, At!CallDies, At!SweepSelects,
     At!SweepObjects, At!SweepRow, At!SweepDies, At!CreateUpload, At!Put,
     At!SubjectDeleted, At!Ages, At!RetentionEnds, At!OnlyCalls, At!OnlyRows, At!OnlyStore
<1>4. CASE Researching
  BY <1>4 DEF Researching, Re!Next, Re!AgentAppend, Re!Reply, Re!Accept, Re!Reopen,
     Re!AgentReads, Re!AgentSays, Re!Publishes, Re!ReplySays, Re!ReplyAwaits,
     Re!AcceptReads, Re!AcceptWrites, Re!ReopenReads, Re!ReopenSays, Re!ReopenWrites,
     Re!CallDies, Re!Delete
<1>5. CASE Device
  BY <1>5 DEF Device, Mo!Next, Mo!Send, Mo!Answered, Mo!Unauthorized, Mo!Rejected,
     Mo!Flies, Mo!ServerRefresh, Mo!ReadToken, Mo!ServerRotates, Mo!ServerRepeats,
     Mo!ServerRefuses, Mo!SetTokens, Mo!Lands, Mo!KeepsTokens, Mo!ClearsTokens, Mo!Crashes,
     Mo!NoAnswer, Mo!Bootstrap, Mo!Login, Mo!SignIn, Mo!SignOut, Mo!Killed,
     Mo!AccessExpires, Mo!SessionEnds, Mo!History
<1> QED
  BY <1>1, <1>2, <1>3, <1>4, <1>5 DEF Next

LEMMA Continues == IInv /\ [Next]_vars => IInv'
<1> SUFFICES ASSUME IInv, [Next]_vars PROVE IInv'
  OBVIOUS
<1>1. /\ [Sh!Next]_shells /\ [Ch!Next]_checks /\ [Tr!Next]_transfer
      /\ [At!Next]_attachments /\ [Re!Next]_research /\ [Mo!Next]_mobile
      /\ [Ma!Next]_agents
  BY EachSteps
<1>2. ShellsInv' /\ ChecksInv' /\ TransferInv'
  BY <1>1, ShellsContinue, ChecksContinue, TransferContinues DEF IInv
<1>3. AttachmentsInv' /\ ResearchInv' /\ MobileInv' /\ AgentsInv'
  BY <1>1, AttachmentsContinue, ResearchContinues, MobileContinues, AgentsContinue DEF IInv
<1>4. Booleans'
  BY <1>1, AttachmentsRemember, ResearchRemembers, MobileRemembers DEF IInv, Booleans
<1>5. deaths' \in 0 .. MaxDeaths
  BY DeathsBounded DEF IInv
<1> QED
  BY <1>2, <1>3, <1>4, <1>5 DEF IInv

(* Every reachable state satisfies the inductive invariant: the seven   *)
(* parts' own, side by side.                                               *)
THEOREM Invariance == Spec => []IInv
BY Starts, Continues, PTL DEF Spec

(* Every variable of the seven parts has its type.                         *)
THEOREM TypeCorrect == Spec => []TypeOK
<1>1. IInv => TypeOK
  BY ShellsKeep, ChecksKeep, AttachmentsKeep, ResearchKeeps, MobileKeeps
  DEF IInv, Booleans, TypeOK, TransferInv, AgentsInv
<1> QED
  BY <1>1, Invariance, PTL

(* A shell nobody types into is over within the window after the last      *)
(* keystroke, one without traffic within the idle window, and any within   *)
(* the ceiling: whatever the far end prints, however renewals overtake     *)
(* each other on their way to the row, and for every choice of windows.    *)
THEOREM ForgottenShellsEnd == Spec => []ForgottenEnds
<1>1. IInv => ForgottenEnds
  BY ShellsKeep DEF IInv, ForgottenEnds
<1> QED
  BY <1>1, Invariance, PTL

(* pipeOp fails no transfer as stalled whose source is through, and calls  *)
(* none loaded that is not whole, for every image and window.              *)
THEOREM OnlySilenceKills == Spec => []SilenceIsDeath
<1>1. IInv => SilenceIsDeath
  BY DEF IInv, TransferInv, SilenceIsDeath
<1> QED
  BY <1>1, Invariance, PTL

(* A served attachment has its object, and a swept row none, for any       *)
(* number of requests that overlap each other and the sweep.               *)
THEOREM RowsMatchTheStore == Spec => []StoreMatchesRow
<1>1. IInv => StoreMatchesRow
  BY AttachmentsKeep DEF IInv, Booleans, StoreMatchesRow
<1> QED
  BY <1>1, Invariance, PTL

(* Research: versions are drafts, reviewed documents have one, and a reply *)
(* that met no other request is awaited.                                   *)
THEOREM RepliesAwaited == Spec => []RepliesAreAwaited
<1>1. IInv => RepliesAreAwaited
  BY ResearchKeeps DEF IInv, Booleans, RepliesAreAwaited
<1> QED
  BY <1>1, Invariance, PTL

(* The app presents no token it knows to be spent, however many requests   *)
(* come back unauthorized at once.                                         *)
THEOREM TokensPresentedOnce == Spec => []NeverSpentTwice
<1>1. IInv => NeverSpentTwice
  BY MobileKeeps DEF IInv, Booleans, NeverSpentTwice
<1> QED
  BY <1>1, Invariance, PTL


(* An agent its row calls stopped holds no session, unless a start is      *)
(* under way or was given up: api, worker, stamps and sweep together.      *)
THEOREM StoppedOnesAreGone == Spec => []StoppedIsGone
<1>1. IInv => StoppedIsGone
  BY DEF IInv, AgentsInv, StoppedIsGone
<1> QED
  BY <1>1, Invariance, PTL

(* The request that was enqueued last decides what the box of an agent     *)
(* shows.                                                                  *)
THEOREM LastOneDecides == Spec => []LastWordHolds
<1>1. IInv => LastWordHolds
  BY DEF IInv, AgentsInv, LastWordHolds
<1> QED
  BY <1>1, Invariance, PTL

(* What each part may never do, of any of its steps.                       *)
LEMMA StepsKeep ==
  ASSUME IInv, [Next]_vars
  PROVE  TrailKept /\ PinKept /\ Kept
BY EachSteps, ShellsContinue, ChecksContinue, MobileContinues DEF IInv

(* The outcome and the window of a closed audit row are final, a pin stays *)
(* until an edit resets it, and no transient failure costs the app         *)
(* credentials that work.                                                  *)
THEOREM NothingIsTakenBack == Spec => NothingTakenBack
<1>1. IInv /\ [Next]_vars =>
        [\A s \in Sessions :
           shell[s].row \in Sh!Outcomes =>
             shell'[s].row = shell[s].row /\ shell'[s].until = shell[s].until]_(Sh!vars)
  BY StepsKeep DEF TrailKept
<1>2. IInv /\ [Next]_vars =>
        [srv.pin # None => srv'.pin \in {srv.pin, None} \/ overlapped']_(Ch!vars)
  BY StepsKeep DEF PinKept
<1>3. IInv /\ [Next]_vars =>
        [jar.refresh # 0 /\ pair[jar.refresh] = "live" /\ jar' = Mo!Empty =>
           \/ flow.pc \in {"logout", "boot"} /\ flow'.pc = "none"
           \/ crossed]_(Mo!vars)
  BY StepsKeep DEF Kept
<1>4. Spec => Sh!TrailIsFinal
  BY <1>1, Invariance, PTL DEF Spec, Sh!TrailIsFinal
<1>5. Spec => Ch!NeverRepinned
  BY <1>2, Invariance, PTL DEF Spec, Ch!NeverRepinned
<1>6. Spec => Mo!KeepsCredentials
  BY <1>3, Invariance, PTL DEF Spec, Mo!KeepsCredentials
<1> QED
  BY <1>4, <1>5, <1>6 DEF NothingTakenBack
=============================================================================
