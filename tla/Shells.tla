------------------------------- MODULE Shells -------------------------------
(***************************************************************************)
(* Browser shells on a server: the tickets the api issues, the sockets     *)
(* that redeem them, the ssh channels behind them, the timers that end     *)
(* them, and the audit row each of them leaves.                            *)
(*                                                                         *)
(* Connecting, renewing and closing each await the network or the          *)
(* database, and everything that ends a session may happen meanwhile.      *)
(*                                                                         *)
(* Time is counted in ticks of five minutes, the stretch in which a window *)
(* is renewed.  A timer is never late by a whole tick.                     *)
(***************************************************************************)
EXTENDS Naturals, FiniteSets

CONSTANTS
  Sessions,
  MaxConcurrent, \* SHELL_SESSION_MAX_CONCURRENT, of the one organization
  Ttl, IdleFor, RenewWithin, MaxTotal, \* the windows, in ticks
  LastIssue,     \* bound: the tick after which nobody asks for a shell
  MaxDeaths      \* bound: how often the api restarts

VARIABLES
  now,
  server,  \* the row of the server is there
  shell,   \* the sessions: audit row, ticket, socket, ssh channel, timers
  live,    \* the registry of the service, which counts against the cap
  deaths   \* counter, for the bound

vars == <<now, server, shell, live, deaths>>

Outcomes == {"closed", "expired", "idle", "error", "refused"}

(* phase:   asked for, redeemed, connecting out, connected, or over        *)
(* row:     the outcome on the audit row; until: its expiresAt             *)
(* closing: the outcome on its way to the row                              *)
(* renewals: extensions on their way to the row, or back from it           *)
Unborn == [phase |-> "none", row |-> "none", until |-> 0, opened |-> 0,
           ended |-> FALSE, ssh |-> FALSE, deadline |-> 0, typed |-> 0, touched |-> 0,
           closing |-> "none", renewals |-> {}]

Init ==
  /\ now = 0
  /\ server = TRUE
  /\ shell = [s \in Sessions |-> Unborn]
  /\ live = {}
  /\ deaths = 0

Phase(s) == shell[s].phase
Becomes(s, r) == shell' = [shell EXCEPT ![s] = r]

Ceiling(s) == shell[s].opened + MaxTotal

(* The gateway listens to the socket, and both timers are armed.           *)
Held(s) == Phase(s) \in {"connecting", "up"} /\ ~shell[s].ended

----------------------------------------------------------------------------
(* Tickets.                                                                *)

(* The cap counts who is connected; a refusal is a row too.                *)
Issue(s) ==
  /\ Phase(s) = "none" /\ server /\ now <= LastIssue
  /\ Becomes(s, IF Cardinality(live) >= MaxConcurrent
                THEN [Unborn EXCEPT !.phase = "over", !.row = "refused", !.until = now]
                ELSE [Unborn EXCEPT !.phase = "issued", !.row = "open",
                                    !.until = now + Ttl, !.opened = now])
  /\ UNCHANGED <<now, server, live, deaths>>

TicketDropped(s) ==
  /\ Phase(s) = "issued"
  /\ Becomes(s, [shell[s] EXCEPT !.phase = "over"])
  /\ UNCHANGED <<now, server, live, deaths>>

(* Thirty seconds later, unless it was redeemed.                           *)
TicketLapses(s) ==
  /\ Phase(s) = "issued"
  /\ Becomes(s, [shell[s] EXCEPT !.phase = "over", !.closing = "expired"])
  /\ UNCHANGED <<now, server, live, deaths>>

(* A socket arrives; its handler looks the server up.                      *)
Redeem(s) ==
  /\ Phase(s) = "issued"
  /\ Becomes(s, [shell[s] EXCEPT !.phase = "redeemed"])
  /\ UNCHANGED <<now, server, live, deaths>>

(* The server is gone, and the row stays as it is; or the handler arms its *)
(* timers, listens to the socket and connects out.                         *)
FindServer(s) ==
  /\ Phase(s) = "redeemed"
  /\ Becomes(s, IF server
                THEN [shell[s] EXCEPT !.phase = "connecting", !.deadline = shell[s].until,
                                      !.typed = shell[s].opened, !.touched = now]
                ELSE [shell[s] EXCEPT !.phase = "over"])
  /\ UNCHANGED <<now, server, live, deaths>>

----------------------------------------------------------------------------
(* The end, whoever brings it about.                                       *)

(* The channel is closed if there is one by then; the row follows.         *)
End(s, outcome) ==
  /\ Becomes(s, [shell[s] EXCEPT !.ended = TRUE, !.ssh = FALSE, !.closing = outcome])
  /\ live' = live \ {s}

(* Closed or failed: the outcome tells them apart, nothing else does.      *)
SocketCloses(s) ==
  /\ Held(s)
  /\ End(s, "closed")
  /\ UNCHANGED <<now, server, deaths>>

HardExpiry(s) ==
  /\ Held(s) /\ now >= shell[s].deadline
  /\ End(s, "expired")
  /\ UNCHANGED <<now, server, deaths>>

IdleExpiry(s) ==
  /\ Held(s) /\ now >= shell[s].touched + IdleFor
  /\ End(s, "idle")
  /\ UNCHANGED <<now, server, deaths>>

CloseRow(s) ==
  /\ shell[s].closing # "none"
  /\ Becomes(s, [shell[s] EXCEPT !.row = shell[s].closing, !.closing = "none"])
  /\ UNCHANGED <<now, server, live, deaths>>

----------------------------------------------------------------------------
(* The ssh side.                                                           *)

(* The handler goes on where it awaited the connection.                    *)
Connected(s) ==
  /\ Phase(s) = "connecting"
  /\ Becomes(s, [shell[s] EXCEPT !.phase = "up", !.ssh = TRUE])
  /\ live' = live \union {s}
  /\ UNCHANGED <<now, server, deaths>>

ConnectFails(s) ==
  /\ Phase(s) = "connecting"
  /\ Becomes(s, IF shell[s].ended
                THEN [shell[s] EXCEPT !.phase = "over"]
                ELSE [shell[s] EXCEPT !.phase = "over", !.ended = TRUE, !.closing = "error"])
  /\ UNCHANGED <<now, server, live, deaths>>

FarEndExits(s) ==
  /\ Phase(s) = "up" /\ shell[s].ssh
  /\ IF shell[s].ended
     THEN Becomes(s, [shell[s] EXCEPT !.ssh = FALSE]) /\ UNCHANGED live
     ELSE End(s, "closed")
  /\ UNCHANGED <<now, server, deaths>>

----------------------------------------------------------------------------
(* Traffic.                                                                *)

Least(a, b) == IF a < b THEN a ELSE b

NextExpiryUnbounded(s) == now + Ttl
NextExpiry(s) == Least(now + Ttl, Ceiling(s))
Renewal(s) ==
  IF shell[s].deadline <= now + RenewWithin /\ NextExpiry(s) > shell[s].deadline
  THEN {[next |-> NextExpiry(s), moved |-> FALSE]} ELSE {}

(* A keystroke: both kinds of traffic, and evidence of an operator.        *)
Types(s) ==
  /\ Held(s)
  /\ Becomes(s, [shell[s] EXCEPT !.touched = now, !.typed = now,
                                 !.renewals = shell[s].renewals \union Renewal(s)])
  /\ UNCHANGED <<now, server, live, deaths>>

StirsAndRenews(s) ==
  /\ Held(s)
  /\ Becomes(s, [shell[s] EXCEPT !.touched = now,
                                 !.renewals = shell[s].renewals \union Renewal(s)])
  /\ UNCHANGED <<now, server, live, deaths>>

(* Output of the far end, or a resize.                                     *)
Stirs(s) ==
  /\ Held(s)
  /\ Becomes(s, [shell[s] EXCEPT !.touched = now])
  /\ UNCHANGED <<now, server, live, deaths>>

(* extendExpiry moves an open row; a call that fails, whether or not it got *)
(* so far, counts as not moved.                                            *)
RowMoves(s) ==
  \E r \in shell[s].renewals :
    /\ ~r.moved
    /\ LET others == shell[s].renewals \ {r}
           known == others \union {[r EXCEPT !.moved = TRUE]}
       IN  \/ /\ shell[s].row = "open"
              /\ \E left \in {others, known} :
                   Becomes(s, [shell[s] EXCEPT !.until = r.next, !.renewals = left])
           \/ Becomes(s, [shell[s] EXCEPT !.renewals = others])
    /\ UNCHANGED <<now, server, live, deaths>>

(* Back in renew.                                                          *)
DeadlineFollows(s) ==
  \E r \in shell[s].renewals :
    /\ r.moved
    /\ Becomes(s, [shell[s] EXCEPT !.renewals = @ \ {r},
                          !.deadline = IF shell[s].ended THEN @ ELSE r.next])
    /\ UNCHANGED <<now, server, live, deaths>>

----------------------------------------------------------------------------
(* Time, deletion, restarts.                                               *)

TimerDue(s) ==
  \/ Held(s) /\ (now >= shell[s].deadline \/ now >= shell[s].touched + IdleFor)
  \/ Phase(s) = "issued" /\ shell[s].opened < now
  \/ Phase(s) = "redeemed"

(* Bound: nothing has a timer left after LastIssue + MaxTotal.             *)
Tick ==
  /\ now <= LastIssue + MaxTotal
  /\ \A s \in Sessions : ~TimerDue(s)
  /\ now' = now + 1
  /\ UNCHANGED <<server, shell, live, deaths>>

DeleteServer ==
  /\ server
  /\ server' = FALSE
  /\ UNCHANGED <<now, shell, live, deaths>>

(* Tickets, timers and connections are the process's own; rows are not.    *)
Restart ==
  /\ deaths < MaxDeaths
  /\ deaths' = deaths + 1
  /\ live' = {}
  /\ shell' = [s \in Sessions |->
                 IF Phase(s) = "none" THEN shell[s]
                 ELSE [shell[s] EXCEPT !.phase = "over", !.ended = TRUE, !.ssh = FALSE,
                                       !.closing = "none", !.renewals = {}]]
  /\ UNCHANGED <<now, server>>

Timers(s) == TicketLapses(s) \/ HardExpiry(s) \/ IdleExpiry(s)
Answers(s) == FindServer(s) \/ CloseRow(s) \/ RowMoves(s) \/ DeadlineFollows(s)

Next ==
  \/ \E s \in Sessions :
       \/ Issue(s) \/ Redeem(s) \/ Timers(s) \/ Answers(s)
       \/ SocketCloses(s) \/ Connected(s) \/ ConnectFails(s) \/ FarEndExits(s)
       \/ Types(s) \/ Stirs(s)
  \/ Tick \/ DeleteServer \/ Restart

Spec == Init /\ [][Next]_vars

(* Time passes, timers go off, and the database answers; people, servers   *)
(* and connections owe nothing.                                            *)
FairSpec ==
  /\ Spec
  /\ WF_vars(Tick)
  /\ \A s \in Sessions : WF_vars(Timers(s)) /\ WF_vars(FindServer(s)) /\ WF_vars(CloseRow(s))

----------------------------------------------------------------------------
(* Properties.                                                             *)

Times == 0 .. LastIssue + MaxTotal

TypeOK ==
  /\ now \in 0 .. LastIssue + MaxTotal + 1
  /\ server \in BOOLEAN
  /\ live \subseteq Sessions
  /\ deaths \in 0 .. MaxDeaths
  /\ \A s \in Sessions :
       /\ shell[s].phase \in {"none", "issued", "redeemed", "connecting", "up", "over"}
       /\ shell[s].row \in Outcomes \union {"none", "open"}
       /\ {shell[s].until, shell[s].opened, shell[s].deadline} \subseteq Times
       /\ {shell[s].typed, shell[s].touched} \subseteq 0 .. now
       /\ shell[s].ended \in BOOLEAN /\ shell[s].ssh \in BOOLEAN
       /\ shell[s].closing \in Outcomes \union {"none"}
       /\ shell[s].renewals \subseteq [next : Times, moved : BOOLEAN]

(* A forgotten terminal does not stay open: a session that goes on has     *)
(* seen traffic within the idle window, was typed into within the window,  *)
(* whatever it prints and whichever renewals are under way, and is younger *)
(* than the ceiling.                                                       *)
ForgottenEnds ==
  \A s \in Sessions : Held(s) =>
    /\ now <= shell[s].touched + IdleFor
    /\ now <= shell[s].typed + Ttl
    /\ now <= Ceiling(s)

(* What the trail says of a session that is over is final: no second end,  *)
(* late renewal or ticket timer rewrites it.                               *)
TrailIsFinal ==
  [][\A s \in Sessions :
       shell[s].row \in Outcomes =>
         shell'[s].row = shell[s].row /\ shell'[s].until = shell[s].until]_vars

(* Nobody is left who could close the row: the process restarted, or the   *)
(* server was gone when the ticket was redeemed.                           *)
Stranded(s) ==
  Phase(s) = "over" /\ shell[s].closing = "none" /\ (deaths > 0 \/ ~server)

(* Every row is closed in the end, however the session goes.               *)
TrailCloses ==
  \A s \in Sessions : shell[s].row = "open" ~> shell[s].row # "open" \/ Stranded(s)

----------------------------------------------------------------------------
(* What the code does not keep: TLC refutes it, see README, section 4.     *)

(* An end that comes while the connection is made ends it too.             *)
EndsForGood ==
  \A s \in Sessions :
    Phase(s) = "up" /\ shell[s].ended => ~shell[s].ssh /\ s \notin live

(* One organization holds no more open shells than the cap.                *)
CapHolds == Cardinality({s \in Sessions : shell[s].ssh}) <= MaxConcurrent

(* A row that says open has somebody who will close it.                    *)
TrailIsTrue == \A s \in Sessions : shell[s].row = "open" => ~Stranded(s)

=============================================================================
