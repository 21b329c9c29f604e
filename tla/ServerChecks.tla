---------------------------- MODULE ServerChecks ----------------------------
(***************************************************************************)
(* The reachability of a server: its row, the checks that connect to the   *)
(* machine and write what they saw, people who edit and delete the row,    *)
(* and machines that go down and change their host key.                    *)
(*                                                                         *)
(* A check reads the row, is on the network for seconds, and writes by id. *)
(* Two run at a time: one somebody asked for and the sweep's.              *)
(***************************************************************************)
EXTENDS Naturals

CONSTANTS
  Hosts,      \* where a server may be
  Keys,       \* host keys
  None,       \* no host, no key
  MaxEdits,   \* bound: how often people edit the address
  MaxChanges  \* bound: how often a machine goes down, up or changes its key

VARIABLES
  srv,     \* the row: host, hostFingerprint, status
  check,   \* the jobs under way: the sweep's and the one asked for
  asked,   \* the check with the server's job id: none, queued, running, kept
  machine, \* key and reachability of the host at each address
  edits, changes, \* counters, for the bounds
  crossed  \* history: a check read the row before an edit or another's pin

vars == <<srv, check, asked, machine, edits, changes, crossed>>

Jobs == {"sweep", "asked"}
NoCheck == [pc |-> "idle", host |-> None, pin |-> None, saw |-> None]

Init ==
  /\ srv \in [host : Hosts, pin : {None}, status : {"unverified"}]
  /\ check = [j \in Jobs |-> NoCheck]
  /\ asked = "none"
  /\ machine \in [Hosts -> [key : Keys, up : {TRUE}]]
  /\ edits = 0 /\ changes = 0
  /\ crossed = FALSE

Exists == srv.host # None
Probing == \E j \in Jobs : check[j].pc # "idle"

----------------------------------------------------------------------------
(* People, through the api.                                                *)

ResetsPin(h) == [host |-> h, pin |-> None, status |-> "unverified"]

Update(h) ==
  /\ Exists /\ edits < MaxEdits
  /\ edits' = edits + 1
  /\ srv' = ResetsPin(h)
  /\ crossed' = (crossed \/ Probing)
  /\ UNCHANGED <<check, asked, machine, changes>>

Delete ==
  /\ Exists
  /\ srv' = [srv EXCEPT !.host = None]
  /\ UNCHANGED <<check, asked, machine, edits, changes, crossed>>

(* One job per server at a time; one that failed for good keeps the id.    *)
Test ==
  /\ Exists /\ asked = "none"
  /\ asked' = "queued"
  /\ UNCHANGED <<srv, check, machine, edits, changes, crossed>>

----------------------------------------------------------------------------
(* The worker: checkOne.                                                   *)

Ends(j) == check' = [check EXCEPT ![j] = NoCheck]

SkipsMismatched(j) ==
  /\ check[j].pc = "idle" /\ Exists /\ srv.status # "fingerprint_mismatch"
  /\ j = "asked" => asked = "queued"
  /\ check' = [check EXCEPT ![j] = [pc |-> "probe", host |-> srv.host, pin |-> srv.pin,
                                    saw |-> None]]
  /\ asked' = IF j = "asked" THEN "running" ELSE asked
  /\ UNCHANGED <<srv, machine, edits, changes, crossed>>

ReadRow(j) ==
  /\ check[j].pc = "idle" /\ Exists
  /\ j = "asked" => asked = "queued"
  /\ check' = [check EXCEPT ![j] = [pc |-> "probe", host |-> srv.host, pin |-> srv.pin,
                                    saw |-> None]]
  /\ asked' = IF j = "asked" THEN "running" ELSE asked
  /\ UNCHANGED <<srv, machine, edits, changes, crossed>>

(* The key the host shows, or nothing when it is down.                     *)
TestConnection(j) ==
  /\ check[j].pc = "probe"
  /\ LET m == machine[check[j].host] IN
     check' = [check EXCEPT ![j].pc = "write", ![j].saw = IF m.up THEN m.key ELSE None]
  /\ UNCHANGED <<srv, asked, machine, edits, changes, crossed>>

Verdict(pin, saw) ==
  CASE saw = None -> "unreachable"
    [] pin \in {None, saw} -> "reachable"
    [] OTHER -> "fingerprint_mismatch"

Patched(c) ==
  [srv EXCEPT !.status = Verdict(c.pin, c.saw),
              !.pin = IF c.pin = None /\ c.saw # None THEN c.saw ELSE srv.pin]

(* By id.  The job that was asked for frees its id.                        *)
WriteStatus(j) ==
  /\ check[j].pc = "write"
  /\ srv' = IF Exists THEN Patched(check[j]) ELSE srv
  /\ crossed' = (crossed \/ (Exists /\ srv.pin # check[j].pin))
  /\ Ends(j)
  /\ asked' = IF j = "asked" THEN "none" ELSE asked
  /\ UNCHANGED <<machine, edits, changes>>

(* A check that throws, or whose worker dies, writes nothing.  A job that  *)
(* was asked for is tried again, until it has failed for good.             *)
CheckFails(j) ==
  /\ check[j].pc # "idle"
  /\ Ends(j)
  /\ asked' \in IF j = "asked" THEN {"queued", "kept"} ELSE {asked}
  /\ UNCHANGED <<srv, machine, edits, changes, crossed>>

----------------------------------------------------------------------------
(* Machines.                                                               *)

Changes(h, m) ==
  /\ changes < MaxChanges
  /\ changes' = changes + 1
  /\ machine' = [machine EXCEPT ![h] = m]
  /\ UNCHANGED <<srv, check, asked, edits, crossed>>

GoesDownOrUp(h) == Changes(h, [machine[h] EXCEPT !.up = ~@])
IsReinstalled(h) == \E k \in Keys \ {machine[h].key} : Changes(h, [machine[h] EXCEPT !.key = k])

(* The row is gone before the job that was asked for reads it.             *)
FindsNothing ==
  /\ asked = "queued" /\ ~Exists
  /\ asked' = "none"
  /\ UNCHANGED <<srv, check, machine, edits, changes, crossed>>

CheckOne(j) == ReadRow(j) \/ TestConnection(j) \/ WriteStatus(j)

Next ==
  \/ \E h \in Hosts : Update(h) \/ GoesDownOrUp(h) \/ IsReinstalled(h)
  \/ Delete \/ Test \/ FindsNothing
  \/ \E j \in Jobs : CheckOne(j) \/ CheckFails(j)

Spec == Init /\ [][Next]_vars

(* The sweep runs every ten minutes, and its checks do not always fail.    *)
FairSpec ==
  /\ Spec
  /\ WF_vars(ReadRow("sweep"))
  /\ SF_vars(TestConnection("sweep")) /\ SF_vars(WriteStatus("sweep"))
  /\ WF_vars(CheckOne("asked"))

----------------------------------------------------------------------------
(* Properties.                                                             *)

Statuses == {"unverified", "reachable", "unreachable", "fingerprint_mismatch"}

TypeOK ==
  /\ srv \in [host : Hosts \union {None}, pin : Keys \union {None}, status : Statuses]
  /\ check \in [Jobs -> [pc : {"idle", "probe", "write"}, host : Hosts \union {None},
                         pin : Keys \union {None}, saw : Keys \union {None}]]
  /\ asked \in {"none", "queued", "running", "kept"}
  /\ machine \in [Hosts -> [key : Keys, up : BOOLEAN]]
  /\ edits \in 0 .. MaxEdits /\ changes \in 0 .. MaxChanges
  /\ crossed \in BOOLEAN

(* A host key that changed is "NEVER silently re-pinned": the pin stays    *)
(* until an edit resets it, however the two checks overlap.  Unless one of *)
(* them overlapped an edit, or both were first contacts.                   *)
NeverRepinned ==
  [][srv.pin # None => srv'.pin \in {srv.pin, None} \/ crossed']_vars

(* What the row says is what a check would say of the machine.             *)
StatusIsTrue ==
  LET m == machine[srv.host] IN
    /\ srv.status = Verdict(srv.pin, IF m.up THEN m.key ELSE None)
    /\ srv.status # "unverified"

(* Whatever was written late, the row comes to say the truth and goes on   *)
(* saying it, once nobody edits it and the machines stay as they are.      *)
SaysTheTruth == <>[](~Exists \/ StatusIsTrue)

=============================================================================
