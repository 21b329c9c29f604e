---------------------------- MODULE MobileSession ---------------------------
(***************************************************************************)
(* How the mobile app keeps its credentials: two tokens in the keychain,   *)
(* requests that may come back unauthorized, the one refresh they share,   *)
(* and launching, signing in and signing out beside them.                  *)
(*                                                                         *)
(* The server is what Sessions shows it to be, seen from one device: pairs *)
(* of tokens of which a refresh spends one and issues the next.            *)
(***************************************************************************)
EXTENDS Naturals, FiniteSets

CONSTANTS
  Requests, \* requests of screens, in flight at once
  Flow,     \* the request that launching, signing in or signing out sends
  MaxPairs, \* bound: pairs of tokens the server issues
  MaxFaults \* bound: answers lost and times the app is killed

VARIABLES
  status,  \* of the auth store
  jar,     \* the keychain: the pairs its two tokens are of, 0 for none
  flow,    \* what the auth store is doing
  req,     \* requests: what they wait for, and the access token they carry
  flight,  \* the refresh the requests share: refreshPromise
  pair,    \* at the server: how the refresh token of each pair stands
  fresh,   \* at the server: the pairs whose access token is accepted
  faults,  \* counter, for the bound
  lost,    \* history: pairs that were spent without the app hearing of it
  crossed  \* history: a flight was out while somebody signed in or out

vars == <<status, jar, flow, req, flight, pair, fresh, faults, lost, crossed>>

Pairs == 1 .. MaxPairs
All == Requests \union {Flow}
Empty == [access |-> 0, refresh |-> 0]
Of(p) == [access |-> p, refresh |-> p]
NoReq == [pc |-> "idle", tok |-> 0]
NoFlight == [pc |-> "none", tok |-> 0, got |-> 0]
NoFlow == [pc |-> "none", tok |-> 0]

Init ==
  /\ status = "loading"
  /\ jar \in {Empty, Of(1)}
  /\ flow = NoFlow
  /\ req = [r \in All |-> NoReq]
  /\ flight = NoFlight
  /\ pair = [p \in Pairs |-> IF p = jar.refresh THEN "live" ELSE "unborn"]
  /\ fresh = {jar.refresh} \ {0}
  /\ faults = 0
  /\ lost = {}
  /\ crossed = FALSE

Server == <<pair, fresh>>
History == <<faults, lost, crossed>>

Issued == {p \in Pairs : pair[p] # "unborn"}
NextPair == Cardinality(Issued) + 1

----------------------------------------------------------------------------
(* What the end of a request means to its sender.                          *)

Sends(r) == [pc |-> "sent", tok |-> jar.access]

(* Launching and signing out end in the login screen when their request    *)
(* fails; signing out also when it does not.                               *)
DropsCredentials(answered) ==
  flow.pc = "logout" \/ (flow.pc = "boot" /\ ~answered)

FlowEnds(answered) ==
  /\ flow' = NoFlow
  /\ IF DropsCredentials(answered) THEN jar' = Empty /\ status' = "out"
     ELSE jar' = jar /\ status' = IF answered THEN "in" ELSE status
  /\ crossed' = (crossed \/ (DropsCredentials(answered) /\ flight.pc # "none"))

Ends(r, answered) ==
  /\ req' = [req EXCEPT ![r] = NoReq]
  /\ IF r = Flow THEN FlowEnds(answered) ELSE UNCHANGED <<flow, jar, status, crossed>>

----------------------------------------------------------------------------
(* Requests and the interceptor.                                           *)

Send(r) ==
  /\ status = "in" /\ req[r] = NoReq /\ r # Flow
  /\ req' = [req EXCEPT ![r] = Sends(r)]
  /\ UNCHANGED <<status, jar, flow, flight, Server, History>>

(* A logout that is accepted ends the session of the token in its body,    *)
(* and the access token it came with.                                      *)
EndedBy(t) == IF pair[t] = "live" THEN {t} ELSE {p \in Pairs : p > t /\ pair[p] = "live"}
Answered(r) ==
  /\ req[r].pc \in {"sent", "resent"} /\ req[r].tok \in fresh
  /\ Ends(r, TRUE)
  /\ IF r = Flow /\ flow.pc = "logout" /\ flow.tok # 0
     THEN /\ pair' = [p \in Pairs |-> IF p \in EndedBy(flow.tok) THEN "over" ELSE pair[p]]
          /\ fresh' = fresh \ {req[r].tok}
     ELSE UNCHANGED Server
  /\ UNCHANGED <<flight, faults, lost>>

(* The first of them takes off, the others join it.                        *)
Unauthorized(r) ==
  /\ req[r].pc = "sent" /\ req[r].tok \notin fresh
  /\ req' = [req EXCEPT ![r].pc = "waits"]
  /\ flight' = IF flight.pc = "none" THEN [NoFlight EXCEPT !.pc = "read"] ELSE flight
  /\ crossed' = (crossed \/ flow.pc = "login")
  /\ UNCHANGED <<status, jar, flow, Server, faults, lost>>

(* Unauthorized again, or no answer.                                       *)
Rejected(r) ==
  /\ req[r].pc \in {"sent", "resent"}
  /\ Ends(r, FALSE)
  /\ UNCHANGED <<flight, Server, faults, lost>>

----------------------------------------------------------------------------
(* The refresh.                                                            *)

ReadToken ==
  /\ flight.pc = "read"
  /\ flight' = IF jar.refresh = 0 THEN [flight EXCEPT !.pc = "refused"]
               ELSE [flight EXCEPT !.pc = "post", !.tok = jar.refresh]
  /\ UNCHANGED <<status, jar, flow, req, Server, History>>

(* The server rotates; it answers a spent token with the pair after it, in *)
(* its time of grace.                                                      *)
ServerRotates ==
  /\ flight.pc = "post" /\ pair[flight.tok] = "live" /\ NextPair \in Pairs
  /\ pair' = [pair EXCEPT ![flight.tok] = "spent", ![NextPair] = "live"]
  /\ fresh' = fresh \union {NextPair}
  /\ flight' = [flight EXCEPT !.pc = "store", !.got = NextPair]
  /\ UNCHANGED <<status, jar, flow, req, History>>

ServerRepeats ==
  /\ flight.pc = "post" /\ pair[flight.tok] = "spent"
  /\ \E p \in Pairs :
       /\ p > flight.tok /\ pair[p] = "live"
       /\ flight' = [flight EXCEPT !.pc = "store", !.got = p]
       /\ fresh' = fresh \union {p}
  /\ UNCHANGED <<status, jar, flow, req, pair, History>>

ServerRefuses ==
  /\ flight.pc = "post" /\ pair[flight.tok] \in {"spent", "over"}
  /\ flight' = [flight EXCEPT !.pc = "refused"]
  /\ UNCHANGED <<status, jar, flow, req, Server, History>>

(* No answer: the server may have rotated all the same.                    *)
NoAnswer ==
  /\ flight.pc \in {"post", "store"} /\ faults < MaxFaults
  /\ faults' = faults + 1
  /\ lost' = IF flight.pc = "store" THEN lost \union {flight.tok} ELSE lost
  /\ flight' = [flight EXCEPT !.pc = "failed"]
  /\ UNCHANGED <<status, jar, flow, req, Server, crossed>>

StoresAccessOnly ==
  /\ flight.pc = "store"
  /\ jar' = [jar EXCEPT !.access = flight.got]
  /\ flight' = [flight EXCEPT !.pc = "landed"]
  /\ UNCHANGED <<status, flow, req, Server, History>>

SetTokens ==
  /\ flight.pc = "store"
  /\ jar' = Of(flight.got)
  /\ flight' = [flight EXCEPT !.pc = "landed"]
  /\ UNCHANGED <<status, flow, req, Server, History>>

(* Whatever is stored by now is attached over the token of the answer.     *)
Retried == IF jar.access # 0 THEN jar.access ELSE flight.got
Waiters == {r \in All : req[r].pc = "waits"}

Lands ==
  /\ flight.pc = "landed"
  /\ req' = [r \in All |-> IF r \in Waiters THEN [pc |-> "resent", tok |-> Retried] ELSE req[r]]
  /\ flight' = NoFlight
  /\ UNCHANGED <<status, jar, flow, Server, History>>

(* Nobody is retried; a launch or a sign-out goes on with its failure.     *)
Crashes(clears) ==
  /\ req' = [r \in All |-> IF r \in Waiters THEN NoReq ELSE req[r]]
  /\ flight' = NoFlight
  /\ flow' = IF Flow \in Waiters THEN NoFlow ELSE flow
  /\ IF clears \/ (Flow \in Waiters /\ DropsCredentials(FALSE))
     THEN jar' = Empty /\ status' = "out" ELSE UNCHANGED <<jar, status>>
  /\ UNCHANGED <<Server, History>>

TransientIsFatal == flight.pc = "failed" /\ Crashes(TRUE)
KeepsTokens == flight.pc = "failed" /\ Crashes(FALSE)
ClearsTokens == flight.pc = "refused" /\ Crashes(TRUE)

----------------------------------------------------------------------------
(* The auth store.                                                         *)

Bootstrap ==
  /\ status = "loading" /\ flow = NoFlow
  /\ IF jar.refresh = 0 THEN status' = "out" /\ UNCHANGED <<flow, req>>
     ELSE /\ flow' = [pc |-> "boot", tok |-> 0]
          /\ req' = [req EXCEPT ![Flow] = Sends(Flow)]
          /\ UNCHANGED status
  /\ UNCHANGED <<jar, flight, Server, History>>

(* The server issues a pair; the app stores it, then asks who it is.       *)
Login ==
  /\ status = "out" /\ flow = NoFlow /\ NextPair \in Pairs
  /\ pair' = [pair EXCEPT ![NextPair] = "live"]
  /\ fresh' = fresh \union {NextPair}
  /\ flow' = [pc |-> "login", tok |-> NextPair]
  /\ crossed' = (crossed \/ flight.pc # "none")
  /\ UNCHANGED <<status, jar, req, flight, faults, lost>>

SignIn ==
  /\ flow.pc = "login"
  /\ jar' = Of(flow.tok)
  /\ flow' = [flow EXCEPT !.pc = "me"]
  /\ req' = [req EXCEPT ![Flow] = [pc |-> "sent", tok |-> flow.tok]]
  /\ UNCHANGED <<status, flight, Server, History>>

SignOut ==
  /\ status = "in" /\ flow = NoFlow
  /\ flow' = [pc |-> "logout", tok |-> jar.refresh]
  /\ req' = [req EXCEPT ![Flow] = Sends(Flow)]
  /\ UNCHANGED <<status, jar, flight, Server, History>>

(* The app is killed, perhaps with one of two tokens stored, and launched. *)
Stored ==
  CASE flight.pc = "store" ->
         {jar, [jar EXCEPT !.access = flight.got], [jar EXCEPT !.refresh = flight.got]}
    [] flow.pc = "login" ->
         {jar, [jar EXCEPT !.access = flow.tok], [jar EXCEPT !.refresh = flow.tok]}
    [] OTHER -> {jar}

Killed ==
  /\ faults < MaxFaults
  /\ faults' = faults + 1
  /\ jar' \in Stored
  /\ lost' = IF flight.pc = "store" THEN lost \union {flight.tok} ELSE lost
  /\ status' = "loading" /\ flow' = NoFlow
  /\ req' = [r \in All |-> NoReq] /\ flight' = NoFlight
  /\ UNCHANGED <<Server, crossed>>

----------------------------------------------------------------------------
(* Time at the server.                                                     *)

AccessExpires ==
  /\ \E p \in fresh : fresh' = fresh \ {p}
  /\ UNCHANGED <<status, jar, flow, req, flight, pair, History>>

SessionEnds ==
  /\ \E p \in Pairs : pair[p] = "live" /\ pair' = [pair EXCEPT ![p] = "over"]
  /\ UNCHANGED <<status, jar, flow, req, flight, fresh, History>>

ServerRefresh == ServerRotates \/ ServerRepeats \/ ServerRefuses
Flies == ReadToken \/ ServerRefresh \/ SetTokens \/ Lands \/ KeepsTokens \/ ClearsTokens

Next ==
  \/ \E r \in All : Send(r) \/ Answered(r) \/ Unauthorized(r) \/ Rejected(r)
  \/ Flies \/ NoAnswer
  \/ Bootstrap \/ Login \/ SignIn \/ SignOut \/ Killed
  \/ AccessExpires \/ SessionEnds

Spec == Init /\ [][Next]_vars

----------------------------------------------------------------------------
(* Properties.                                                             *)

TypeOK ==
  /\ status \in {"loading", "in", "out"}
  /\ jar \in [access : 0 .. MaxPairs, refresh : 0 .. MaxPairs]
  /\ flow \in [pc : {"none", "boot", "login", "me", "logout"}, tok : 0 .. MaxPairs]
  /\ req \in [All -> [pc : {"idle", "sent", "waits", "resent"}, tok : 0 .. MaxPairs]]
  /\ flight \in [pc : {"none", "read", "post", "store", "landed", "refused", "failed"},
                 tok : 0 .. MaxPairs, got : 0 .. MaxPairs]
  /\ pair \in [Pairs -> {"unborn", "live", "spent", "over"}]
  /\ fresh \subseteq Pairs /\ lost \subseteq Pairs
  /\ faults \in 0 .. MaxFaults
  /\ crossed \in BOOLEAN

(* However many requests come back unauthorized at once, the app does not  *)
(* present a token it has spent, unless the answer never reached it: it    *)
(* does not depend on the server's time of grace.                          *)
NeverSpentTwice ==
  flight.pc = "post" /\ pair[flight.tok] = "spent" => flight.tok \in lost \/ crossed

(* Stored credentials that still work go with a sign-out or a launch that  *)
(* failed, not with a transient failure.                                   *)
KeepsCredentials ==
  [][jar.refresh # 0 /\ pair[jar.refresh] = "live" /\ jar' = Empty =>
       \/ flow.pc \in {"logout", "boot"} /\ flow'.pc = "none"
       \/ crossed]_vars

----------------------------------------------------------------------------
(* What the code does not keep: TLC refutes it, see README, section 4.     *)

(* "Only then may stored credentials be destroyed": the server rejected    *)
(* the token, or somebody signed out.                                      *)
OnlyThenDestroyed ==
  [][jar.refresh # 0 /\ jar' = Empty =>
       flow.pc = "logout" \/ flight.pc = "refused" \/ pair[jar.refresh] # "live"]_vars

=============================================================================
