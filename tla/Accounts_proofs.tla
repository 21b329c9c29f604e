---------------------------- MODULE Accounts_proofs ----------------------------
(***************************************************************************)
(* For any number of people, organizations, invitations and requests: the  *)
(* foreign keys hold, an invitation makes one membership at most and the   *)
(* one it offered, and nobody is left an account without organization by   *)
(* removals that overlap.                                                  *)
(***************************************************************************)
EXTENDS Accounts, FiniteSetTheorems, TLAPS

----------------------------------------------------------------------------
(* The inductive invariant.                                                *)

InviteRow == [st : InviteStatuses, org : Orgs, email : People,
              role : Roles, expired : BOOLEAN]

Typed ==
  /\ org \in [Orgs -> {"none", "live", "gone"}]
  /\ alive \subseteq People
  /\ births \in [People -> 0 .. MaxBirths]
  /\ role \in [Orgs -> [People -> Roles \cup {NoRole}]]
  /\ pinned \in [Orgs -> SUBSET People]
  /\ joins \in [Invites -> Nat]
  /\ left \subseteq People
  /\ req \in [Requests -> Request]
  /\ served \in 0 .. MaxRequests /\ deaths \in 0 .. MaxDeaths

InvitesTyped == inv \in [Invites -> InviteRow]

ForeignKeys ==
  /\ \A o \in Orgs, p \in People : Member(o, p) => p \in alive /\ org[o] = "live"
  /\ \A o \in Orgs : pinned[o] \subseteq alive

(* A request that redeems an invitation carries what its row offers; the   *)
(* account it is for is checked against the row before anything is spent.  *)
Carries(r) ==
  IF r.op \in {"signup", "join"}
  THEN /\ r.inv \in Invites /\ inv[r.inv].st # "none"
       /\ r.org = inv[r.inv].org /\ r.role = inv[r.inv].role
       /\ r.op = "signup" \/ r.pc # "whoami" => r.who = inv[r.inv].email
  ELSE r.inv = NoOne
Presented == \A q \in Requests : Carries(req[q])

(* SingleUse, without counting: who holds an invitation has consumed it,   *)
(* is alone in that, and is the one who will make its membership.          *)
Holds(q, i) == req[q].inv = i /\ req[q].pc = "write"
SpentOnce ==
  \A i \in Invites :
    /\ joins[i] \in {0, 1}
    /\ \A q \in Requests : Holds(q, i) => joins[i] = 0 /\ \A w \in Requests : Holds(w, i) => w = q
    /\ inv[i].st \notin {"accepted", "gone"} => joins[i] = 0 /\ \A q \in Requests : ~Holds(q, i)

IInv == Typed /\ InvitesTyped /\ ForeignKeys /\ Presented /\ SpentOnce /\ NobodyStranded

----------------------------------------------------------------------------
(* Constants and records.                                                  *)

LEMMA Constants ==
  /\ Founder \in People /\ Home \in Orgs /\ NoOne \notin Invites
  /\ "OWNER" \in Roles /\ "MEMBER" \in Roles /\ NoRole \notin Roles
  /\ MaxBirths \in Nat /\ MaxRequests \in Nat /\ MaxDeaths \in Nat /\ 0 < MaxBirths
  /\ Settled \subseteq People
BY AccountsAssumption DEF NoRole

LEMMA IdleFits ==
  /\ Idle \in Request /\ Idle.op = "idle" /\ Idle.pc = "start" /\ Idle.inv = NoOne
  /\ Carries(Idle)
BY Constants DEF Idle, Request, Operations, Steps, InviteStatuses, Carries

LEMMA NoInviteFits ==
  NoInvite \in InviteRow /\ NoInvite.st = "none"
BY Constants DEF NoInvite, InviteRow, InviteStatuses

LEMMA Starts == Init => IInv
<1> SUFFICES ASSUME Init PROVE IInv
  OBVIOUS
<1> USE Constants, IdleFits, NoInviteFits
<1>1. Typed
  BY DEF Init, Typed
<1>2. InvitesTyped
  BY DEF Init, InvitesTyped
<1>3. ForeignKeys
  BY DEF Init, ForeignKeys, Member, NoRole
<1>4. Presented
  BY DEF Init, Presented
<1>5. SpentOnce
  BY DEF Init, SpentOnce, Holds
<1>6. NobodyStranded
  BY DEF Init, NobodyStranded, Belongs, Member, NoRole
<1> QED
  BY <1>1, <1>2, <1>3, <1>4, <1>5, <1>6 DEF IInv

----------------------------------------------------------------------------
(* What the steps have in common.                                          *)

(* A step of one request that leaves the rows alone: it takes nothing it   *)
(* could spend later, and a removal goes on or meets another membership.   *)
GoesOn(q, r) ==
  \/ ~Removing(q)
  \/ Belongs(req[q].who)
  \/ /\ r.op = "remove" /\ r.pc \in {"count", "drop"}
     /\ r.who = req[q].who /\ r.uid = req[q].uid

Moves(q, r) ==
  /\ r \in Request /\ Carries(r) /\ GoesOn(q, r)
  /\ r.inv \in Invites => r.pc # "write"
  /\ req' = [req EXCEPT ![q] = r]

Rows == <<org, alive, births, role, pinned, inv, joins, left>>

LEMMA MovesKeep ==
  ASSUME IInv, NEW q \in Requests, NEW r, Moves(q, r), UNCHANGED Rows,
         served' \in 0 .. MaxRequests, deaths' \in 0 .. MaxDeaths
  PROVE  IInv'
<1> USE DEF IInv
<1>0. /\ req' = [req EXCEPT ![q] = r] /\ r \in Request /\ UNCHANGED Rows
      /\ req \in [Requests -> Request]
  BY DEF Moves, Typed
<1>1. Typed'
  BY <1>0 DEF Typed, Rows
<1>2. InvitesTyped'
  BY <1>0 DEF InvitesTyped, Rows
<1>3. ForeignKeys'
  BY <1>0 DEF ForeignKeys, Rows, Member
<1>4. Presented'
  BY <1>0 DEF Moves, Presented, Carries, Rows
<1>5. SpentOnce'
  BY <1>0 DEF Moves, SpentOnce, Holds, Rows
<1>6. NobodyStranded'
  <2> SUFFICES ASSUME NEW p \in alive
               PROVE  \/ Belongs(p) \/ p \in left
                      \/ \E w \in Requests : Removing(w)' /\ req'[w].who = p /\ req'[w].uid = births[p]
    BY <1>0 DEF NobodyStranded, Rows, Belongs, Member
  <2>1. ASSUME NEW w \in Requests, Removing(w), req[w].who = p, req[w].uid = births[p], ~Belongs(p)
        PROVE  Removing(w)' /\ req'[w].who = p /\ req'[w].uid = births[p]
    BY <1>0, <2>1 DEF Moves, GoesOn, Removing
  <2> QED
    BY <2>1 DEF NobodyStranded
<1> QED
  BY <1>1, <1>2, <1>3, <1>4, <1>5, <1>6

(* Requests that come in carry no invitation, or one they have yet to win. *)
LEMMA StartKeeps ==
  ASSUME IInv, NEW q \in Requests, NEW r \in Request, Carries(r), Start(q, r),
         r.inv \in Invites => r.pc # "write",
         UNCHANGED <<Rows, deaths>>
  PROVE  IInv'
<1>1. /\ req' = [req EXCEPT ![q] = r] /\ served' \in 0 .. MaxRequests /\ deaths' \in 0 .. MaxDeaths
      /\ ~Removing(q) /\ UNCHANGED Rows
  BY Constants DEF Start, IsIdle, IInv, Typed, Removing
<1>2. Moves(q, r)
  BY <1>1 DEF Moves, GoesOn
<1> QED
  BY <1>1, <1>2, MovesKeep

LEMMA InviteKeeps == ASSUME IInv, NEW q \in Requests, Invite(q) PROVE IInv'
<1>1. PICK o \in Orgs, p \in People, r \in Roles :
        Start(q, [Idle EXCEPT !.op = "invite", !.pc = "supersede",
                              !.org = o, !.who = p, !.role = r])
  BY DEF Invite
<1> DEFINE g == [Idle EXCEPT !.op = "invite", !.pc = "supersede",
                             !.org = o, !.who = p, !.role = r]
<1>2. g \in Request /\ Carries(g) /\ g.pc # "write"
  BY IdleFits DEF Request, Operations, Steps, Carries
<1> QED
  BY <1>1, <1>2, StartKeeps DEF Invite, Rows

LEMMA OpenSignupKeeps == ASSUME IInv, NEW q \in Requests, OpenSignup(q) PROVE IInv'
<1>1. PICK i \in Invites :
        /\ Found(i)
        /\ Start(q, [Idle EXCEPT !.op = "signup", !.pc = "lookup", !.org = inv[i].org,
                       !.who = inv[i].email, !.role = inv[i].role, !.inv = i])
  BY DEF OpenSignup
<1> DEFINE g == [Idle EXCEPT !.op = "signup", !.pc = "lookup", !.org = inv[i].org,
                   !.who = inv[i].email, !.role = inv[i].role, !.inv = i]
<1>2. inv[i] \in InviteRow /\ inv[i].st # "none"
  BY <1>1 DEF IInv, InvitesTyped, Found
<1>3. g \in Request /\ Carries(g) /\ g.pc # "write"
  BY <1>2, IdleFits DEF Request, InviteRow, Operations, Steps, Carries
<1> QED
  BY <1>1, <1>3, StartKeeps DEF OpenSignup, Rows

LEMMA OpenJoinKeeps == ASSUME IInv, NEW q \in Requests, OpenJoin(q) PROVE IInv'
<1>1. PICK i \in Invites, p \in alive :
        /\ Found(i)
        /\ Start(q, [op |-> "join", pc |-> "whoami", org |-> inv[i].org, who |-> p,
                     uid |-> births[p], role |-> inv[i].role, inv |-> i, seen |-> inv[i].st])
  BY DEF OpenJoin
<1> DEFINE g == [op |-> "join", pc |-> "whoami", org |-> inv[i].org, who |-> p,
                 uid |-> births[p], role |-> inv[i].role, inv |-> i, seen |-> inv[i].st]
<1>2. inv[i] \in InviteRow /\ inv[i].st # "none" /\ p \in People /\ births[p] \in 0 .. MaxBirths
  BY <1>1 DEF IInv, Typed, InvitesTyped, Found
<1>3. g \in Request /\ Carries(g) /\ g.pc # "write"
  BY <1>2 DEF Request, InviteRow, Operations, Steps, Carries
<1> QED
  BY <1>1, <1>3, StartKeeps DEF OpenJoin, Rows

LEMMA CreateUserKeeps == ASSUME IInv, NEW q \in Requests, CreateUser(q) PROVE IInv'
<1>1. PICK o \in Orgs, p \in People, r \in Roles :
        Start(q, [Idle EXCEPT !.op = "create", !.pc = "write", !.org = o, !.who = p, !.role = r])
  BY DEF CreateUser
<1> DEFINE g == [Idle EXCEPT !.op = "create", !.pc = "write", !.org = o, !.who = p, !.role = r]
<1>2. g \in Request /\ Carries(g) /\ g.inv \notin Invites
  BY IdleFits, Constants DEF Request, Operations, Steps, Carries
<1> QED
  BY <1>1, <1>2, StartKeeps DEF CreateUser, Rows

LEMMA RegisterKeeps == ASSUME IInv, NEW q \in Requests, Register(q) PROVE IInv'
<1>1. PICK p \in People : Start(q, [Idle EXCEPT !.op = "register", !.pc = "write", !.who = p])
  BY DEF Register
<1> DEFINE g == [Idle EXCEPT !.op = "register", !.pc = "write", !.who = p]
<1>2. g \in Request /\ Carries(g) /\ g.inv \notin Invites
  BY IdleFits, Constants DEF Request, Operations, Steps, Carries
<1> QED
  BY <1>1, <1>2, StartKeeps DEF Register, Rows

LEMMA UpdateUserKeeps == ASSUME IInv, NEW q \in Requests, UpdateUser(q) PROVE IInv'
<1>1. PICK o \in Orgs, p \in alive, r \in Roles :
        Start(q, [Idle EXCEPT !.op = "role", !.pc = "write", !.org = o,
                              !.who = p, !.uid = births[p], !.role = r])
  BY DEF UpdateUser
<1> DEFINE g == [Idle EXCEPT !.op = "role", !.pc = "write", !.org = o,
                             !.who = p, !.uid = births[p], !.role = r]
<1>2. p \in People /\ births[p] \in 0 .. MaxBirths
  BY DEF IInv, Typed
<1>3. g \in Request /\ Carries(g) /\ g.inv \notin Invites
  BY <1>2, IdleFits, Constants DEF Request, Operations, Steps, Carries
<1> QED
  BY <1>1, <1>3, StartKeeps DEF UpdateUser, Rows

LEMMA RemoveUserKeeps == ASSUME IInv, NEW q \in Requests, RemoveUser(q) PROVE IInv'
<1>1. PICK o \in Orgs, p \in alive :
        Start(q, [Idle EXCEPT !.op = "remove", !.pc = "delete", !.org = o,
                              !.who = p, !.uid = births[p]])
  BY DEF RemoveUser
<1> DEFINE g == [Idle EXCEPT !.op = "remove", !.pc = "delete", !.org = o,
                             !.who = p, !.uid = births[p]]
<1>2. p \in People /\ births[p] \in 0 .. MaxBirths
  BY DEF IInv, Typed
<1>3. g \in Request /\ Carries(g) /\ g.pc # "write"
  BY <1>2, IdleFits DEF Request, Operations, Steps, Carries
<1> QED
  BY <1>1, <1>3, StartKeeps DEF RemoveUser, Rows

----------------------------------------------------------------------------
(* Steps of a request that only read.                                      *)

LEMMA ReadKeeps ==
  ASSUME IInv, NEW q \in Requests, NEW r \in Request, Carries(r), GoesOn(q, r),
         r.inv \in Invites => r.pc # "write",
         req' = [req EXCEPT ![q] = r],
         UNCHANGED <<Rows, served, deaths>>
  PROVE  IInv'
<1>1. /\ UNCHANGED Rows /\ served' \in 0 .. MaxRequests /\ deaths' \in 0 .. MaxDeaths
  BY DEF IInv, Typed
<1>2. Moves(q, r)
  BY DEF Moves
<1> QED
  BY <1>1, <1>2, MovesKeep

LEMMA LookupKeeps == 
  ASSUME IInv, NEW q \in Requests, LookupSignup(q) \/ Recognise(q) \/ CheckMember(q) \/ CountOrgs(q)
  PROVE  IInv'
<1>0. req[q] \in Request /\ Carries(req[q]) /\ req \in [Requests -> Request]
  BY DEF IInv, Typed, Presented
<1>1. UNCHANGED <<Rows, served, deaths>>
  BY DEF LookupSignup, Recognise, CheckMember, CountOrgs, Rows
<1>2. CASE Done(q) /\ (~Removing(q) \/ Belongs(req[q].who))
  <2>1. req' = [req EXCEPT ![q] = Idle] /\ GoesOn(q, Idle) /\ Idle.inv \notin Invites
    BY <1>2, IdleFits, Constants DEF Done, GoesOn
  <2> QED
    BY <1>1, <2>1, IdleFits, ReadKeeps
<1>3. ASSUME NEW pc \in Steps, Goto(q, pc), 
             Removing(q) => pc = "drop",
             pc # "write",
             req[q].op = "join" /\ req[q].pc = "whoami" => req[q].who = inv[req[q].inv].email
      PROVE  IInv'
  <2> DEFINE g == [req[q] EXCEPT !.pc = pc]
  <2>1. req' = [req EXCEPT ![q] = g] /\ g \in Request /\ g.pc = pc
    BY <1>0, <1>3 DEF Goto, Request
  <2>2. Carries(g)
    BY <1>0, <1>3 DEF Carries, Request
  <2>3. GoesOn(q, g)
    BY <1>0, <1>3 DEF GoesOn, Removing, Request
  <2> HIDE DEF g
  <2> QED
    BY <1>1, <1>3, <2>1, <2>2, <2>3, ReadKeeps
<1>4. CASE LookupSignup(q)
  BY <1>2, <1>3, <1>4 DEF LookupSignup, At, Removing, Steps
<1>5. CASE Recognise(q)
  BY <1>2, <1>3, <1>5 DEF Recognise, At, Removing, Steps
<1>6. CASE CheckMember(q)
  BY <1>2, <1>3, <1>6 DEF CheckMember, At, Removing, Steps
<1>7. CASE CountOrgs(q)
  BY <1>2, <1>3, <1>7 DEF CountOrgs, At, Removing, Steps
<1> QED
  BY <1>4, <1>5, <1>6, <1>7

(* A request dies: a removal that has taken the last membership leaves the *)
(* account behind, and history says so.                                    *)
LEMMA DieKeeps == ASSUME IInv, NEW q \in Requests, Die(q) PROVE IInv'
<1> USE DEF IInv
<1>0. /\ req' = [req EXCEPT ![q] = Idle] /\ req \in [Requests -> Request]
      /\ UNCHANGED <<org, alive, births, role, pinned, inv, joins, served>>
      /\ left \subseteq left' /\ left' \subseteq left \cup {req[q].who}
      /\ req[q].who \in People
  BY DEF Die, Done, Typed, Request
<1>1. Typed'
  BY <1>0, IdleFits, Constants DEF Die, Typed
<1>2. InvitesTyped'
  BY <1>0 DEF InvitesTyped
<1>3. ForeignKeys'
  BY <1>0 DEF ForeignKeys, Member
<1>4. Presented'
  BY <1>0, IdleFits DEF Presented, Carries
<1>5. SpentOnce'
  BY <1>0, IdleFits, Constants DEF SpentOnce, Holds
<1>6. NobodyStranded'
  <2> SUFFICES ASSUME NEW p \in alive, ~Belongs(p), p \notin left'
               PROVE  \E w \in Requests : Removing(w)' /\ req'[w].who = p /\ req'[w].uid = births[p]
    BY <1>0 DEF NobodyStranded, Belongs, Member
  <2>1. PICK w \in Requests : Removing(w) /\ req[w].who = p /\ req[w].uid = births[p]
    BY <1>0 DEF NobodyStranded
  <2>2. w # q
    BY <2>1 DEF Die
  <2> QED
    BY <1>0, <2>1, <2>2 DEF Removing
<1> QED
  BY <1>1, <1>2, <1>3, <1>4, <1>5, <1>6

----------------------------------------------------------------------------
(* Steps that make memberships.                                            *)

(* Who becomes a member of a living organization, or is made an account    *)
(* with its first membership, is not stranded, and the foreign keys hold.  *)
Joins(o, p, r) ==
  /\ o \in Orgs /\ p \in People /\ r \in Roles
  /\ alive' = alive \cup {p}
  /\ births' \in [People -> 0 .. MaxBirths] /\ \A w \in People \ {p} : births'[w] = births[w]
  /\ role' = [role EXCEPT ![o][p] = r]
  /\ left' = left \ {p}
  /\ org'[o] = "live" /\ org' \in [Orgs -> {"none", "live", "gone"}]
  /\ \A w \in Orgs \ {o} : org'[w] = org[w]
  /\ pinned' \in [Orgs -> SUBSET People]
  /\ pinned'[o] \subseteq pinned[o] \cup {p} /\ \A w \in Orgs \ {o} : pinned'[w] = pinned[w]

(* Removals under way stay, except for those of p.                         *)
RemovalsStay(p) ==
  \A w \in Requests : Removing(w) /\ req[w].who # p =>
    Removing(w)' /\ req'[w].who = req[w].who /\ req'[w].uid = req[w].uid

LEMMA JoinsKeep ==
  ASSUME IInv, NEW o, NEW p, NEW r, Joins(o, p, r), RemovalsStay(p)
  PROVE  /\ ForeignKeys' /\ NobodyStranded'
         /\ alive' \subseteq People /\ left' \subseteq People
         /\ role' \in [Orgs -> [People -> Roles \cup {NoRole}]]
<1> USE DEF IInv, Joins
<1>1. /\ alive' \subseteq People /\ left' \subseteq People
      /\ role' \in [Orgs -> [People -> Roles \cup {NoRole}]]
  BY DEF Typed
<1>2. \A w \in Orgs, x \in People :
        role'[w][x] = IF w = o /\ x = p THEN r ELSE role[w][x]
  BY DEF Typed
<1>3. ForeignKeys'
  BY <1>2, Constants DEF ForeignKeys, Member
<1>4. NobodyStranded'
  <2> SUFFICES ASSUME NEW x \in alive', ~Belongs(x)', x \notin left'
               PROVE  \E w \in Requests : Removing(w)' /\ req'[w].who = x /\ req'[w].uid = births'[x]
    BY DEF NobodyStranded
  <2>1. x # p /\ x \in alive /\ x \in People
    BY <1>1, <1>2, Constants DEF Belongs, Member
  <2>2. ~Belongs(x) /\ x \notin left
    BY <1>2, <2>1 DEF Belongs, Member
  <2>3. PICK w \in Requests : Removing(w) /\ req[w].who = x /\ req[w].uid = births[x]
    BY <2>1, <2>2 DEF NobodyStranded
  <2>4. Removing(w)' /\ req'[w].who = x /\ req'[w].uid = births'[x]
    BY <2>1, <2>3 DEF RemovalsStay
  <2> QED
    BY <2>4
<1> QED
  BY <1>1, <1>3, <1>4

LEMMA DoneStays ==
  ASSUME IInv, NEW q \in Requests, Done(q)
  PROVE  /\ req' = [req EXCEPT ![q] = Idle] /\ req' \in [Requests -> Request]
         /\ ~Removing(q) => \A p \in People : RemovalsStay(p)
         /\ RemovalsStay(req[q].who)
<1>1. req' = [req EXCEPT ![q] = Idle] /\ req \in [Requests -> Request]
  BY DEF Done, IInv, Typed
<1> QED
  BY <1>1, IdleFits DEF RemovalsStay, Removing

(* Its request is over; a request that made a membership of an invitation  *)
(* held it.                                                                *)
LEMMA DoneKeeps ==
  ASSUME IInv, NEW q \in Requests, Done(q), UNCHANGED inv,
         \/ UNCHANGED joins
         \/ /\ req[q].inv \in Invites /\ req[q].pc = "write"
            /\ joins' = [joins EXCEPT ![req[q].inv] = @ + 1]
  PROVE  InvitesTyped' /\ Presented' /\ SpentOnce' /\ joins' \in [Invites -> Nat]
<1> USE DEF IInv
<1>1. /\ req' = [req EXCEPT ![q] = Idle] /\ req \in [Requests -> Request]
      /\ joins \in [Invites -> Nat]
  BY DoneStays DEF Typed
<1>2. InvitesTyped' /\ joins' \in [Invites -> Nat]
  BY <1>1 DEF InvitesTyped
<1>3. Presented'
  BY <1>1, IdleFits DEF Presented, Carries
<1>4. SpentOnce'
  <2>1. CASE UNCHANGED joins
    BY <1>1, <2>1, IdleFits, Constants DEF SpentOnce, Holds
  <2>2. CASE /\ req[q].inv \in Invites /\ req[q].pc = "write"
             /\ joins' = [joins EXCEPT ![req[q].inv] = @ + 1]
    BY <1>1, <2>2, IdleFits, Constants DEF SpentOnce, Holds
  <2> QED
    BY <2>1, <2>2
<1> QED
  BY <1>2, <1>3, <1>4

LEMMA AccountMade ==
  ASSUME IInv, NEW o \in Orgs, NEW p \in People, NEW r \in Roles, Birth(p, o, r)
  PROVE  /\ alive' = alive \cup {p} /\ left' = left \ {p}
         /\ births' \in [People -> 0 .. MaxBirths] /\ \A w \in People \ {p} : births'[w] = births[w]
         /\ role' = [role EXCEPT ![o][p] = r]
<1>1. births \in [People -> 0 .. MaxBirths]
  BY DEF IInv, Typed
<1>2. births' = [births EXCEPT ![p] = @ + 1] /\ births[p] < MaxBirths
  BY DEF Birth
<1>3. births' \in [People -> 0 .. MaxBirths] /\ \A w \in People \ {p} : births'[w] = births[w]
  BY <1>1, <1>2, Constants
<1> QED
  BY <1>3 DEF Birth

(* A request whose write takes no place ends, and nothing else happens.    *)
LEMMA NothingWritten ==
  ASSUME IInv, NEW q \in Requests, Done(q), ~Removing(q),
         UNCHANGED <<Rows, served, deaths>>
  PROVE  IInv'
<1>1. req' = [req EXCEPT ![q] = Idle]
  BY DEF Done
<1> QED
  BY <1>1, IdleFits, Constants, ReadKeeps DEF GoesOn

(* A request that made a membership and is over.                           *)
LEMMA MembershipMade ==
  ASSUME IInv, NEW q \in Requests, Done(q), ~Removing(q), UNCHANGED <<inv, served, deaths>>,
         NEW o, NEW p, NEW r, Joins(o, p, r),
         \/ UNCHANGED joins
         \/ /\ req[q].inv \in Invites /\ req[q].pc = "write"
            /\ joins' = [joins EXCEPT ![req[q].inv] = @ + 1]
  PROVE  IInv'
<1>1. RemovalsStay(p) /\ req' \in [Requests -> Request]
  BY DoneStays DEF Joins
<1>2. ForeignKeys' /\ NobodyStranded' /\ alive' \subseteq People /\ left' \subseteq People
      /\ role' \in [Orgs -> [People -> Roles \cup {NoRole}]]
  BY <1>1, JoinsKeep
<1>3. InvitesTyped' /\ Presented' /\ SpentOnce' /\ joins' \in [Invites -> Nat]
  BY DoneKeeps
<1>4. Typed'
  BY <1>1, <1>2, <1>3 DEF Typed, Joins, IInv
<1> QED
  BY <1>2, <1>3, <1>4 DEF IInv

LEMMA SignupAccountKeeps == ASSUME IInv, NEW q \in Requests, SignupAccount(q) PROVE IInv'
<1>0. /\ req[q] \in Request /\ Carries(req[q]) /\ Done(q) /\ ~Removing(q)
      /\ req[q].op = "signup" /\ req[q].pc = "write"
      /\ UNCHANGED <<org, pinned, inv, served, deaths>>
  BY DEF SignupAccount, IInv, Typed, Presented, Removing, At
<1> DEFINE o == req[q].org  p == req[q].who
<1>1. o \in Orgs /\ p \in People /\ req[q].role \in Roles /\ req[q].inv \in Invites
  BY <1>0 DEF Request, Carries
<1>2. CASE ~CanBirth(p, o)
  BY <1>0, <1>2, NothingWritten DEF SignupAccount, Rows
<1>3. CASE CanBirth(p, o)
  <2>1. Birth(p, o, req[q].role) /\ joins' = [joins EXCEPT ![req[q].inv] = @ + 1]
    BY <1>3 DEF SignupAccount
  <2>2. Joins(o, p, req[q].role)
    <3>1. /\ alive' = alive \cup {p} /\ left' = left \ {p}
          /\ births' \in [People -> 0 .. MaxBirths]
          /\ \A w \in People \ {p} : births'[w] = births[w]
          /\ role' = [role EXCEPT ![o][p] = req[q].role]
      BY <1>1, <2>1, AccountMade
    <3>2. org[o] = "live" /\ UNCHANGED <<org, pinned>>
      BY <1>0, <1>3 DEF CanBirth
    <3>3. org \in [Orgs -> {"none", "live", "gone"}] /\ pinned \in [Orgs -> SUBSET People]
      BY DEF IInv, Typed
    <3> HIDE DEF o, p
    <3> QED
      BY <1>1, <3>1, <3>2, <3>3 DEF Joins
  <2> QED
    BY <1>0, <1>1, <2>1, <2>2, MembershipMade
<1> QED
  BY <1>2, <1>3

LEMMA AddMembershipKeeps == ASSUME IInv, NEW q \in Requests, AddMembership(q) PROVE IInv'
<1>0. /\ req[q] \in Request /\ Carries(req[q]) /\ Done(q) /\ ~Removing(q)
      /\ req[q].op = "join" /\ req[q].pc = "write"
      /\ UNCHANGED <<org, alive, births, pinned, inv, served, deaths>>
  BY DEF AddMembership, IInv, Typed, Presented, Removing, At
<1> DEFINE o == req[q].org  p == req[q].who
<1>1. o \in Orgs /\ p \in People /\ req[q].role \in Roles /\ req[q].inv \in Invites
  BY <1>0 DEF Request, Carries
<1>2. CASE UNCHANGED <<role, joins, left>>
  BY <1>0, <1>2, NothingWritten DEF Rows
<1>3. CASE /\ Row(p, req[q].uid) /\ org[o] = "live"
           /\ role' = [role EXCEPT ![o][p] = req[q].role]
           /\ joins' = [joins EXCEPT ![req[q].inv] = @ + 1]
           /\ left' = left \ {p}
  <2>2. Joins(o, p, req[q].role)
    BY <1>0, <1>1, <1>3 DEF Joins, Row, IInv, Typed
  <2> QED
    BY <1>0, <1>1, <1>3, <2>2, MembershipMade
<1> QED
  BY <1>2, <1>3 DEF AddMembership

LEMMA InsertUserKeeps == ASSUME IInv, NEW q \in Requests, InsertUser(q) PROVE IInv'
<1>0. /\ req[q] \in Request /\ Done(q) /\ ~Removing(q)
      /\ UNCHANGED <<org, pinned, inv, joins, served, deaths>>
  BY DEF InsertUser, IInv, Typed, Removing, At
<1> DEFINE o == req[q].org  p == req[q].who
<1>1. o \in Orgs /\ p \in People /\ req[q].role \in Roles
  BY <1>0 DEF Request
<1>2. CASE ~CanBirth(p, o)
  BY <1>0, <1>2, NothingWritten DEF InsertUser, Rows
<1>3. CASE CanBirth(p, o)
  <2>1. Birth(p, o, req[q].role)
    BY <1>3 DEF InsertUser
  <2>2. Joins(o, p, req[q].role)
    <3>1. /\ alive' = alive \cup {p} /\ left' = left \ {p}
          /\ births' \in [People -> 0 .. MaxBirths]
          /\ \A w \in People \ {p} : births'[w] = births[w]
          /\ role' = [role EXCEPT ![o][p] = req[q].role]
      BY <1>1, <2>1, AccountMade
    <3>2. org[o] = "live" /\ UNCHANGED <<org, pinned>>
      BY <1>0, <1>3 DEF CanBirth
    <3>3. org \in [Orgs -> {"none", "live", "gone"}] /\ pinned \in [Orgs -> SUBSET People]
      BY DEF IInv, Typed
    <3> HIDE DEF o, p
    <3> QED
      BY <1>1, <3>1, <3>2, <3>3 DEF Joins
  <2> QED
    BY <1>0, <1>1, <2>2, MembershipMade
<1> QED
  BY <1>2, <1>3

LEMMA InsertRegisteredKeeps == ASSUME IInv, NEW q \in Requests, InsertRegistered(q) PROVE IInv'
<1>0. /\ req[q] \in Request /\ Done(q) /\ ~Removing(q)
      /\ UNCHANGED <<inv, joins, served, deaths>>
  BY DEF InsertRegistered, IInv, Typed, Removing, At
<1> DEFINE p == req[q].who
<1>1. p \in People
  BY <1>0 DEF Request
<1>2. CASE UNCHANGED <<org, pinned, alive, births, role, left>>
  BY <1>0, <1>2, NothingWritten DEF Rows
<1>3. ASSUME NEW o \in Orgs, Birth(p, o, "OWNER"),
             org' = [org EXCEPT ![o] = "live"], pinned' = [pinned EXCEPT ![o] = {p}]
      PROVE  IInv'
  <2>2. Joins(o, p, "OWNER")
    BY <1>0, <1>1, <1>3, AccountMade, Constants DEF Joins, IInv, Typed
  <2> QED
    BY <1>0, <1>1, <2>2, MembershipMade
<1> QED
  BY <1>2, <1>3 DEF InsertRegistered

LEMMA CreateOrgKeeps == ASSUME IInv, CreateOrg PROVE IInv'
<1>0. /\ UNCHANGED <<alive, births, inv, joins, req, served, deaths>> /\ alive \subseteq People
  BY DEF CreateOrg, IInv, Typed
<1>1. PICK o \in Orgs, p \in alive :
        /\ org' = [org EXCEPT ![o] = "live"] /\ pinned' = [pinned EXCEPT ![o] = {p}]
        /\ role' = [role EXCEPT ![o][p] = "OWNER"] /\ left' = left \ {p}
  BY DEF CreateOrg
<1>2. Joins(o, p, "OWNER")
  BY <1>0, <1>1, Constants DEF Joins, IInv, Typed
<1>3. RemovalsStay(p)
  BY <1>0 DEF RemovalsStay, Removing
<1>4. ForeignKeys' /\ NobodyStranded' /\ alive' \subseteq People /\ left' \subseteq People
      /\ role' \in [Orgs -> [People -> Roles \cup {NoRole}]]
  BY <1>2, <1>3, JoinsKeep
<1>5. InvitesTyped' /\ Presented' /\ SpentOnce'
  BY <1>0 DEF InvitesTyped, Presented, Carries, SpentOnce, Holds, IInv
<1>6. Typed'
  BY <1>0, <1>2, <1>4 DEF Typed, Joins, IInv
<1> QED
  BY <1>4, <1>5, <1>6 DEF IInv

----------------------------------------------------------------------------
(* Steps that change invitations: a row that is there keeps what it offers.*)

Accounts == <<org, alive, births, role, pinned, left>>

OffersStay ==
  /\ InvitesTyped'
  /\ \A i \in Invites : inv[i].st # "none" =>
       /\ inv'[i].st # "none" /\ inv'[i].org = inv[i].org
       /\ inv'[i].email = inv[i].email /\ inv'[i].role = inv[i].role

LEMMA OffersStayKeeps ==
  ASSUME IInv, OffersStay, UNCHANGED Accounts, SpentOnce',
         joins' \in [Invites -> Nat], served' \in 0 .. MaxRequests, deaths' \in 0 .. MaxDeaths,
         \/ UNCHANGED req
         \/ \E q \in Requests : \E r \in Request :
              req' = [req EXCEPT ![q] = r] /\ ~Removing(q) /\ Carries(r)
  PROVE  IInv'
<1> USE DEF IInv
<1>0. req \in [Requests -> Request] /\ UNCHANGED Accounts
  BY DEF Typed
<1>1. req' \in [Requests -> Request]
  BY <1>0
<1>2. Typed'
  BY <1>0, <1>1 DEF Typed, Accounts
<1>3. ForeignKeys'
  BY <1>0 DEF ForeignKeys, Accounts, Member
<1>4. Presented'
  <2>1. ASSUME NEW r, Carries(r)
        PROVE  Carries(r)'
    BY <2>1 DEF Carries, OffersStay
  <2>2. \A q \in Requests : Carries(req'[q])
    BY <1>0 DEF Presented
  <2>3. ASSUME NEW q \in Requests PROVE Carries(req[q])'
    BY <2>2 DEF Carries, OffersStay
  <2> QED
    BY <2>3 DEF Presented
<1>5. NobodyStranded'
  BY <1>0, <1>1 DEF NobodyStranded, Accounts, Belongs, Member, Removing
<1> QED
  BY <1>2, <1>3, <1>4, <1>5 DEF OffersStay

(* A row that changes its status, or expires, offers what it did.          *)
LEMMA RowsChange ==
  ASSUME NEW row \in InviteRow
  PROVE  /\ \A st \in InviteStatuses : LET new == [row EXCEPT !.st = st] IN
              /\ new \in InviteRow /\ new.st = st
              /\ new.org = row.org /\ new.email = row.email /\ new.role = row.role
         /\ LET new == [row EXCEPT !.expired = TRUE] IN
              /\ new \in InviteRow /\ new.st = row.st
              /\ new.org = row.org /\ new.email = row.email /\ new.role = row.role
BY DEF InviteRow

LEMMA SupersedeKeeps == ASSUME IInv, NEW q \in Requests, Supersede(q) PROVE IInv'
<1> DEFINE g == [req[q] EXCEPT !.pc = "insert"]
<1>1. /\ req' = [req EXCEPT ![q] = g] /\ g \in Request /\ ~Removing(q) /\ Carries(g)
      /\ req \in [Requests -> Request]
  BY DEF Supersede, Goto, At, IInv, Typed, Presented, Request, Steps, Removing, Carries
<1>2. /\ inv' \in [Invites -> InviteRow]
      /\ \A i \in Invites :
           \/ inv'[i] = inv[i]
           \/ inv[i].st = "pending" /\ inv'[i] = [inv[i] EXCEPT !.st = "revoked"]
  <2> DEFINE new(i) == [inv[i] EXCEPT !.st = "revoked"]
             Hit(i) == /\ inv[i].st = "pending" /\ inv[i].org = req[q].org
                       /\ inv[i].email = req[q].who
  <2>1. inv \in [Invites -> InviteRow]
    BY DEF IInv, InvitesTyped
  <2>2. \A i \in Invites : new(i) \in InviteRow
    BY <2>1, RowsChange DEF InviteStatuses
  <2>3. inv' = [i \in Invites |-> IF Hit(i) THEN new(i) ELSE inv[i]]
    BY DEF Supersede
  <2> HIDE DEF new, Hit
  <2>4. \A i \in Invites : inv'[i] = inv[i] \/ (inv[i].st = "pending" /\ inv'[i] = new(i))
    BY <2>3 DEF Hit
  <2>5. inv' \in [Invites -> InviteRow]
    BY <2>1, <2>2, <2>3
  <2> QED
    BY <2>4, <2>5 DEF new
<1>3. OffersStay
  BY <1>2 DEF OffersStay, InvitesTyped, InviteRow, IInv
<1>4. SpentOnce'
  BY <1>1, <1>2 DEF SpentOnce, Holds, IInv, InvitesTyped, InviteRow, Supersede
<1> HIDE DEF g
<1>5. UNCHANGED Accounts /\ UNCHANGED <<joins, served, deaths>>
  BY DEF Supersede, Accounts
<1> QED
  BY <1>1, <1>3, <1>4, <1>5, OffersStayKeeps DEF IInv, Typed

LEMMA InsertInviteKeeps == ASSUME IInv, NEW q \in Requests, InsertInvite(q) PROVE IInv'
<1>1. /\ req' = [req EXCEPT ![q] = Idle] /\ ~Removing(q) /\ req[q] \in Request
      /\ UNCHANGED Accounts /\ UNCHANGED <<joins, served, deaths>>
      /\ req \in [Requests -> Request] /\ inv \in [Invites -> InviteRow]
  BY DEF InsertInvite, Done, At, Removing, Accounts, IInv, Typed, InvitesTyped
<1>2. OffersStay /\ SpentOnce'
  <2>1. CASE UNCHANGED inv
    BY <1>1, <2>1, IdleFits, Constants DEF OffersStay, InvitesTyped, SpentOnce, Holds, IInv
  <2>2. ASSUME NEW i \in Invites, inv[i].st = "none",
               inv' = [inv EXCEPT ![i] = [NoInvite EXCEPT !.st = "pending",
                         !.org = req[q].org, !.email = req[q].who, !.role = req[q].role]]
        PROVE  OffersStay /\ SpentOnce'
    <3> DEFINE row == [NoInvite EXCEPT !.st = "pending",
                         !.org = req[q].org, !.email = req[q].who, !.role = req[q].role]
    <3>1. row \in InviteRow /\ row.st = "pending"
      BY <1>1, NoInviteFits DEF InviteRow, InviteStatuses, Request
    <3> HIDE DEF row
    <3>2. inv' = [inv EXCEPT ![i] = row]
      BY <2>2 DEF row
    <3>3. OffersStay
      BY <1>1, <2>2, <3>1, <3>2 DEF OffersStay, InvitesTyped
    <3>4. SpentOnce'
      BY <1>1, <2>2, <3>1, <3>2, IdleFits, Constants DEF SpentOnce, Holds, IInv
    <3> QED
      BY <3>3, <3>4
  <2> QED
    BY <2>1, <2>2 DEF InsertInvite
<1> QED
  BY <1>1, <1>2, IdleFits, OffersStayKeeps DEF IInv, Typed

LEMMA LapseKeeps == ASSUME IInv, NEW i \in Invites, Revoke(i) \/ Expire(i) PROVE IInv'
<1>1. /\ inv \in [Invites -> InviteRow] /\ inv[i].st = "pending"
      /\ UNCHANGED Accounts /\ UNCHANGED <<joins, req, served, deaths>>
  BY DEF IInv, InvitesTyped, Revoke, Expire, Accounts
<1>2. PICK row \in InviteRow :
        /\ inv' = [inv EXCEPT ![i] = row] /\ row.st \in {"pending", "revoked"}
        /\ row.org = inv[i].org /\ row.email = inv[i].email /\ row.role = inv[i].role
  <2>1. CASE Revoke(i)
    <3> DEFINE new == [inv[i] EXCEPT !.st = "revoked"]
    <3>1. inv' = [inv EXCEPT ![i] = new]
      BY <2>1 DEF Revoke
    <3>2. /\ new \in InviteRow /\ new.st = "revoked"
          /\ new.org = inv[i].org /\ new.email = inv[i].email /\ new.role = inv[i].role
      BY <1>1, RowsChange DEF InviteStatuses
    <3> HIDE DEF new
    <3> QED
      BY <3>1, <3>2
  <2>2. CASE Expire(i)
    <3> DEFINE new == [inv[i] EXCEPT !.expired = TRUE]
    <3>1. inv' = [inv EXCEPT ![i] = new]
      BY <2>2 DEF Expire
    <3>2. /\ new \in InviteRow /\ new.st = "pending"
          /\ new.org = inv[i].org /\ new.email = inv[i].email /\ new.role = inv[i].role
      BY <1>1, RowsChange
    <3> HIDE DEF new
    <3> QED
      BY <3>1, <3>2
  <2> QED
    BY <2>1, <2>2
<1>3. OffersStay
  BY <1>1, <1>2 DEF OffersStay, InvitesTyped
<1>4. SpentOnce'
  BY <1>1, <1>2 DEF SpentOnce, Holds, IInv
<1> QED
  BY <1>1, <1>3, <1>4, OffersStayKeeps DEF IInv, Typed

(* The gate: who consumes an invitation finds it pending, so that nobody   *)
(* holds it and nobody has used it.                                        *)
LEMMA ConsumeKeeps == ASSUME IInv, NEW q \in Requests, Win(q) \/ Spend(q) PROVE IInv'
<1>0. /\ req[q] \in Request /\ Carries(req[q]) /\ ~Removing(q)
      /\ req[q].inv \in Invites /\ inv[req[q].inv] \in InviteRow
      /\ UNCHANGED Accounts /\ UNCHANGED <<joins, served, deaths>>
      /\ req \in [Requests -> Request] /\ inv \in [Invites -> InviteRow]
      /\ req[q].pc # "whoami"
  BY DEF Win, Spend, At, IInv, Typed, InvitesTyped, Presented, Carries, Removing, Accounts
<1> DEFINE i == req[q].inv
<1>1. CASE UNCHANGED inv /\ Done(q)
  BY <1>0, <1>1, NothingWritten DEF Rows, Accounts
<1>2. ASSUME Consumable(i), Consume(i), NEW r \in Request, req' = [req EXCEPT ![q] = r],
             Carries(r), r.inv = i \/ r.inv \notin Invites
      PROVE  IInv'
  <2>1. /\ inv' = [inv EXCEPT ![i] = [inv[i] EXCEPT !.st = "accepted"]] /\ i \in Invites
        /\ [inv[i] EXCEPT !.st = "accepted"] \in InviteRow
        /\ inv[i].st = "pending"
    BY <1>0, <1>2 DEF Consume, Consumable, InviteRow, InviteStatuses
  <2>2. OffersStay
    BY <1>0, <2>1 DEF OffersStay, InvitesTyped, InviteRow
  <2>3. SpentOnce'
    BY <1>0, <1>2, <2>1 DEF SpentOnce, Holds, IInv, InviteRow
  <2> HIDE DEF i
  <2> QED
    BY <1>0, <1>2, <2>2, <2>3, OffersStayKeeps DEF IInv, Typed
<1>3. CASE Win(q) /\ Consumable(i)
  <2>1. Consume(i) /\ req' = [req EXCEPT ![q] = [req[q] EXCEPT !.pc = "write"]]
    BY <1>0, <1>3 DEF Win, Goto
  <2>2. /\ [req[q] EXCEPT !.pc = "write"] \in Request /\ Carries([req[q] EXCEPT !.pc = "write"])
        /\ [req[q] EXCEPT !.pc = "write"].inv = i
    BY <1>0 DEF Request, Steps, Carries
  <2> HIDE DEF i
  <2> QED
    BY <1>2, <1>3, <2>1, <2>2
<1>4. CASE Spend(q) /\ Consumable(i)
  BY <1>2, <1>4, IdleFits, Constants DEF Spend, Done
<1> QED
  BY <1>1, <1>3, <1>4 DEF Win, Spend

----------------------------------------------------------------------------
(* Steps that change roles, end memberships and accounts, and the rest.    *)

LEMMA WriteRoleKeeps == ASSUME IInv, NEW q \in Requests, WriteRole(q) PROVE IInv'
<1>0. /\ req[q] \in Request /\ ~Removing(q) /\ Done(q)
      /\ UNCHANGED <<org, alive, births, pinned, inv, joins, left, served, deaths>>
  BY DEF WriteRole, At, IInv, Typed, Removing
<1> DEFINE o == req[q].org  p == req[q].who  r == req[q].role
<1>1. CASE UNCHANGED role
  BY <1>0, <1>1, NothingWritten DEF Rows
<1>2. CASE Member(o, p) /\ role' = [role EXCEPT ![o][p] = r]
  <2>1. o \in Orgs /\ p \in People /\ r \in Roles /\ role \in [Orgs -> [People -> Roles \cup {NoRole}]]
    BY <1>0 DEF Request, IInv, Typed
  <2>2. \A w \in Orgs, x \in People :
          role'[w][x] = IF w = o /\ x = p THEN r ELSE role[w][x]
    BY <1>2, <2>1
  <2>3. /\ role' \in [Orgs -> [People -> Roles \cup {NoRole}]]
        /\ \A w \in Orgs, x \in People : Member(w, x)' <=> Member(w, x)
    BY <1>2, <2>1, <2>2, Constants DEF Member
  <2>4. req' = [req EXCEPT ![q] = Idle] /\ req' \in [Requests -> Request] /\ req \in [Requests -> Request]
    BY <1>0, DoneStays DEF IInv, Typed
  <2>5. InvitesTyped' /\ Presented' /\ SpentOnce'
    BY <1>0, DoneKeeps
  <2>6. Typed'
    BY <1>0, <2>3, <2>4 DEF IInv, Typed
  <2>7. ForeignKeys'
    BY <1>0, <2>3 DEF IInv, ForeignKeys
  <2>8. NobodyStranded'
    <3>1. alive \subseteq People /\ \A x \in People : Belongs(x)' <=> Belongs(x)
      BY <2>3 DEF Belongs, IInv, Typed
    <3> QED
      BY <1>0, <2>4, <3>1 DEF IInv, NobodyStranded, Removing
  <2> QED
    BY <2>5, <2>6, <2>7, <2>8 DEF IInv
<1> QED
  BY <1>0, <1>1, <1>2 DEF WriteRole

LEMMA AuthorKeeps == ASSUME IInv, Author PROVE IInv'
<1> USE DEF IInv
<1>1. PICK o \in Orgs, p \in alive : pinned' = [pinned EXCEPT ![o] = @ \cup {p}]
  BY DEF Author
<1>2. /\ UNCHANGED <<org, alive, births, role, inv, joins, left, req, served, deaths>>
      /\ alive \subseteq People /\ pinned \in [Orgs -> SUBSET People]
  BY DEF Author, Typed
<1>3. Typed' /\ InvitesTyped' /\ ForeignKeys'
  BY <1>1, <1>2 DEF Typed, InvitesTyped, ForeignKeys, Member
<1>4. Presented' /\ SpentOnce'
  BY <1>2 DEF Presented, Carries, SpentOnce, Holds
<1>5. NobodyStranded'
  BY <1>2 DEF NobodyStranded, Belongs, Member, Removing
<1> QED
  BY <1>3, <1>4, <1>5

(* From here on the removal is what accounts for the person.               *)
LEMMA DeleteMembershipKeeps == ASSUME IInv, NEW q \in Requests, DeleteMembership(q) PROVE IInv'
<1> DEFINE o == req[q].org  p == req[q].who  g == [req[q] EXCEPT !.pc = "count"]
<1>0. /\ req[q] \in Request /\ Carries(req[q]) /\ req[q].op = "remove" /\ req[q].pc = "delete"
      /\ UNCHANGED <<org, alive, births, pinned, inv, joins, left, served, deaths>>
      /\ req \in [Requests -> Request] /\ req' = [req EXCEPT ![q] = g]
  BY DEF DeleteMembership, Goto, At, IInv, Typed, Presented
<1>1. /\ g \in Request /\ Carries(g) /\ g.op = "remove" /\ g.pc = "count"
      /\ g.who = p /\ g.uid = req[q].uid /\ g.inv \notin Invites
  BY <1>0, Constants DEF Request, Steps, Carries
<1>2. o \in Orgs /\ p \in People /\ role \in [Orgs -> [People -> Roles \cup {NoRole}]]
  BY <1>0 DEF Request, IInv, Typed
<1>3. /\ role' \in [Orgs -> [People -> Roles \cup {NoRole}]]
      /\ \A w \in Orgs, x \in People : Member(w, x)' => Member(w, x)
      /\ \A w \in Orgs, x \in People : x # p => (Member(w, x)' <=> Member(w, x))
      /\ ~Row(p, req[q].uid) => role' = role
  BY <1>2, Constants DEF DeleteMembership, Member
<1> HIDE DEF o, p, g
<1>4. Typed' /\ InvitesTyped'
  BY <1>0, <1>1, <1>3 DEF IInv, Typed, InvitesTyped
<1>5. ForeignKeys'
  BY <1>0, <1>3 DEF IInv, ForeignKeys
<1>6. Presented' /\ SpentOnce'
  BY <1>0, <1>1 DEF IInv, Presented, Carries, SpentOnce, Holds
<1>7. NobodyStranded'
  <2> SUFFICES ASSUME NEW x \in alive, ~Belongs(x)', x \notin left
               PROVE  \E w \in Requests : Removing(w)' /\ req'[w].who = x /\ req'[w].uid = births[x]
    BY <1>0 DEF NobodyStranded
  <2>1. x \in People
    BY DEF IInv, Typed
  <2>2. CASE x = p /\ Row(p, req[q].uid)
    <3>1. req'[q] = g /\ births[x] = req[q].uid
      BY <1>0, <2>2 DEF Row
    <3> QED
      BY <1>1, <2>2, <3>1 DEF Removing
  <2>3. CASE ~(x = p /\ Row(p, req[q].uid))
    <3>1. ~Belongs(x)
      BY <1>3, <2>1, <2>3 DEF Belongs, Member
    <3>2. PICK w \in Requests : Removing(w) /\ req[w].who = x /\ req[w].uid = births[x]
      BY <3>1 DEF IInv, NobodyStranded
    <3> QED
      BY <1>0, <3>2 DEF Removing
  <2> QED
    BY <2>2, <2>3
<1> QED
  BY <1>4, <1>5, <1>6, <1>7 DEF IInv

LEMMA DropUserKeeps == ASSUME IInv, NEW q \in Requests, DropUser(q) PROVE IInv'
<1> DEFINE p == req[q].who
<1>0. /\ req[q] \in Request /\ Done(q) /\ p \in People
      /\ UNCHANGED <<org, births, pinned, inv, joins, served, deaths>>
      /\ req \in [Requests -> Request] /\ alive \subseteq People
      /\ role \in [Orgs -> [People -> Roles \cup {NoRole}]]
  BY DEF DropUser, IInv, Typed, Request
<1>1. InvitesTyped' /\ Presented' /\ SpentOnce'
  BY <1>0, DoneKeeps
<1>2. req' = [req EXCEPT ![q] = Idle] /\ req' \in [Requests -> Request] /\ RemovalsStay(p)
  BY <1>0, DoneStays
<1>3. CASE /\ Row(p, req[q].uid) /\ ~Restricted(p) /\ alive' = alive \ {p} /\ UNCHANGED left
           /\ role' = [w \in Orgs |-> [role[w] EXCEPT ![p] = NoRole]]
  <2>1. /\ role' \in [Orgs -> [People -> Roles \cup {NoRole}]]
        /\ \A w \in Orgs, x \in People : role'[w][x] = IF x = p THEN NoRole ELSE role[w][x]
    BY <1>0, <1>3
  <2> HIDE DEF p
  <2>2. Typed'
    BY <1>0, <1>2, <1>3, <2>1 DEF IInv, Typed
  <2>3. ForeignKeys'
    BY <1>0, <1>3, <2>1 DEF IInv, ForeignKeys, Member, Restricted
  <2>4. NobodyStranded'
    <3> SUFFICES ASSUME NEW x \in alive', ~Belongs(x)', x \notin left
                 PROVE  \E w \in Requests : Removing(w)' /\ req'[w].who = x /\ req'[w].uid = births[x]
      BY <1>0, <1>3 DEF NobodyStranded
    <3>1. x \in alive /\ x \in People /\ x # p
      BY <1>0, <1>3
    <3>2. ~Belongs(x)
      BY <2>1, <3>1 DEF Belongs, Member
    <3>3. PICK w \in Requests : Removing(w) /\ req[w].who = x /\ req[w].uid = births[x]
      BY <3>1, <3>2 DEF IInv, NobodyStranded
    <3> QED
      BY <1>2, <3>1, <3>3 DEF RemovalsStay
  <2> QED
    BY <1>1, <2>2, <2>3, <2>4 DEF IInv
<1>4. CASE /\ UNCHANGED <<alive, role>>
           /\ left' = left \/ left' = left \cup {p}
           /\ Row(p, req[q].uid) => Belongs(p) \/ p \in left'
  <2>1. Typed'
    BY <1>0, <1>2, <1>4 DEF IInv, Typed
  <2>2. ForeignKeys'
    BY <1>0, <1>4 DEF IInv, ForeignKeys, Member
  <2>3. NobodyStranded'
    <3> SUFFICES ASSUME NEW x \in alive, ~Belongs(x), x \notin left'
                 PROVE  \E w \in Requests : Removing(w)' /\ req'[w].who = x /\ req'[w].uid = births[x]
      BY <1>0, <1>4 DEF NobodyStranded, Belongs, Member
    <3>1. PICK w \in Requests : Removing(w) /\ req[w].who = x /\ req[w].uid = births[x]
      BY <1>4 DEF IInv, NobodyStranded
    <3>2. w # q
      BY <1>4, <3>1 DEF Row
    <3> QED
      BY <1>0, <1>2, <3>1, <3>2 DEF Removing
  <2> QED
    BY <1>1, <2>1, <2>2, <2>3 DEF IInv
<1> QED
  BY <1>3, <1>4 DEF DropUser

LEMMA DeleteOrgKeeps == ASSUME IInv, NEW o \in Orgs, DeleteOrg(o) PROVE IInv'
<1>0. /\ org' = [org EXCEPT ![o] = "gone"] /\ pinned' = [pinned EXCEPT ![o] = {}]
      /\ left' = left \cup {p \in alive : Member(o, p) /\ \A w \in Orgs \ {o} : ~Member(w, p)}
      /\ UNCHANGED <<alive, births, joins, req, served, deaths>>
      /\ alive \subseteq People /\ role \in [Orgs -> [People -> Roles \cup {NoRole}]]
      /\ inv \in [Invites -> InviteRow]
  BY DEF DeleteOrg, IInv, Typed, InvitesTyped
<1>1. /\ role' \in [Orgs -> [People -> Roles \cup {NoRole}]]
      /\ \A w \in Orgs, x \in People : role'[w][x] = IF w = o THEN NoRole ELSE role[w][x]
  BY <1>0 DEF DeleteOrg
<1>2. Typed'
  BY <1>0, <1>1 DEF IInv, Typed
<1>3. ForeignKeys'
  BY <1>0, <1>1 DEF IInv, Typed, ForeignKeys, Member
<1>4. /\ inv' \in [Invites -> InviteRow]
      /\ \A i \in Invites :
           \/ inv'[i] = inv[i]
           \/ inv[i].st # "none" /\ inv'[i] = [inv[i] EXCEPT !.st = "gone"]
  <2> DEFINE new(i) == [inv[i] EXCEPT !.st = "gone"]
             Hit(i) == inv[i].st # "none" /\ inv[i].org = o
  <2>1. \A i \in Invites : new(i) \in InviteRow
    BY <1>0, RowsChange DEF InviteStatuses
  <2>2. inv' = [i \in Invites |-> IF Hit(i) THEN new(i) ELSE inv[i]]
    BY DEF DeleteOrg
  <2> HIDE DEF new, Hit
  <2>3. \A i \in Invites : inv'[i] = inv[i] \/ (inv[i].st # "none" /\ inv'[i] = new(i))
    BY <2>2 DEF Hit
  <2>4. inv' \in [Invites -> InviteRow]
    BY <1>0, <2>1, <2>2
  <2> QED
    BY <2>3, <2>4 DEF new
<1>5. \A i \in Invites :
        /\ inv[i].st # "none" =>
             /\ inv'[i].st # "none" /\ inv'[i].org = inv[i].org
             /\ inv'[i].email = inv[i].email /\ inv'[i].role = inv[i].role
        /\ inv'[i].st = inv[i].st \/ inv'[i].st = "gone"
  BY <1>0, <1>4 DEF InviteRow
<1>6. InvitesTyped' /\ Presented'
  BY <1>0, <1>4, <1>5 DEF InvitesTyped, IInv, Presented, Carries
<1>7. SpentOnce'
  BY <1>0, <1>5 DEF IInv, SpentOnce, Holds
<1>8. NobodyStranded'
  <2> SUFFICES ASSUME NEW x \in alive, ~Belongs(x)', x \notin left'
               PROVE  \E w \in Requests : Removing(w) /\ req[w].who = x /\ req[w].uid = births[x]
    BY <1>0 DEF NobodyStranded, Removing
  <2>1. x \in People /\ ~Belongs(x) /\ x \notin left
    BY <1>0, <1>1 DEF Belongs, Member
  <2> QED
    BY <2>1 DEF IInv, NobodyStranded
<1> QED
  BY <1>2, <1>3, <1>6, <1>7, <1>8 DEF IInv

----------------------------------------------------------------------------
(* All steps.                                                              *)

LEMMA Continues == IInv /\ [Next]_vars => IInv'
<1> SUFFICES ASSUME IInv, [Next]_vars PROVE IInv'
  OBVIOUS
<1>1. ASSUME NEW q \in Requests, Inviting(q)
      PROVE  IInv'
  BY <1>1, InviteKeeps, SupersedeKeeps, InsertInviteKeeps DEF Inviting
<1>2. ASSUME NEW q \in Requests, Redeeming(q)
      PROVE  IInv'
  BY <1>2, OpenSignupKeeps, OpenJoinKeeps, LookupKeeps, ConsumeKeeps, SignupAccountKeeps,
     AddMembershipKeeps DEF Redeeming
<1>3. ASSUME NEW q \in Requests, Managing(q)
      PROVE  IInv'
  BY <1>3, CreateUserKeeps, InsertUserKeeps, RegisterKeeps, InsertRegisteredKeeps,
     UpdateUserKeeps, WriteRoleKeeps, RemoveUserKeeps, DeleteMembershipKeeps, LookupKeeps,
     DropUserKeeps DEF Managing
<1>4. ASSUME NEW q \in Requests, Die(q)
      PROVE  IInv'
  BY <1>4, DieKeeps
<1>5. ASSUME NEW i \in Invites, Revoke(i) \/ Expire(i)
      PROVE  IInv'
  BY <1>5, LapseKeeps
<1>6. CASE CreateOrg \/ Author
  BY <1>6, CreateOrgKeeps, AuthorKeeps
<1>7. ASSUME NEW o \in Orgs, DeleteOrg(o)
      PROVE  IInv'
  BY <1>7, DeleteOrgKeeps
<1>8. CASE UNCHANGED vars
  BY <1>8 DEF vars, IInv, Typed, InvitesTyped, ForeignKeys, Presented, Carries, SpentOnce, Holds,
     NobodyStranded, Member, Belongs, Removing
<1> QED
  BY <1>1, <1>2, <1>3, <1>4, <1>5, <1>6, <1>7, <1>8 DEF Next

(* Every reachable state satisfies the inductive invariant.                *)
THEOREM Invariance == Spec => []IInv
BY Starts, Continues, PTL DEF Spec

(* Every variable has its type, members have an account and a living       *)
(* organization, and an organization keeps its founder.                    *)
THEOREM TypeCorrect == Spec => []TypeOK
<1>1. IInv => TypeOK
  BY DEF IInv, Typed, InvitesTyped, InviteRow, ForeignKeys, TypeOK
<1> QED
  BY <1>1, Invariance, PTL

(* No overlap of removals leaves an account without organization behind:   *)
(* one of them is still to decide on it, or history says what else did.    *)
THEOREM NobodyIsStranded == Spec => []NobodyStranded
<1>1. IInv => NobodyStranded
  BY DEF IInv
<1> QED
  BY <1>1, Invariance, PTL

----------------------------------------------------------------------------
(* Invitations are used once, and for what they offer.                     *)

LEMMA UsedOnce == IInv => SingleUse
<1> SUFFICES ASSUME IInv, NEW i \in Invites
             PROVE  joins[i] + Cardinality(Holders(i))
                      <= IF inv[i].st \in {"accepted", "gone"} THEN 1 ELSE 0
  BY DEF SingleUse
<1>1. /\ joins[i] \in {0, 1}
      /\ \A q \in Requests : Holds(q, i) => joins[i] = 0 /\ \A w \in Requests : Holds(w, i) => w = q
      /\ inv[i].st \notin {"accepted", "gone"} => joins[i] = 0 /\ \A q \in Requests : ~Holds(q, i)
  BY DEF IInv, SpentOnce
<1>2. CASE \E q \in Requests : Holds(q, i)
  <2>1. PICK q \in Requests : Holds(q, i)
    BY <1>2
  <2>2. Holders(i) = {q}
    BY <1>1, <2>1 DEF Holders, Holds
  <2>3. Cardinality(Holders(i)) = 1
    BY <2>2, FS_Singleton
  <2> QED
    BY <1>1, <2>1, <2>3
<1>3. CASE ~\E q \in Requests : Holds(q, i)
  <2>1. Holders(i) = {}
    BY <1>3 DEF Holders, Holds
  <2>2. Cardinality(Holders(i)) = 0
    BY <2>1, FS_EmptySet
  <2> QED
    BY <1>1, <2>2
<1> QED
  BY <1>2, <1>3

(* Roles change by updateUser alone: every other step makes memberships of *)
(* people who are none, or ends them.                                      *)
RolesStay ==
  \A o \in Orgs, p \in People :
    (Member(o, p) /\ Member(o, p)' /\ role'[o][p] # role[o][p])
      => \E q \in Requests : At(q, "role", "write") /\ req'[q] = Idle

(* What an invitation makes is what it offers.                             *)
AsOffered ==
  \A i \in Invites :
    joins'[i] # joins[i]
      => /\ ~Member(inv[i].org, inv[i].email)
         /\ role'[inv[i].org][inv[i].email] = inv[i].role

LEMMA BirthGivesNoRole ==
  ASSUME IInv, NEW o \in Orgs, NEW p \in People, NEW r \in Roles, ~Member(o, p),
         role' = [role EXCEPT ![o][p] = r]
  PROVE  RolesStay /\ role'[o][p] = r
<1>1. role \in [Orgs -> [People -> Roles \cup {NoRole}]]
  BY DEF IInv, Typed
<1> QED
  BY <1>1 DEF RolesStay, Member

LEMMA JoinedAsOffered ==
  ASSUME IInv, NEW q \in Requests, req[q].op \in {"signup", "join"}, req[q].pc = "write",
         ~Member(req[q].org, req[q].who),
         role' = [role EXCEPT ![req[q].org][req[q].who] = req[q].role],
         joins' = [joins EXCEPT ![req[q].inv] = @ + 1]
  PROVE  RolesStay /\ AsOffered
<1>1. /\ req[q].inv \in Invites /\ req[q].org = inv[req[q].inv].org
      /\ req[q].role = inv[req[q].inv].role /\ req[q].who = inv[req[q].inv].email
  BY DEF IInv, Presented, Carries
<1>2. /\ req[q].org \in Orgs /\ req[q].who \in People /\ req[q].role \in Roles
      /\ joins \in [Invites -> Nat]
  BY DEF IInv, Typed, Request
<1>3. RolesStay /\ role'[req[q].org][req[q].who] = req[q].role
  BY <1>2, BirthGivesNoRole
<1> QED
  BY <1>1, <1>2, <1>3 DEF AsOffered

LEMMA LinksHold == IInv /\ [Next]_vars => RolesStay /\ AsOffered
<1> SUFFICES ASSUME IInv, [Next]_vars PROVE RolesStay /\ AsOffered
  OBVIOUS
<1> DEFINE Quiet(q) == \/ Inviting(q) \/ OpenSignup(q) \/ LookupSignup(q) \/ OpenJoin(q)
                       \/ Recognise(q) \/ CheckMember(q) \/ Spend(q) \/ Win(q)
                       \/ CreateUser(q) \/ Register(q) \/ UpdateUser(q) \/ RemoveUser(q)
                       \/ CountOrgs(q) \/ Die(q)
<1>0. /\ role \in [Orgs -> [People -> Roles \cup {NoRole}]] /\ alive \subseteq People
      /\ joins \in [Invites -> Nat] /\ req \in [Requests -> Request]
      /\ \A o \in Orgs, p \in People : Member(o, p) => p \in alive /\ org[o] = "live"
  BY DEF IInv, Typed, ForeignKeys
<1>1. CASE UNCHANGED <<role, joins>>
  BY <1>1 DEF RolesStay, AsOffered
<1>2. ASSUME NEW q \in Requests, Quiet(q)
      PROVE  UNCHANGED <<role, joins>>
  BY <1>2 DEF Inviting, Invite, Supersede, InsertInvite, OpenSignup, LookupSignup, OpenJoin,
     Recognise, CheckMember, Spend, Win, CreateUser, Register, UpdateUser, RemoveUser, CountOrgs,
     Die
<1>3. ASSUME NEW q \in Requests, SignupAccount(q)
      PROVE  RolesStay /\ AsOffered
  <2>1. CASE UNCHANGED <<role, joins>>
    BY <1>1, <2>1
  <2>2. CASE CanBirth(req[q].who, req[q].org)
    <3>1. ~Member(req[q].org, req[q].who)
      BY <1>0, <2>2 DEF CanBirth, Request
    <3> QED
      BY <1>3, <2>2, <3>1, JoinedAsOffered DEF SignupAccount, Birth, At
  <2> QED
    BY <1>3, <2>1, <2>2 DEF SignupAccount
<1>4. ASSUME NEW q \in Requests, AddMembership(q)
      PROVE  RolesStay /\ AsOffered
  BY <1>1, <1>4, JoinedAsOffered DEF AddMembership, At
<1>5. ASSUME NEW q \in Requests, InsertUser(q) \/ InsertRegistered(q)
      PROVE  RolesStay /\ AsOffered
  <2>1. UNCHANGED joins /\ req[q].who \in People /\ req[q].org \in Orgs /\ req[q].role \in Roles
    BY <1>0, <1>5 DEF InsertUser, InsertRegistered, Request
  <2>2. CASE UNCHANGED role
    BY <1>1, <2>1, <2>2
  <2>3. ASSUME NEW o \in Orgs, NEW r \in Roles, Birth(req[q].who, o, r), req[q].who \notin alive
        PROVE  RolesStay /\ AsOffered
    <3>1. ~Member(o, req[q].who) /\ role' = [role EXCEPT ![o][req[q].who] = r]
      BY <1>0, <2>1, <2>3 DEF Birth
    <3> QED
      BY <2>1, <3>1, BirthGivesNoRole DEF AsOffered
  <2> QED
    BY <1>5, <2>1, <2>2, <2>3, Constants DEF InsertUser, InsertRegistered, CanBirth
<1>6. CASE CreateOrg
  <2>1. PICK o \in Orgs, p \in alive : org[o] = "none" /\ role' = [role EXCEPT ![o][p] = "OWNER"]
    BY <1>6 DEF CreateOrg
  <2>2. ~Member(o, p) /\ UNCHANGED joins
    BY <1>0, <1>6, <2>1 DEF CreateOrg
  <2> QED
    BY <1>0, <2>1, <2>2, Constants, BirthGivesNoRole DEF AsOffered
<1>7. ASSUME NEW q \in Requests, WriteRole(q)
      PROVE  RolesStay /\ AsOffered
  <2>1. UNCHANGED joins /\ At(q, "role", "write") /\ req'[q] = Idle
    BY <1>0, <1>7 DEF WriteRole, Done
  <2> QED
    BY <2>1 DEF RolesStay, AsOffered
<1>8. ASSUME UNCHANGED joins, \A o \in Orgs, p \in People : role'[o][p] \in {role[o][p], NoRole}
      PROVE  RolesStay /\ AsOffered
  BY <1>8 DEF RolesStay, AsOffered, Member
<1>9. ASSUME NEW q \in Requests, DeleteMembership(q)
      PROVE  RolesStay /\ AsOffered
  <2>1. req[q].org \in Orgs /\ req[q].who \in People
    BY <1>0 DEF Request
  <2> QED
    BY <1>0, <1>8, <1>9, <2>1 DEF DeleteMembership
<1>10. ASSUME NEW q \in Requests, DropUser(q)
       PROVE  RolesStay /\ AsOffered
  BY <1>0, <1>8, <1>10 DEF DropUser
<1>11. ASSUME NEW o \in Orgs, DeleteOrg(o)
       PROVE  RolesStay /\ AsOffered
  BY <1>0, <1>8, <1>11 DEF DeleteOrg
<1>12. CASE UNCHANGED vars \/ Author \/ \E i \in Invites : Revoke(i) \/ Expire(i)
  BY <1>1, <1>12 DEF vars, Author, Revoke, Expire
<1> QED
  BY <1>1, <1>2, <1>3, <1>4, <1>5, <1>6, <1>7, <1>9, <1>10, <1>11, <1>12
  DEF Next, Redeeming, Managing

(* An invitation makes one membership at most, the one it offers, to the   *)
(* address it was written for, and leaves the role of a member alone.      *)
THEOREM LinksAreKept == Spec => LinksKeepTheirWord
<1>1. IInv /\ [Next]_vars =>
        [/\ \A o \in Orgs, p \in People :
              (Member(o, p) /\ Member(o, p)' /\ role'[o][p] # role[o][p])
                => \E q \in Requests : At(q, "role", "write") /\ req'[q] = Idle
         /\ \A i \in Invites :
              joins'[i] # joins[i]
                => /\ ~Member(inv[i].org, inv[i].email)
                   /\ role'[inv[i].org][inv[i].email] = inv[i].role]_vars
  BY LinksHold DEF RolesStay, AsOffered
<1>2. Spec => MembersAsInvited
  BY <1>1, Invariance, PTL DEF Spec, MembersAsInvited
<1>3. Spec => []SingleUse
  BY UsedOnce, Invariance, PTL
<1> QED
  BY <1>2, <1>3 DEF LinksKeepTheirWord

=============================================================================
