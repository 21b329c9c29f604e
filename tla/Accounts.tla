------------------------------ MODULE Accounts ------------------------------
(***************************************************************************)
(* Accounts, organizations, memberships and the invitations that create   *)
(* them.                                                                   *)
(*                                                                         *)
(* Every handler is a request that runs one database statement (or one    *)
(* transaction) per step, and requests interleave between their steps.    *)
(* An api process may die between two steps of a request: what is written  *)
(* stays, the rest of the request never runs.                              *)
(*                                                                         *)
(*   invite    InvitationService.create                                    *)
(*   signup    InvitationService.acceptAsNewUser                           *)
(*   join      InvitationService.acceptAsMember                            *)
(*   create    UserService.createUser                                      *)
(*   register  AuthService.register                                        *)
(*   role      UserService.updateUser (the role is all it has of interest) *)
(*   remove    UserService.removeUser                                      *)
(*                                                                         *)
(* OrgService.createOrg and adminDeleteOrg write once and are one step.    *)
(*                                                                         *)
(* A person is an email address; user.email is unique, so a person has at  *)
(* most one account.  An account that is deleted and created again has     *)
(* another id: births[p] counts the ids person p has had and is the id of  *)
(* the account while it is alive.  The acting session carries the role its *)
(* access token was signed with, so a request is made with any role.       *)
(***************************************************************************)
EXTENDS Naturals, FiniteSets

CONSTANTS People,       \* email addresses
          Orgs,         \* organization ids
          Invites,      \* invitation ids
          Requests,     \* slots for the requests under way
          Roles,        \* the roles of ORGANIZATION_USER_ROLES in use
          Founder,      \* the person who founded Home and is its owner
          Settled,      \* the people who are its members at the start
          Home,         \* the organization there is at the start
          NoOne,
          MaxBirths,    \* bound on the accounts one email has over time
          MaxRequests,  \* bound on the requests over time
          MaxDeaths     \* bound on the requests that die half way

ASSUME AccountsAssumption ==
  /\ Founder \in People /\ Home \in Orgs
  /\ Settled \subseteq People \ {Founder}
  /\ NoOne \notin People \cup Orgs \cup Invites
  /\ {"OWNER", "MEMBER"} \subseteq Roles /\ Roles \subseteq {"OWNER", "ADMIN", "MEMBER"}
  /\ MaxBirths \in Nat \ {0} /\ MaxRequests \in Nat /\ MaxDeaths \in Nat

VARIABLES org,     \* org[o]: "none", "live" or "gone"
          alive,   \* the people who have an account
          births,  \* births[p]: how many accounts p has had, the last one's id
          role,    \* role[o][p]: p's role in o, or NoRole
          pinned,  \* pinned[o]: who wrote rows of o that forbid deleting them
          inv,     \* inv[i]: the invitation's row
          joins,   \* joins[i]: memberships made by redeeming i (history)
          left,    \* who may be left an account without organization (history)
          req,     \* req[q]: the request in slot q, where it stands
          served,  \* requests that came in so far
          deaths   \* requests that died so far

vars == <<org, alive, births, role, pinned, inv, joins, left, req, served, deaths>>

NoRole == "none"

\* ADMIN and OWNER carry the user:* and org:invite permissions.
Managers == {"OWNER", "ADMIN"}

Operations == {"invite", "signup", "join", "create", "register", "role", "remove"}

InviteStatuses == {"none", "pending", "revoked", "accepted", "gone"}

Steps == {"start", "lookup", "supersede", "insert", "whoami", "member",
          "consume", "spend", "write", "delete", "count", "drop"}

NoInvite == [st |-> "none", org |-> Home, email |-> Founder,
             role |-> "MEMBER", expired |-> FALSE]

Idle == [op |-> "idle", pc |-> "start", org |-> Home, who |-> Founder,
         uid |-> 0, role |-> "MEMBER", inv |-> NoOne, seen |-> "none"]

IsIdle(q) == req[q].op = "idle"
Member(o, p) == role[o][p] # NoRole
Belongs(p) == \E o \in Orgs : Member(o, p)

\* The user row with this id, still there.
Row(p, uid) == p \in alive /\ births[p] = uid

\* Rows that reference user.id ON DELETE RESTRICT: organization.owner_id and
\* the authors of projects, tasks, research, deployments, servers, attachments.
RestrictedWhileMember(p) == \E o \in Orgs : p \in pinned[o] /\ Member(o, p)

Restricted(p) == \E o \in Orgs : p \in pinned[o]

Init ==
  /\ org = [o \in Orgs |-> IF o = Home THEN "live" ELSE "none"]
  /\ alive = Settled \cup {Founder}
  /\ births = [p \in People |-> IF p \in Settled \cup {Founder} THEN 1 ELSE 0]
  /\ role = [o \in Orgs |-> [p \in People |->
               IF o = Home /\ p = Founder THEN "OWNER"
               ELSE IF o = Home /\ p \in Settled THEN "MEMBER" ELSE NoRole]]
  /\ pinned = [o \in Orgs |-> IF o = Home THEN {Founder} ELSE {}]
  /\ inv = [i \in Invites |-> NoInvite]
  /\ joins = [i \in Invites |-> 0]
  /\ left = {}
  /\ req = [q \in Requests |-> Idle]
  /\ served = 0 /\ deaths = 0

At(q, op, pc) == req[q].op = op /\ req[q].pc = pc
Goto(q, pc) == req' = [req EXCEPT ![q].pc = pc]
Done(q) == req' = [req EXCEPT ![q] = Idle]

\* A request comes in: its first read is done and it stands at its next step.
Start(q, request) ==
  /\ IsIdle(q) /\ served < MaxRequests
  /\ req' = [req EXCEPT ![q] = request]
  /\ served' = served + 1

\* The transaction that inserts a user row and its first membership: it takes
\* place unless the email has an account by now or the organization is gone.
CanBirth(p, o) == p \notin alive /\ org[o] = "live"
Birth(p, o, r) ==
  /\ births[p] < MaxBirths
  /\ alive' = alive \cup {p}
  /\ births' = [births EXCEPT ![p] = @ + 1]
  /\ role' = [role EXCEPT ![o][p] = r]
  /\ left' = left \ {p}

-----------------------------------------------------------------------------
(* Inviting                                                                *)

\* findUserByEmail, isMember: an existing member is not invited.
Invite(q) == \E o \in Orgs, p \in People, r \in Roles :
  /\ org[o] = "live"
  /\ Cardinality({i \in Invites : inv[i].st = "none"}) >     \* a free id for every one under way
       Cardinality({c \in Requests : req[c].op = "invite"})
  /\ ~Member(o, p)
  /\ Start(q, [Idle EXCEPT !.op = "invite", !.pc = "supersede",
                                            !.org = o, !.who = p, !.role = r])
  /\ UNCHANGED <<org, alive, births, role, pinned, inv, joins, left, deaths>>

\* supersedePendingFor: every pending invitation of this recipient is revoked.
Supersede(q) ==
  /\ At(q, "invite", "supersede")
  /\ inv' = [i \in Invites |->
               IF inv[i].st = "pending" /\ inv[i].org = req[q].org /\ inv[i].email = req[q].who
               THEN [inv[i] EXCEPT !.st = "revoked"] ELSE inv[i]]
  /\ Goto(q, "insert")
  /\ UNCHANGED <<org, alive, births, role, pinned, joins, left, served, deaths>>

InsertInvite(q) ==
  /\ At(q, "invite", "insert")
  /\ \/ /\ org[req[q].org] = "live"
        /\ \E i \in Invites :
             /\ inv[i].st = "none"
             /\ inv' = [inv EXCEPT ![i] = [NoInvite EXCEPT !.st = "pending",
                          !.org = req[q].org, !.email = req[q].who, !.role = req[q].role]]
     \/ /\ org[req[q].org] # "live"           \* the foreign key refuses the row
        /\ UNCHANGED inv
  /\ Done(q)
  /\ UNCHANGED <<org, alive, births, role, pinned, joins, left, served, deaths>>

\* One conditional UPDATE: nothing happens to a row that is not pending.
Revoke(i) ==
  /\ inv[i].st = "pending"
  /\ inv' = [inv EXCEPT ![i].st = "revoked"]
  /\ UNCHANGED <<org, alive, births, role, pinned, joins, left, req, served, deaths>>

\* The clock passes expires_at of a pending row, which keeps its status.
Expire(i) ==
  /\ inv[i].st = "pending" /\ ~inv[i].expired
  /\ inv' = [inv EXCEPT ![i].expired = TRUE]
  /\ UNCHANGED <<org, alive, births, role, pinned, joins, left, req, served, deaths>>

-----------------------------------------------------------------------------
(* Redeeming                                                               *)

Found(i) == inv[i].st \in {"pending", "revoked", "accepted"}

\* effectiveStatus of the row as it was read, under the clock of now.
Redeemable(status, i) == status = "pending" /\ ~inv[i].expired

\* UPDATE ... WHERE status = 'pending'.
Consumable(i) == inv[i].st = "pending"
Consume(i) == inv' = [inv EXCEPT ![i].st = "accepted"]

OpenSignup(q) == \E i \in Invites :
  /\ Found(i) /\ Redeemable(inv[i].st, i)
  /\ Start(q, [Idle EXCEPT !.op = "signup", !.pc = "lookup",
                 !.org = inv[i].org, !.who = inv[i].email, !.role = inv[i].role, !.inv = i])
  /\ UNCHANGED <<org, alive, births, role, pinned, inv, joins, left, deaths>>

\* findUserByEmail: an address that has an account is turned away.
LookupSignup(q) ==
  /\ At(q, "signup", "lookup")
  /\ IF req[q].who \in alive THEN Done(q) ELSE Goto(q, "consume")
  /\ UNCHANGED <<org, alive, births, role, pinned, inv, joins, left, served, deaths>>

\* Any account may present the link; the row is only read here.
OpenJoin(q) == \E i \in Invites, p \in alive :
  /\ Found(i)
  /\ Start(q, [op |-> "join", pc |-> "whoami", org |-> inv[i].org, who |-> p,
                 uid |-> births[p], role |-> inv[i].role, inv |-> i, seen |-> inv[i].st])
  /\ UNCHANGED <<org, alive, births, role, pinned, inv, joins, left, deaths>>

\* findAccountById, and the account's email must be the invited one.
RecogniseAnyone(q) ==
  /\ At(q, "join", "whoami")
  /\ IF Row(req[q].who, req[q].uid) THEN Goto(q, "member") ELSE Done(q)
  /\ UNCHANGED <<org, alive, births, role, pinned, inv, joins, left, served, deaths>>

Recognise(q) ==
  /\ At(q, "join", "whoami")
  /\ IF Row(req[q].who, req[q].uid) /\ inv[req[q].inv].email = req[q].who
     THEN Goto(q, "member") ELSE Done(q)
  /\ UNCHANGED <<org, alive, births, role, pinned, inv, joins, left, served, deaths>>

\* isMember: a member only spends the link; the others need a live one.
CheckMember(q) ==
  /\ At(q, "join", "member")
  /\ IF Member(req[q].org, req[q].who) /\ Row(req[q].who, req[q].uid) THEN Goto(q, "spend")
     ELSE IF Redeemable(req[q].seen, req[q].inv) THEN Goto(q, "consume") ELSE Done(q)
  /\ UNCHANGED <<org, alive, births, role, pinned, inv, joins, left, served, deaths>>

Spend(q) ==
  /\ At(q, "join", "spend")
  /\ IF Consumable(req[q].inv) THEN Consume(req[q].inv) ELSE UNCHANGED inv
  /\ Done(q)
  /\ UNCHANGED <<org, alive, births, role, pinned, joins, left, served, deaths>>

\* consumePending: only the request whose UPDATE hit the row goes on.
Win(q) ==
  /\ req[q].op \in {"signup", "join"} /\ req[q].pc = "consume"
  /\ IF Consumable(req[q].inv)
     THEN Consume(req[q].inv) /\ Goto(q, "write")
     ELSE UNCHANGED inv /\ Done(q)
  /\ UNCHANGED <<org, alive, births, role, pinned, joins, left, served, deaths>>

\* createUserWithOrgMembership.
SignupAccount(q) == LET o == req[q].org  p == req[q].who IN
  /\ At(q, "signup", "write")
  /\ \/ /\ CanBirth(p, o)
        /\ Birth(p, o, req[q].role)
        /\ joins' = [joins EXCEPT ![req[q].inv] = @ + 1]
     \/ /\ ~CanBirth(p, o)
        /\ UNCHANGED <<alive, births, role, joins, left>>
  /\ Done(q)
  /\ UNCHANGED <<org, pinned, inv, served, deaths>>

\* addOrgMembership: INSERT ... ON CONFLICT DO NOTHING.
AddMembership(q) == LET o == req[q].org  p == req[q].who IN
  /\ At(q, "join", "write")
  /\ \/ /\ Row(p, req[q].uid) /\ org[o] = "live" /\ ~Member(o, p)
        /\ role' = [role EXCEPT ![o][p] = req[q].role]
        /\ joins' = [joins EXCEPT ![req[q].inv] = @ + 1]
        /\ left' = left \ {p}
     \/ /\ ~(Row(p, req[q].uid) /\ org[o] = "live" /\ ~Member(o, p))
        /\ UNCHANGED <<role, joins, left>>
  /\ Done(q)
  /\ UNCHANGED <<org, alive, births, pinned, inv, served, deaths>>

-----------------------------------------------------------------------------
(* Accounts made and unmade without an invitation                          *)

\* createUser reads whether the email is taken; only an owner makes an owner.
CreateUser(q) == \E o \in Orgs, p \in People, r \in Roles, actor \in Managers :
  /\ org[o] = "live"
  /\ p \notin alive
  /\ r = "OWNER" => actor = "OWNER"
  /\ Start(q, [Idle EXCEPT !.op = "create", !.pc = "write",
                                            !.org = o, !.who = p, !.role = r])
  /\ UNCHANGED <<org, alive, births, role, pinned, inv, joins, left, deaths>>

InsertUser(q) == LET o == req[q].org  p == req[q].who IN
  /\ At(q, "create", "write")
  /\ IF CanBirth(p, o) THEN Birth(p, o, req[q].role) ELSE UNCHANGED <<alive, births, role, left>>
  /\ Done(q)
  /\ UNCHANGED <<org, pinned, inv, joins, served, deaths>>

Register(q) == \E p \in People :
  /\ p \notin alive
  /\ Start(q, [Idle EXCEPT !.op = "register", !.pc = "write", !.who = p])
  /\ UNCHANGED <<org, alive, births, role, pinned, inv, joins, left, deaths>>

\* One transaction: the user, the organization it owns and the membership.
InsertRegistered(q) == LET p == req[q].who IN
  /\ At(q, "register", "write")
  /\ \/ \E o \in Orgs :
          /\ org[o] = "none" /\ p \notin alive
          /\ org' = [org EXCEPT ![o] = "live"]
          /\ pinned' = [pinned EXCEPT ![o] = {p}]
          /\ Birth(p, o, "OWNER")
     \/ /\ p \in alive
        /\ UNCHANGED <<org, pinned, alive, births, role, left>>
  /\ Done(q)
  /\ UNCHANGED <<inv, joins, served, deaths>>

\* OrgService.createOrg, one transaction, for an account that is still there.
CreateOrg == \E o \in Orgs, p \in alive :
  /\ org[o] = "none"
  /\ org' = [org EXCEPT ![o] = "live"]
  /\ pinned' = [pinned EXCEPT ![o] = {p}]
  /\ role' = [role EXCEPT ![o][p] = "OWNER"]
  /\ left' = left \ {p}
  /\ UNCHANGED <<alive, births, inv, joins, req, served, deaths>>

\* A member writes a project, task, deployment, server, attachment or research
\* row: its author cannot be deleted while the organization is there.
Author == \E o \in Orgs, p \in alive :
  /\ org[o] = "live" /\ Member(o, p) /\ p \notin pinned[o]
  /\ pinned' = [pinned EXCEPT ![o] = @ \cup {p}]
  /\ UNCHANGED <<org, alive, births, role, inv, joins, left, req, served, deaths>>

\* updateUser reads the member. An owner keeps the own role, and only an
\* owner's session promotes to OWNER.
UpdateUser(q) == \E o \in Orgs, p \in alive, r \in Roles, actor \in Managers, self \in BOOLEAN :
  /\ Member(o, p)
  /\ ~(self /\ role[o][p] = "OWNER" /\ r # "OWNER")
  /\ r = "OWNER" => actor = "OWNER"
  /\ Start(q, [Idle EXCEPT !.op = "role", !.pc = "write", !.org = o,
                                            !.who = p, !.uid = births[p], !.role = r])
  /\ UNCHANGED <<org, alive, births, role, pinned, inv, joins, left, deaths>>

\* One transaction: nothing is written for a user who is no member any more.
WriteRole(q) == LET o == req[q].org  p == req[q].who IN
  /\ At(q, "role", "write")
  /\ IF Member(o, p) /\ Row(p, req[q].uid)
     THEN role' = [role EXCEPT ![o][p] = req[q].role] ELSE UNCHANGED role
  /\ Done(q)
  /\ UNCHANGED <<org, alive, births, pinned, inv, joins, left, served, deaths>>

\* removeUser reads the member; nobody removes the own account, and only an
\* owner's session removes an owner.
RemoveUser(q) == \E o \in Orgs, p \in alive, actor \in Managers :
  /\ Member(o, p)
  /\ role[o][p] = "OWNER" => actor = "OWNER"
  /\ Start(q, [Idle EXCEPT !.op = "remove", !.pc = "delete",
                                            !.org = o, !.who = p, !.uid = births[p]])
  /\ UNCHANGED <<org, alive, births, role, pinned, inv, joins, left, deaths>>

DeleteMembershipAfterCount(q) == LET o == req[q].org  p == req[q].who IN
  /\ At(q, "remove", "delete")
  /\ role' = IF Row(p, req[q].uid) THEN [role EXCEPT ![o][p] = NoRole] ELSE role
  /\ IF Belongs(p) THEN Done(q) ELSE Goto(q, "drop")
  /\ UNCHANGED <<org, alive, births, pinned, inv, joins, left, served, deaths>>

DeleteMembership(q) == LET o == req[q].org  p == req[q].who IN
  /\ At(q, "remove", "delete")
  /\ role' = IF Row(p, req[q].uid) THEN [role EXCEPT ![o][p] = NoRole] ELSE role
  /\ Goto(q, "count")
  /\ UNCHANGED <<org, alive, births, pinned, inv, joins, left, served, deaths>>

\* countUserOrgs, after the membership is gone.
CountOrgs(q) == LET p == req[q].who IN
  /\ At(q, "remove", "count")
  /\ IF Belongs(p) /\ Row(p, req[q].uid) THEN Done(q) ELSE Goto(q, "drop")
  /\ UNCHANGED <<org, alive, births, role, pinned, inv, joins, left, served, deaths>>

\* deleteUser: memberships go with the row (cascade), unless rows that
\* reference it forbid the deletion and the request fails here.
DropUser(q) == LET p == req[q].who IN
  /\ At(q, "remove", "drop")
  /\ \/ /\ Row(p, req[q].uid) /\ ~Restricted(p)
        /\ alive' = alive \ {p}
        /\ role' = [o \in Orgs |-> [role[o] EXCEPT ![p] = NoRole]]
        /\ UNCHANGED left
     \/ /\ Row(p, req[q].uid) /\ Restricted(p)
        /\ left' = IF Belongs(p) THEN left ELSE left \cup {p}
        /\ UNCHANGED <<alive, role>>
     \/ /\ ~Row(p, req[q].uid)
        /\ UNCHANGED <<alive, role, left>>
  /\ Done(q)
  /\ UNCHANGED <<org, births, pinned, inv, joins, served, deaths>>

\* adminDeleteOrg: memberships, invitations and every row of the organization
\* go with it (cascade).
DeleteOrg(o) ==
  /\ org[o] = "live"
  /\ org' = [org EXCEPT ![o] = "gone"]
  /\ role' = [role EXCEPT ![o] = [p \in People |-> NoRole]]
  /\ pinned' = [pinned EXCEPT ![o] = {}]
  /\ inv' = [i \in Invites |-> IF inv[i].st # "none" /\ inv[i].org = o
                               THEN [inv[i] EXCEPT !.st = "gone"] ELSE inv[i]]
  /\ left' = left \cup {p \in alive : Member(o, p) /\ \A w \in Orgs \ {o} : ~Member(w, p)}
  /\ UNCHANGED <<alive, births, joins, req, served, deaths>>

\* A removal that has taken the membership and not decided on the account.
Removing(q) == req[q].op = "remove" /\ req[q].pc \in {"count", "drop"}

\* The process serving a request dies: a removal past its DELETE leaves the
\* account behind.
Die(q) ==
  /\ ~IsIdle(q) /\ deaths < MaxDeaths
  /\ deaths' = deaths + 1
  /\ left' = IF Removing(q) /\ ~Belongs(req[q].who) THEN left \cup {req[q].who} ELSE left
  /\ Done(q)
  /\ UNCHANGED <<org, alive, births, role, pinned, inv, joins, served>>

-----------------------------------------------------------------------------

Inviting(q) == Invite(q) \/ Supersede(q) \/ InsertInvite(q)
Redeeming(q) == \/ OpenSignup(q) \/ LookupSignup(q) \/ OpenJoin(q) \/ Recognise(q)
                \/ CheckMember(q) \/ Spend(q) \/ Win(q) \/ SignupAccount(q) \/ AddMembership(q)
Managing(q) == \/ CreateUser(q) \/ InsertUser(q) \/ Register(q) \/ InsertRegistered(q)
               \/ UpdateUser(q) \/ WriteRole(q)
               \/ RemoveUser(q) \/ DeleteMembership(q) \/ CountOrgs(q) \/ DropUser(q)

Next ==
  \/ \E q \in Requests : Inviting(q) \/ Redeeming(q) \/ Managing(q) \/ Die(q)
  \/ \E i \in Invites : Revoke(i) \/ Expire(i)
  \/ CreateOrg \/ Author
  \/ \E o \in Orgs : DeleteOrg(o)

Spec == Init /\ [][Next]_vars

-----------------------------------------------------------------------------

Request == [op : Operations \cup {"idle"}, pc : Steps, org : Orgs, who : People,
            uid : 0..MaxBirths, role : Roles, inv : Invites \cup {NoOne}, seen : InviteStatuses]

(* Every variable has its type, a member has an account and a live         *)
(* organization (the foreign keys of organization_user), and an            *)
(* organization keeps its founder.                                         *)
TypeOK ==
  /\ org \in [Orgs -> {"none", "live", "gone"}]
  /\ alive \subseteq People
  /\ births \in [People -> 0..MaxBirths]
  /\ role \in [Orgs -> [People -> Roles \cup {NoRole}]]
  /\ pinned \in [Orgs -> SUBSET People]
  /\ inv \in [Invites -> [st : InviteStatuses, org : Orgs, email : People,
                          role : Roles, expired : BOOLEAN]]
  /\ joins \in [Invites -> Nat]
  /\ left \subseteq People
  /\ req \in [Requests -> Request]
  /\ served \in 0..MaxRequests /\ deaths \in 0..MaxDeaths
  /\ \A o \in Orgs, p \in People : Member(o, p) => p \in alive /\ org[o] = "live"
  /\ \A o \in Orgs : pinned[o] \subseteq alive

\* Requests that have consumed invitation i and have yet to make its membership.
Holders(i) == {q \in Requests : req[q].inv = i /\ req[q].pc = "write"}

(* "This is the single-use gate": however many people and requests present *)
(* a link, while it is superseded, revoked or expires under them, it makes *)
(* at most one membership, and none once it is revoked.                    *)
SingleUse ==
  \A i \in Invites :
    joins[i] + Cardinality(Holders(i)) <= IF inv[i].st \in {"accepted", "gone"} THEN 1 ELSE 0

(* Nobody keeps an account that belongs to no organization (it cannot log  *)
(* in: noOrgAccess) behind the back of the removals: with several admins   *)
(* removing one person from several organizations at once, one of them     *)
(* sees the last membership gone and goes on to delete the account. What   *)
(* else leaves such an account is in left: its organization was deleted,   *)
(* the removal died, or rows it wrote forbid the deletion.                 *)
NobodyStranded ==
  \A p \in alive :
    \/ Belongs(p)
    \/ p \in left
    \/ \E q \in Requests : Removing(q) /\ req[q].who = p /\ req[q].uid = births[p]

(* Whoever is a member already keeps the role through every invitation,    *)
(* also when several are redeemed at once: only updateUser changes it. And *)
(* a membership that an invitation makes is the one it offered: to the     *)
(* account of the invited address, in its organization, with its role.     *)
MembersAsInvited == [][
  /\ \A o \in Orgs, p \in People :
       (Member(o, p) /\ Member(o, p)' /\ role'[o][p] # role[o][p])
         => \E q \in Requests : At(q, "role", "write") /\ req'[q] = Idle
  /\ \A i \in Invites :
       joins'[i] # joins[i]
         => /\ ~Member(inv[i].org, inv[i].email)
            /\ role'[inv[i].org][inv[i].email] = inv[i].role
  ]_vars

(* A link is spent once, and for what it offers.                           *)
LinksKeepTheirWord == []SingleUse /\ MembersAsInvited
=============================================================================
