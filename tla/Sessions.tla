------------------------------ MODULE Sessions ------------------------------
(***************************************************************************)
(* The sessions of one user in one organization: refresh tokens in Redis,  *)
(* rotated each time one is used, and the access token that is issued with *)
(* each, which is valid by its signature unless a blacklist or the time of *)
(* the last logout of all devices says otherwise.                          *)
(*                                                                         *)
(* LocalAuthProvider keeps a key per refresh token.  It holds either the   *)
(* session or, for a grace period after the token was rotated, a marker    *)
(* with the pair its successor was issued.  Devices send several requests  *)
(* at once, answers arrive in any order or not at all, and every await of  *)
(* a handler lets the others in.                                           *)
(*                                                                         *)
(* Redis counts an expiry in whole seconds, a token its age, and the       *)
(* provider the age of a session in milliseconds: time passes in ticks,    *)
(* PerSecond to a second.                                                  *)
(***************************************************************************)
EXTENDS Naturals, Integers, FiniteSets

CONSTANTS
  Devices,    \* the user's browsers and phones
  Requests,   \* slots for the requests under way
  PerSecond,  \* ticks in a second
  Max,        \* maxSessionTtl, in seconds
  Grace,      \* refreshGraceTtl, in seconds
  AccessTtl,  \* accessTokenTtl, in seconds
  MaxTokens,  \* bound: refresh tokens ever issued
  MaxNow,     \* bound: the clock
  MaxLogouts, \* bound: logouts of a device or of all devices
  Lag         \* bound: ticks between the first read and the last write of a request

ASSUME SessionsAssumption ==
  /\ {PerSecond, Max, Grace, AccessTtl, MaxTokens, MaxNow} \subseteq Nat \ {0}
  /\ {MaxLogouts, Lag} \subseteq Nat
  /\ Grace <= Max /\ AccessTtl <= Max
  /\ Devices # {}

Tokens == 1 .. MaxTokens
NoToken == 0

VARIABLES
  now,      \* the clock
  issued,   \* how many tokens there have been
  key,      \* key[t]: iam:refresh:t
  start,    \* start[t]: sessionStart of the session t belongs to
  born,     \* born[t]: when the access token issued with t was signed
  banned,   \* banned[t]: when its entry in the blacklist expires, 0 without one
  index,    \* iam:user-sessions, the keys it lists and when it expires
  stamp,    \* iam:logout-all, the second it holds and when it expires
  jar,      \* jar[d]: the refresh token a device holds
  logouts,  \* how many logouts were asked for, for the bound
  member,   \* the user still belongs to the organization
  killed,   \* history: tokens whose key a logout deleted
  rotated,  \* history: when a token was rotated last, 0 for never
  spent,    \* history: tokens a logout was asked with and has blacklisted
  ended,    \* history: how many were issued when the last logout of all devices began
  missed,   \* history: tokens issued while a logout of all devices was under way
  req       \* the request in each slot

sessionVars == <<issued, key, start, born, index, rotated>>
accessVars == <<banned, stamp, spent, ended, missed>>
vars == <<now, sessionVars, accessVars, jar, logouts, member, killed, req>>

Nothing == [kind |-> "none", exp |-> 0, to |-> NoToken]
Session(exp) == [kind |-> "live", exp |-> exp, to |-> NoToken]
Marker(exp, t) == [kind |-> "marker", exp |-> exp, to |-> t]

NoIndex == [keys |-> {}, exp |-> 0]
NoStamp == [sec |-> -1, exp |-> 0]

\* What GET finds of a key.
Live(t) == key[t].kind = "live"
Rotated(t) == key[t].kind = "marker"
Usable(t) == Live(t) \/ Rotated(t)

Elapsed(t) == now - start[t]
Expired(t) == Elapsed(t) >= Max * PerSecond
RemainingUnscaled(t) == (Max - Elapsed(t)) \div PerSecond
\* remainingTtl: whole seconds, rounded down.
Remaining(t) == (Max * PerSecond - Elapsed(t)) \div PerSecond

Seconds(tick) == tick \div PerSecond
Iat(t) == Seconds(born[t])
Lapsed(t) == Seconds(now) >= Iat(t) + AccessTtl

StampedBefore(t) == Iat(t) < stamp.sec
\* isTokenIssuedBeforeLogoutAll: "Use <= to handle same-second edge case".
Stamped(t) == Iat(t) <= stamp.sec

\* canActivate lets a request with the access token pass.
Accepted(t) == ~Lapsed(t) /\ banned[t] = 0 /\ ~Stamped(t)

\* tok is the pair the request came with, goal what it is for, upto the tokens
\* issued when a logout of all devices began.
Idle == [pc |-> "idle", dev |-> CHOOSE d \in Devices : TRUE, tok |-> NoToken, goal |-> "answer",
         left |-> 0, at |-> 0, upto |-> 0, list |-> {}, ans |-> NoToken]

Init ==
  /\ now = 1
  /\ issued = 0
  /\ key = [t \in Tokens |-> Nothing]
  /\ start = [t \in Tokens |-> 1] /\ born = [t \in Tokens |-> 1]
  /\ banned = [t \in Tokens |-> 0]
  /\ stamp = NoStamp
  /\ index = NoIndex
  /\ jar = [d \in Devices |-> NoToken]
  /\ logouts = 0
  /\ member = TRUE
  /\ killed = {}
  /\ rotated = [t \in Tokens |-> 0]
  /\ spent = {} /\ ended = 0 /\ missed = {}
  /\ req = [q \in Requests |-> Idle]

At(q, pc) == req[q].pc = pc
Goto(q, pc) == req' = [req EXCEPT ![q].pc = pc]
Done(q) == req' = [req EXCEPT ![q] = Idle]

\* What the guard lets pass; revokeAllForUser notes the time first.
Begin(pc, d, t, upto) ==
  IF pc = "logoutAll" THEN [Idle EXCEPT !.pc = pc, !.dev = d, !.tok = t, !.at = now, !.upto = upto]
  ELSE [Idle EXCEPT !.pc = pc, !.dev = d, !.tok = t]

\* A refresh is answered, or the guard made it for a request that now goes on.
Answer(q, t, upto) ==
  req' = [req EXCEPT ![q] =
            IF t # NoToken /\ @.goal # "answer" THEN Begin(@.goal, @.dev, @.tok, upto)
            ELSE [Idle EXCEPT !.pc = "answer", !.dev = req[q].dev, !.ans = t]]

-----------------------------------------------------------------------------
(* Logging in and sending requests                                         *)

\* issueTokens, one MULTI: the session, its place in the index, the index's
\* expiry. The answer reaches the device.
Login(d) == LET t == issued + 1 IN
  /\ member /\ t \in Tokens
  /\ issued' = t
  /\ key' = [key EXCEPT ![t] = Session(now + Max * PerSecond)]
  /\ start' = [start EXCEPT ![t] = now] /\ born' = [born EXCEPT ![t] = now]
  /\ index' = [keys |-> index.keys \cup {t}, exp |-> now + Max * PerSecond]
  /\ jar' = [jar EXCEPT ![d] = t]
  /\ UNCHANGED <<now, accessVars, logouts, member, killed, rotated, req>>

\* A request whose access token has run out (tryRefresh), or an explicit refresh.
SendRefresh(q, d) ==
  /\ At(q, "idle") /\ jar[d] # NoToken
  /\ req' = [req EXCEPT ![q] = Begin("refresh", d, jar[d], issued)]
  /\ UNCHANGED <<now, sessionVars, accessVars, jar, logouts, member, killed>>

\* A logout of the device or of all devices (change-password comes to the latter).
\* The guard lets it pass, or refreshes for it first; the device's pair goes along.
SendLogout(q, d) ==
  /\ At(q, "idle") /\ jar[d] # NoToken
  /\ logouts < MaxLogouts /\ logouts' = logouts + 1
  /\ \E pc \in {"logout", "logoutAll"} :
       req' = [req EXCEPT ![q] =
                 IF Lapsed(jar[d]) THEN [Begin("refresh", d, jar[d], issued) EXCEPT !.goal = pc]
                 ELSE Begin(pc, d, jar[d], issued)]
  /\ Lapsed(jar[d]) \/ Accepted(jar[d])
  /\ UNCHANGED <<now, sessionVars, accessVars, jar, member, killed>>

\* The device takes the pair it is answered; a refusal changes nothing.
Deliver(q) ==
  /\ At(q, "answer")
  /\ jar' = IF req[q].ans # NoToken THEN [jar EXCEPT ![req[q].dev] = req[q].ans] ELSE jar
  /\ Done(q)
  /\ UNCHANGED <<now, sessionVars, accessVars, logouts, member, killed>>

Lose(q) ==
  /\ At(q, "answer")
  /\ Done(q)
  /\ UNCHANGED <<now, sessionVars, accessVars, jar, logouts, member, killed>>

-----------------------------------------------------------------------------
(* refresh                                                                 *)

ReadSession(q) == LET t == req[q].tok IN
  /\ At(q, "refresh")
  /\ \/ ~Usable(t) /\ Answer(q, NoToken, issued)
     \/ Rotated(t) /\ Answer(q, key[t].to, issued)
     \/ /\ Live(t) /\ Expired(t)
        /\ Goto(q, "deny")
     \/ /\ Live(t) /\ ~Expired(t)
        /\ req' = [req EXCEPT ![q].pc = "verify", ![q].left = Remaining(t), ![q].at = now]
  /\ UNCHANGED <<now, sessionVars, accessVars, jar, logouts, member, killed>>

\* verifyAccess reads the membership.
VerifyAccess(q) ==
  /\ At(q, "verify")
  /\ Goto(q, IF member THEN "rotate" ELSE "deny")
  /\ UNCHANGED <<now, sessionVars, accessVars, jar, logouts, member, killed>>

\* DEL, whatever the key holds by now.
Deny(q) == LET t == req[q].tok IN
  /\ At(q, "deny")
  /\ key' = [key EXCEPT ![t] = Nothing]
  /\ Answer(q, NoToken, issued)
  /\ UNCHANGED <<now, issued, start, born, index, rotated, accessVars, jar, logouts, member, killed>>

RotateUnlisted(q) == LET t == req[q].tok  n == issued + 1 IN
  /\ At(q, "rotate") /\ n \in Tokens
  /\ issued' = n
  /\ start' = [start EXCEPT ![n] = start[t]] /\ born' = [born EXCEPT ![n] = now]
  /\ rotated' = [rotated EXCEPT ![t] = now]
  /\ key' = [key EXCEPT ![t] = Marker(now + Grace * PerSecond, n),
                        ![n] = IF req[q].left = 0 THEN Nothing
                               ELSE Session(now + req[q].left * PerSecond)]
  /\ UNCHANGED index   \* the successor is not entered
  /\ Answer(q, n, n)
  /\ UNCHANGED <<now, accessVars, jar, logouts, member, killed>>

RotateSwapped(q) == LET t == req[q].tok  n == issued + 1 IN
  /\ At(q, "rotate") /\ n \in Tokens
  /\ issued' = n
  /\ start' = [start EXCEPT ![n] = start[t]] /\ born' = [born EXCEPT ![n] = now]
  /\ rotated' = [rotated EXCEPT ![t] = now]
  /\ key' = [key EXCEPT ![t] = Marker(now + req[q].left * PerSecond, n),
                        ![n] = Session(now + Grace * PerSecond)]   \* the expiries swapped
  /\ index' = [keys |-> (index.keys \ {t}) \cup {n}, exp |-> now + req[q].left * PerSecond]
  /\ Answer(q, n, n)
  /\ UNCHANGED <<now, accessVars, jar, logouts, member, killed>>

\* One MULTI: the old key becomes a marker for Grace, the new one the session
\* for what is left of it, and the index follows. In the last second nothing is
\* left: SET EX 0 fails, EXPIRE 0 deletes the index, the other commands apply.
Rotate(q) == LET t == req[q].tok  n == issued + 1 IN
  /\ At(q, "rotate") /\ n \in Tokens
  /\ issued' = n
  /\ start' = [start EXCEPT ![n] = start[t]] /\ born' = [born EXCEPT ![n] = now]
  /\ rotated' = [rotated EXCEPT ![t] = now]
  /\ key' = [key EXCEPT ![t] = Marker(now + Grace * PerSecond, n),
                        ![n] = IF req[q].left = 0 THEN Nothing
                               ELSE Session(now + req[q].left * PerSecond)]
  /\ index' = IF req[q].left = 0 THEN NoIndex
              ELSE [keys |-> (index.keys \ {t}) \cup {n}, exp |-> now + req[q].left * PerSecond]
  /\ Answer(q, n, n)
  /\ UNCHANGED <<now, accessVars, jar, logouts, member, killed>>

-----------------------------------------------------------------------------
(* logout, logoutAll: revokeToken, revokeAllForUser, blacklistAccessToken  *)

BanTtlShort(t) == Iat(t) + AccessTtl - Seconds(now + PerSecond - 1)
BanTtl(t) == Iat(t) + AccessTtl - Seconds(now)

\* A token that has run out needs no entry.
Ban(q) == LET t == req[q].tok IN
  /\ banned' = IF BanTtl(t) > 0 THEN [banned EXCEPT ![t] = now + BanTtl(t) * PerSecond] ELSE banned
  /\ spent' = spent \cup {t}
  /\ UNCHANGED <<now, sessionVars, stamp, ended, missed, jar, logouts, member, killed>>

BanFirst(q) == At(q, "logout") /\ Ban(q) /\ Goto(q, "read")
BanLast(q) == At(q, "wiped") /\ Ban(q) /\ Goto(q, "cleared")

\* GET: a marker is followed to the session's present token.
ReadRevoked(q) == LET t == req[q].tok IN
  /\ At(q, "read")
  /\ \/ ~Usable(t) /\ Goto(q, "cleared")
     \/ Rotated(t) /\ req' = [req EXCEPT ![q].pc = "unmark", ![q].ans = key[t].to]
     \/ Live(t) /\ Goto(q, "revoke")
  /\ UNCHANGED <<now, sessionVars, accessVars, jar, logouts, member, killed>>

Unmark(q) == LET t == req[q].tok IN
  /\ At(q, "unmark")
  /\ key' = [key EXCEPT ![t] = Nothing]
  /\ killed' = killed \cup {t}
  /\ req' = [req EXCEPT ![q].pc = "read", ![q].tok = req[q].ans, ![q].ans = NoToken]
  /\ UNCHANGED <<now, issued, start, born, index, rotated, accessVars, jar, logouts, member>>

Revoke(q) == LET t == req[q].tok IN
  /\ At(q, "revoke")
  /\ key' = [key EXCEPT ![t] = Nothing]
  /\ index' = [index EXCEPT !.keys = @ \ {t}]
  /\ killed' = killed \cup {t}
  /\ Goto(q, "cleared")
  /\ UNCHANGED <<now, issued, start, born, rotated, accessVars, jar, logouts, member>>

ListSessions(q) ==
  /\ At(q, "logoutAll")
  /\ req' = [req EXCEPT ![q].pc = "wipe", ![q].list = index.keys]
  /\ UNCHANGED <<now, sessionVars, accessVars, jar, logouts, member, killed>>

\* One MULTI with the time the request began. With no session listed there is
\* nothing to delete.
Wipe(q) ==
  /\ At(q, "wipe")
  /\ stamp' = [sec |-> Seconds(req[q].at), exp |-> now + Max * PerSecond]
  /\ ended' = req[q].upto
  /\ missed' = missed \cup (req[q].upto + 1 .. issued)
  /\ key' = [t \in Tokens |-> IF t \in req[q].list THEN Nothing ELSE key[t]]
  /\ index' = IF req[q].list = {} THEN index ELSE NoIndex
  /\ killed' = killed \cup req[q].list
  /\ req' = [req EXCEPT ![q] = Begin("wiped", @.dev, @.tok, 0)]
  /\ UNCHANGED <<now, issued, start, born, rotated, banned, spent, jar, logouts, member>>

\* clearAuthCookies reaches the device that logged out, or does not.
ClearCookies(q) ==
  /\ At(q, "cleared")
  /\ jar' \in {jar, [jar EXCEPT ![req[q].dev] = NoToken]}
  /\ Done(q)
  /\ UNCHANGED <<now, sessionVars, accessVars, logouts, member, killed>>

-----------------------------------------------------------------------------

LoseMembership ==
  /\ member
  /\ member' = FALSE
  /\ UNCHANGED <<now, sessionVars, accessVars, jar, logouts, killed, req>>

\* A refresh is at most Lag ticks between its first read and its last write.
\* Redis drops what expires.
Tick ==
  /\ now < MaxNow
  /\ \A q \in Requests : req[q].pc \in {"verify", "rotate"} => now - req[q].at < Lag
  /\ now' = now + 1
  /\ key' = [t \in Tokens |-> IF key[t].exp = now' THEN Nothing ELSE key[t]]
  /\ index' = IF index.exp = now' THEN NoIndex ELSE index
  /\ banned' = [t \in Tokens |-> IF banned[t] = now' THEN 0 ELSE banned[t]]
  /\ stamp' = IF stamp.exp = now' THEN NoStamp ELSE stamp
  /\ UNCHANGED <<issued, start, born, rotated, spent, ended, missed, jar, logouts, member, killed,
                 req>>

Refresh(q) == ReadSession(q) \/ VerifyAccess(q) \/ Deny(q) \/ Rotate(q)
Logout(q) == \/ BanFirst(q) \/ ReadRevoked(q) \/ Unmark(q) \/ Revoke(q)
             \/ ListSessions(q) \/ Wipe(q) \/ BanLast(q) \/ ClearCookies(q)

Next ==
  \/ \E d \in Devices : Login(d)
  \/ \E q \in Requests : \/ \E d \in Devices : SendRefresh(q, d) \/ SendLogout(q, d)
                         \/ Refresh(q) \/ Logout(q) \/ Deliver(q) \/ Lose(q)
  \/ LoseMembership \/ Tick

Spec == Init /\ [][Next]_vars

-----------------------------------------------------------------------------

Ticks == 0 .. (MaxNow + Max * PerSecond)

(* Every variable has its type: in particular no session is rotated with   *)
(* less than nothing left, which Redis would refuse.                       *)
TypeOK ==
  /\ now \in 1 .. MaxNow
  /\ issued \in 0 .. MaxTokens
  /\ key \in [Tokens -> [kind : {"none", "live", "marker"}, exp : Ticks,
                         to : Tokens \cup {NoToken}]]
  /\ start \in [Tokens -> 1 .. MaxNow] /\ born \in [Tokens -> 1 .. MaxNow]
  /\ index \in [keys : SUBSET Tokens, exp : Ticks]
  /\ rotated \in [Tokens -> 0 .. MaxNow]
  /\ banned \in [Tokens -> Ticks]
  /\ stamp \in [sec : -1 .. MaxNow, exp : Ticks]
  /\ spent \subseteq Tokens /\ missed \subseteq Tokens /\ ended \in 0 .. MaxTokens
  /\ jar \in [Devices -> Tokens \cup {NoToken}]
  /\ logouts \in 0 .. MaxLogouts
  /\ member \in BOOLEAN
  /\ killed \subseteq Tokens
  /\ req \in [Requests -> [pc : {"idle", "refresh", "verify", "deny", "rotate", "answer", "logout",
                                 "read", "unmark", "revoke", "logoutAll", "wipe", "wiped", "cleared"},
                           dev : Devices, tok : Tokens \cup {NoToken},
                           goal : {"answer", "logout", "logoutAll"}, left : 0 .. Max,
                           at : 0 .. MaxNow, upto : 0 .. MaxTokens, list : SUBSET Tokens,
                           ans : Tokens \cup {NoToken}]]

\* The last second of a session, in which Redis may have let go of it already.
AtItsEnd(t) == now > start[t] + (Max - 1) * PerSecond

(* "This is what stops (a) N concurrent requests from the same client      *)
(* racing one rotation [and] (b) a mobile client that lost the rotation    *)
(* response from being stranded with a dead token": whatever overlaps and  *)
(* whichever answers are lost or late, the token a device holds is good    *)
(* until a grace period after its own rotation, unless a logout or the     *)
(* loss of the membership ended the session or it is at its end.           *)
DevicesGoOn ==
  \A d \in Devices :
    LET t == jar[d] IN
      t # NoToken => \/ Usable(t)
                     \/ t \in killed \/ ~member
                     \/ AtItsEnd(t)
                     \/ rotated[t] # 0 /\ now >= rotated[t] + Grace * PerSecond

(* A rotated token answers with a pair whose own refresh token still works:*)
(* the marker of a token never outlives what it points at, however often   *)
(* the successor has been rotated since and although two overlapping       *)
(* refreshes wrote the marker twice.                                       *)
GraceLeadsHome ==
  \A t \in Tokens :
    Rotated(t) => LET s == key[t].to IN Usable(s) \/ s \in killed \/ ~member \/ AtItsEnd(s)

(* What a device holds works, and so does what it is answered in the time  *)
(* of grace.                                                               *)
NobodyStranded == DevicesGoOn /\ GraceLeadsHome

(* "The ABSOLUTE session lifetime": no chain of rotations carries a        *)
(* session past Max after the login, except for the time one refresh takes *)
(* between reading the session's age and writing what is left of it.       *)
EndsOnTime ==
  \A t \in Tokens : key[t].kind = "live" => key[t].exp <= start[t] + Max * PerSecond + Lag

(* "Store logout timestamp to invalidate all existing access tokens": no   *)
(* access token that was there when the last logout of all devices began   *)
(* is accepted once it is over, nor one a logout came with; neither runs   *)
(* out of the blacklist, or of the stamp, before it runs out itself.       *)
LoggedOutForGood ==
  \A t \in Tokens : t <= ended \/ t \in spent => ~Accepted(t)

(* What is over, by its age or by a logout, is over for good.              *)
OverIsOver == EndsOnTime /\ LoggedOutForGood

(* "Delete all session tokens": a logout of all devices ends every session *)
(* there was when it began, also those of devices that have not called for *)
(* long, unless the index has lost them: the refresh of an older session   *)
(* leaves the index only as long as that session has, and another logout   *)
(* of all devices deletes the index with what was added since it read it.  *)
LogoutEndsAll == [][
  \A q \in Requests : At(q, "wipe") /\ ~At(q, "wipe")' =>
    \A t \in 1 .. req[q].upto :
      key'[t].kind = "live" => \/ AtItsEnd(t)
                              \/ t \in missed
                              \/ \E s \in Tokens : rotated[s] # 0 /\ start[s] < start[t]
  ]_vars
=============================================================================
