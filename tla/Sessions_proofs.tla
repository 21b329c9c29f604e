---------------------------- MODULE Sessions_proofs ----------------------------
(***************************************************************************)
(* For any number of devices, requests, tokens and ticks, and any lengths  *)
(* of a session, a grace period and an access token: nobody is stranded by *)
(* refreshes that overlap, no session outlasts its age, what a logout ends *)
(* stays ended, and a logout of all devices reaches the sessions that the  *)
(* index still lists.                                                      *)
(***************************************************************************)
EXTENDS Sessions, TLAPS

----------------------------------------------------------------------------
(* The inductive invariant.                                                *)

Issued == 1 .. issued

(* Nothing is known of a token that was never issued, and no time is ahead *)
(* of the clock.                                                           *)
Clocks ==
  /\ \A t \in Tokens : start[t] <= now /\ born[t] <= now /\ rotated[t] <= now
  /\ \A t \in Tokens \ Issued : ~Usable(t) /\ rotated[t] = 0 /\ banned[t] = 0
  /\ spent \subseteq Issued /\ ended <= issued
  /\ \A d \in Devices : jar[d] <= issued

(* A session's key lasts until the last second of the session and at most  *)
(* Lag beyond its end.                                                     *)
SessionKeys ==
  \A t \in Tokens : Live(t) => /\ now < key[t].exp
                               /\ start[t] + (Max - 1) * PerSecond < key[t].exp
                               /\ key[t].exp <= start[t] + Max * PerSecond + Lag

(* A marker lasts for a grace period from its token's last rotation, and   *)
(* the token it leads to has not been rotated before that.                 *)
Markers ==
  \A t \in Tokens :
    Rotated(t) => /\ now < key[t].exp
                  /\ key[t].exp = rotated[t] + Grace * PerSecond
                  /\ rotated[t] > 0 /\ key[t].to \in Issued
                  /\ rotated[key[t].to] = 0 \/ rotated[t] <= rotated[key[t].to]

(* DevicesGoOn of every token there is, in a jar, on its way or nowhere.   *)
Fine(t) == Usable(t) \/ t \in killed \/ ~member \/ AtItsEnd(t)
PastGrace(t) == rotated[t] # 0 /\ now >= rotated[t] + Grace * PerSecond
TokensGoOn == \A t \in Issued : Fine(t) \/ PastGrace(t)

(* A logout's entry in the blacklist, and its stamp, outlast the access    *)
(* tokens they are for.                                                    *)
OutlivedBy(t, tick) == Iat(t) + AccessTtl <= Seconds(tick)
Bans ==
  \A t \in Tokens : /\ banned[t] # 0 => OutlivedBy(t, banned[t])
                    /\ t \in spent => Lapsed(t) \/ banned[t] # 0
Stamps ==
  \A t \in 1 .. ended : Lapsed(t) \/ (Stamped(t) /\ OutlivedBy(t, stamp.exp))

(* Why the index may have lost a session (see LogoutEndsAll); any other    *)
(* is in it, and the index does not expire before its last second.         *)
OlderRotated(t) == \E s \in Tokens : rotated[s] # 0 /\ start[s] < start[t]
LetGo(t) == AtItsEnd(t) \/ t \in missed \/ OlderRotated(t)
Listed ==
  \A t \in Tokens :
    Live(t) => \/ LetGo(t)
               \/ t \in index.keys /\ start[t] + (Max - 1) * PerSecond < index.exp

(* A request is about tokens there are.  A refresh knows what was left of  *)
(* the session when it read it; a logout of all devices, what the index    *)
(* did not show it of the sessions it is to end.                           *)
LeftOver(r) ==
  /\ start[r.tok] <= r.at /\ r.at <= now /\ now <= r.at + Lag
  /\ r.left * PerSecond <= start[r.tok] + Max * PerSecond - r.at
  /\ start[r.tok] + Max * PerSecond - r.at < r.left * PerSecond + PerSecond
Since(r) == r.upto <= issued /\ r.at <= now /\ \A t \in 1 .. r.upto : born[t] <= r.at
Shown(r) == \A t \in 1 .. r.upto : Live(t) => t \in r.list \/ LetGo(t)
Sane(r) ==
  /\ r.ans <= issued /\ r.tok <= issued
  /\ r.pc \notin {"idle", "answer"} => r.tok # NoToken
  /\ r.pc = "unmark" => r.ans # NoToken
  /\ r.pc \in {"verify", "rotate"} => LeftOver(r)
  /\ r.pc = "deny" => Expired(r.tok) \/ ~member
  /\ r.pc \in {"logoutAll", "wipe"} => Since(r)
  /\ r.pc = "wipe" => Shown(r)
Asked == {req[q] : q \in Requests}
Requested == \A r \in Asked : Sane(r)

Inv == Clocks /\ SessionKeys /\ Markers /\ TokensGoOn /\ Bans /\ Stamps /\ Listed /\ Requested
IInv == TypeOK /\ Inv

----------------------------------------------------------------------------
(* Constants, seconds and records.                                         *)

LEMMA Constants ==
  /\ PerSecond \in Nat \ {0} /\ Max \in Nat \ {0} /\ Grace \in Nat \ {0} /\ AccessTtl \in Nat \ {0}
  /\ MaxTokens \in Nat \ {0} /\ MaxNow \in Nat \ {0} /\ MaxLogouts \in Nat /\ Lag \in Nat
  /\ Grace <= Max /\ AccessTtl <= Max
BY SessionsAssumption

LEMMA Lengths ==
  /\ Max * PerSecond \in Nat /\ (Max - 1) * PerSecond \in Nat
  /\ (Max - 1) * PerSecond + PerSecond = Max * PerSecond
  /\ Grace * PerSecond \in Nat /\ 0 < Grace * PerSecond /\ Grace * PerSecond <= Max * PerSecond
BY Constants

(* Rounding down to whole seconds.                                         *)
LEMMA Whole ==
  ASSUME NEW a \in Nat
  PROVE  /\ Seconds(a) \in Nat /\ Seconds(a) <= a
         /\ Seconds(a) * PerSecond <= a /\ a < Seconds(a) * PerSecond + PerSecond
BY Constants DEF Seconds

LEMMA Smaller ==
  ASSUME NEW i \in Nat, NEW k \in Nat, i < k
  PROVE  i * PerSecond + PerSecond <= k * PerSecond /\ 0 < k * PerSecond
BY Constants

LEMMA Distributes ==
  ASSUME NEW i \in Nat, NEW k \in Nat
  PROVE  /\ i * PerSecond \in Nat /\ k * PerSecond \in Nat
         /\ (i + k) * PerSecond = i * PerSecond + k * PerSecond
BY Constants

LEMMA SecondsGrow ==
  ASSUME NEW a \in Nat, NEW b \in Nat, a <= b
  PROVE  Seconds(a) <= Seconds(b)
<1>1. CASE Seconds(b) < Seconds(a)
  <2>1. Seconds(b) * PerSecond + PerSecond <= Seconds(a) * PerSecond
    BY <1>1, Whole, Smaller
  <2> QED
    BY <2>1, Whole, Constants
<1> QED
  BY <1>1, Whole

LEMMA SecondsAhead ==
  ASSUME NEW a \in Nat, NEW k \in Nat
  PROVE  a + k * PerSecond \in Nat /\ Seconds(a + k * PerSecond) = Seconds(a) + k
<1> DEFINE b == a + k * PerSecond
           s == Seconds(a) + k
<1>1. Seconds(a) \in Nat /\ Seconds(a) * PerSecond <= a /\ a < Seconds(a) * PerSecond + PerSecond
  BY Whole
<1>2. /\ b \in Nat /\ s \in Nat /\ s * PerSecond \in Nat
      /\ s * PerSecond <= b /\ b < s * PerSecond + PerSecond
  <2>1. /\ k * PerSecond \in Nat /\ s * PerSecond = Seconds(a) * PerSecond + k * PerSecond
        /\ Seconds(a) * PerSecond \in Nat
    BY <1>1, Distributes
  <2> QED
    BY <1>1, <2>1, Constants
<1>3. Seconds(b) \in Nat /\ Seconds(b) * PerSecond <= b /\ b < Seconds(b) * PerSecond + PerSecond
  BY <1>2, Whole
<1> HIDE DEF b, s
<1>4. ~(s < Seconds(b)) /\ ~(Seconds(b) < s)
  BY <1>2, <1>3, Smaller, Constants
<1>5. Seconds(b) = s
  BY <1>2, <1>3, <1>4
<1> QED
  BY <1>2, <1>5 DEF b, s

Key == [kind : {"none", "live", "marker"}, exp : Ticks, to : Tokens \cup {NoToken}]

Request ==
  [pc : {"idle", "refresh", "verify", "deny", "rotate", "answer", "logout",
         "read", "unmark", "revoke", "logoutAll", "wipe", "wiped", "cleared"},
   dev : Devices, tok : Tokens \cup {NoToken}, goal : {"answer", "logout", "logoutAll"},
   left : 0 .. Max, at : 0 .. MaxNow, upto : 0 .. MaxTokens, list : SUBSET Tokens,
   ans : Tokens \cup {NoToken}]

LEMMA TokensAreNumbers ==
  /\ Tokens \subseteq Nat /\ NoToken \in Nat
  /\ \A t \in Tokens \cup {NoToken} : t \in Nat /\ (t # NoToken => t \in Tokens /\ 0 < t)
BY Constants DEF Tokens, NoToken

LEMMA Types ==
  ASSUME TypeOK
  PROVE  /\ now \in 1 .. MaxNow /\ now \in Nat /\ issued \in 0 .. MaxTokens /\ issued \in Nat
         /\ key \in [Tokens -> Key] /\ req \in [Requests -> Request]
         /\ Issued \subseteq Tokens /\ Tokens \subseteq Nat
         /\ start \in [Tokens -> 1 .. MaxNow] /\ born \in [Tokens -> 1 .. MaxNow]
         /\ rotated \in [Tokens -> 0 .. MaxNow]
<1>1. now \in 1 .. MaxNow /\ now \in Nat /\ issued \in 0 .. MaxTokens /\ issued \in Nat
  BY Constants DEF TypeOK
<1>2. key \in [Tokens -> Key]
  BY DEF TypeOK, Key
<1>3. req \in [Requests -> Request]
  BY DEF TypeOK, Request
<1>4. Issued \subseteq Tokens /\ Tokens \subseteq Nat
  BY <1>1, Constants DEF Issued, Tokens
<1> QED
  BY <1>1, <1>2, <1>3, <1>4 DEF TypeOK

LEMMA Clock ==
  /\ Ticks \subseteq Nat /\ 1 .. MaxNow \subseteq Ticks /\ 0 \in Ticks
  /\ \A n \in 1 .. MaxNow, k \in 0 .. Max : n + k * PerSecond \in Ticks
<1>1. ASSUME NEW k \in 0 .. Max
      PROVE  k * PerSecond \in Nat /\ k * PerSecond <= Max * PerSecond
  <2>1. Max - k \in Nat /\ k \in Nat /\ Max = (Max - k) + k
    BY Constants
  <2> QED
    BY <2>1, Distributes
<1> QED
  BY <1>1, Lengths, Constants DEF Ticks

LEMMA IdleFits ==
  Idle \in Request /\ Idle.pc = "idle" /\ Idle.tok = NoToken /\ Idle.ans = NoToken
<1>1. (CHOOSE d \in Devices : TRUE) \in Devices
  BY SessionsAssumption
<1> QED
  BY <1>1, Constants DEF Idle, Request, NoToken

LEMMA KeysFit ==
  /\ Nothing \in Key /\ Nothing.kind = "none"
  /\ \A e \in Ticks : Session(e) \in Key /\ Session(e).kind = "live" /\ Session(e).exp = e
  /\ \A e \in Ticks, t \in Tokens : /\ Marker(e, t) \in Key /\ Marker(e, t).kind = "marker"
                                    /\ Marker(e, t).exp = e /\ Marker(e, t).to = t
BY Clock DEF Nothing, Session, Marker, Key

LEMMA Starts == Init => IInv
<1> SUFFICES ASSUME Init PROVE IInv
  OBVIOUS
<1> USE Constants, Clock, KeysFit, IdleFits
<1>1. Tokens \subseteq Nat \ {0} /\ 1 \in 1 .. MaxNow /\ 0 \in 0 .. MaxTokens /\ issued = 0
  BY DEF Init, Tokens
<1>2. \A t \in Tokens : ~Live(t) /\ ~Rotated(t)
  BY DEF Init, Live, Rotated
<1>3. TypeOK
  BY <1>1 DEF Init, TypeOK, Key, Request, NoIndex, NoStamp, NoToken
<1>4. Clocks
  BY <1>1, <1>2 DEF Init, Clocks, Issued, Usable, NoToken
<1>5. SessionKeys /\ Markers /\ Listed
  BY <1>2 DEF SessionKeys, Markers, Listed
<1>6. TokensGoOn /\ Bans /\ Stamps
  BY <1>1 DEF Init, TokensGoOn, Issued, Bans, Stamps
<1>7. Requested
  BY <1>1 DEF Init, Requested, Asked, Sane, NoToken
<1> QED
  BY <1>3, <1>4, <1>5, <1>6, <1>7 DEF IInv, Inv

----------------------------------------------------------------------------
(* What the steps have in common.                                          *)

(* Time goes on; what is known of a token stays, and a session that is no  *)
(* longer there never comes back.                                          *)
Grows ==
  /\ now <= now' /\ issued <= issued' /\ member' \in {member, FALSE} /\ missed \subseteq missed'
  /\ \A t \in Issued : /\ start'[t] = start[t] /\ born'[t] = born[t]
                       /\ Live(t)' => Live(t)
                       /\ rotated[t] # 0 => rotated'[t] # 0

LEMMA LetGoStays ==
  ASSUME TypeOK, TypeOK', Clocks, Grows, NEW t \in Issued, LetGo(t)
  PROVE  LetGo(t)'
<1>1. /\ now \in Nat /\ now' \in Nat /\ start[t] \in Nat /\ start'[t] = start[t] /\ now <= now'
      /\ t \in Tokens
  BY Types, Constants DEF Grows, TypeOK
<1>2. CASE AtItsEnd(t)
  BY <1>1, <1>2, Lengths DEF LetGo, AtItsEnd
<1>3. CASE t \in missed
  BY <1>3 DEF LetGo, Grows
<1>4. CASE OlderRotated(t)
  <2>1. PICK s \in Tokens : rotated[s] # 0 /\ start[s] < start[t]
    BY <1>4 DEF OlderRotated
  <2>2. s \in Issued
    BY <2>1 DEF Clocks
  <2> QED
    BY <1>1, <2>1, <2>2 DEF LetGo, OlderRotated, Grows
<1> QED
  BY <1>2, <1>3, <1>4 DEF LetGo

LEMMA SaneStays ==
  ASSUME TypeOK, TypeOK', Clocks, Grows, NEW r \in Request, Sane(r),
         r.pc \in {"verify", "rotate"} => now' <= r.at + Lag
  PROVE  Sane(r)'
<1>0. /\ now \in Nat /\ now' \in Nat /\ now <= now' /\ issued \in Nat /\ issued' \in Nat
      /\ issued <= issued' /\ r.tok \in Nat /\ r.ans \in Nat /\ r.upto \in Nat /\ r.at \in Nat
      /\ Issued \subseteq Tokens /\ Tokens \subseteq Nat
      /\ r.tok # NoToken => r.tok \in Issued
  <2>1. /\ now \in Nat /\ now' \in Nat /\ issued \in Nat /\ issued' \in Nat
        /\ Issued \subseteq Tokens /\ Tokens \subseteq Nat
    BY Types, Constants DEF TypeOK
  <2>2. /\ r.tok \in Tokens \cup {NoToken} /\ r.ans \in Tokens \cup {NoToken}
        /\ r.upto \in Nat /\ r.at \in Nat
    BY Constants DEF Request
  <2>3. r.tok \in Nat /\ r.ans \in Nat
    BY <2>2, TokensAreNumbers
  <2>4. r.tok # NoToken => r.tok \in Issued
    BY <2>1, <2>2, <2>3, TokensAreNumbers DEF Issued, Sane
  <2> QED
    BY <2>1, <2>2, <2>3, <2>4 DEF Grows
<1>1. r.pc \in {"verify", "rotate"} => LeftOver(r)'
  BY <1>0 DEF Sane, LeftOver, Grows
<1>2. r.pc = "deny" => Expired(r.tok)' \/ ~member'
  <2>1. r.pc = "deny" /\ Expired(r.tok) => Expired(r.tok)'
    <3> SUFFICES ASSUME r.pc = "deny", Expired(r.tok) PROVE Expired(r.tok)'
      OBVIOUS
    <3>1. start'[r.tok] = start[r.tok] /\ start[r.tok] \in Nat
      BY <1>0, Types, Constants DEF Sane, Grows, TypeOK
    <3> QED
      BY <1>0, <3>1, Lengths DEF Expired, Elapsed
  <2> QED
    BY <2>1 DEF Sane, Grows
<1>3. r.pc \in {"logoutAll", "wipe"} => Since(r)'
  BY <1>0 DEF Sane, Since, Grows, Issued
<1>4. r.pc = "wipe" => Shown(r)'
  <2> SUFFICES ASSUME r.pc = "wipe", NEW t \in 1 .. r.upto, Live(t)'
               PROVE  t \in r.list \/ LetGo(t)'
    BY DEF Shown
  <2>1. t \in Issued
    BY <1>0 DEF Sane, Since, Issued
  <2> QED
    BY <2>1, LetGoStays DEF Sane, Shown, Grows
<1> QED
  BY <1>0, <1>1, <1>2, <1>3, <1>4 DEF Sane

(* Requests that hold nothing but a token.                                 *)
Plain(r) ==
  /\ r \in Request /\ r.ans <= issued /\ r.tok <= issued
  /\ r.pc \notin {"idle", "answer"} => r.tok # NoToken
  /\ r.pc \notin {"unmark", "verify", "rotate", "deny", "logoutAll", "wipe"}

LEMMA PlainIsSane == ASSUME NEW r, Plain(r) PROVE Sane(r)
BY DEF Plain, Sane

LEMMA PlainStays ==
  ASSUME TypeOK, TypeOK', Grows, NEW r, Plain(r)
  PROVE  Sane(r)'
<1>1. r.ans \in Nat /\ r.tok \in Nat /\ issued \in Nat /\ issued' \in Nat /\ issued <= issued'
  <2>1. issued \in Nat /\ issued' \in Nat /\ Tokens \subseteq Nat
    BY Types, Constants DEF TypeOK
  <2>2. r.tok \in Tokens \cup {NoToken} /\ r.ans \in Tokens \cup {NoToken}
    BY DEF Plain, Request
  <2> QED
    BY <2>1, <2>2, TokensAreNumbers DEF Grows
<1> QED
  BY <1>1 DEF Plain, Sane

(* The requests after a step in which one of them, or none, has moved.     *)
LEMMA RequestsStay ==
  ASSUME IInv, TypeOK', Grows, now' = now, Asked' \subseteq Asked
  PROVE  Requested'
<1> SUFFICES ASSUME NEW r \in Asked PROVE Sane(r)'
  BY DEF Requested
<1>1. r \in Request /\ Sane(r)
  BY Types DEF Asked, IInv, Inv, Requested
<1>2. r.pc \in {"verify", "rotate"} => now' <= r.at + Lag
  BY <1>1 DEF Sane, LeftOver
<1> QED
  BY <1>1, <1>2, SaneStays DEF IInv, Inv

LEMMA RequestMoves ==
  ASSUME IInv, TypeOK', Grows, now' = now, NEW q \in Requests, NEW r, Sane(r)',
         req' = [req EXCEPT ![q] = r]
  PROVE  Requested'
<1>1. Asked' \subseteq Asked \cup {r}
  BY Types DEF Asked, IInv
<1> SUFFICES ASSUME NEW w \in Asked PROVE Sane(w)'
  BY <1>1 DEF Requested
<1>2. w \in Request /\ Sane(w)
  BY Types DEF Asked, IInv, Inv, Requested
<1>3. w.pc \in {"verify", "rotate"} => now' <= w.at + Lag
  BY <1>2 DEF Sane, LeftOver
<1> QED
  BY <1>2, <1>3, SaneStays DEF IInv, Inv

Rest == <<now, sessionVars, accessVars, member, killed>>

LEMMA UnchangedGrows == ASSUME TypeOK, UNCHANGED Rest PROVE Grows
BY Types DEF Rest, sessionVars, accessVars, Grows, Live

LEMMA RestStays ==
  ASSUME IInv, UNCHANGED Rest, \A d \in Devices : jar'[d] <= issued
  PROVE  /\ Clocks' /\ SessionKeys' /\ Markers' /\ TokensGoOn'
         /\ Bans' /\ Stamps' /\ Listed'
<1> USE DEF IInv, Inv, Rest, sessionVars, accessVars
<1>1. Clocks'
  BY DEF Clocks, Issued, Usable, Live, Rotated
<1>2. SessionKeys'
  BY DEF SessionKeys, Live
<1>3. Markers'
  BY DEF Markers, Rotated, Issued
<1>4. TokensGoOn'
  BY DEF TokensGoOn, Issued, Fine, PastGrace, Usable, Live, Rotated, AtItsEnd
<1>5. Bans'
  BY DEF Bans, OutlivedBy, Lapsed, Iat
<1>6. Stamps'
  BY DEF Stamps, OutlivedBy, Lapsed, Iat, Stamped
<1>7. Listed'
  BY DEF Listed, LetGo, OlderRotated, AtItsEnd, Live
<1> QED
  BY <1>1, <1>2, <1>3, <1>4, <1>5, <1>6, <1>7

(* A request moves, its device may take a pair or lose it, and the rest    *)
(* stays.                                                                  *)
LEMMA MovesKeep ==
  ASSUME IInv, NEW q \in Requests, NEW r \in Request, Sane(r),
         req' = [req EXCEPT ![q] = r], UNCHANGED Rest,
         jar' \in [Devices -> Tokens \cup {NoToken}], \A d \in Devices : jar'[d] <= issued,
         logouts' \in 0 .. MaxLogouts
  PROVE  IInv'
<1>1. req' \in [Requests -> Request]
  BY Types DEF IInv
<1>2. TypeOK'
  BY <1>1 DEF IInv, TypeOK, Request, Rest, sessionVars, accessVars
<1>3. Grows /\ now' = now
  BY UnchangedGrows DEF IInv, Rest
<1>4. Sane(r)'
  <2>1. r.pc \in {"verify", "rotate"} => now' <= r.at + Lag
    BY <1>3 DEF Sane, LeftOver
  <2> QED
    BY <1>2, <1>3, <2>1, SaneStays DEF IInv, Inv
<1>5. Requested'
  BY <1>2, <1>3, <1>4, RequestMoves
<1> QED
  BY <1>2, <1>5, RestStays DEF IInv, Inv

LEMMA PlainMovesKeep ==
  ASSUME IInv, NEW q \in Requests, NEW r, Plain(r),
         req' = [req EXCEPT ![q] = r], UNCHANGED <<Rest, jar, logouts>>
  PROVE  IInv'
<1>1. /\ jar' \in [Devices -> Tokens \cup {NoToken}] /\ \A d \in Devices : jar'[d] <= issued
      /\ logouts' \in 0 .. MaxLogouts /\ UNCHANGED Rest /\ r \in Request
  BY DEF IInv, Inv, TypeOK, Clocks, Plain
<1> QED
  BY <1>1, MovesKeep, PlainIsSane

LEMMA IdleIsPlain == ASSUME TypeOK PROVE Plain(Idle)
BY IdleFits, Types, Constants DEF Plain, NoToken

----------------------------------------------------------------------------
(* The steps that leave the store alone.                                   *)

(* What Begin makes of a request that the guard lets pass.                 *)
LEMMA BeginFits ==
  ASSUME TypeOK, NEW pc \in {"refresh", "logout", "logoutAll", "wiped"}, NEW d \in Devices,
         NEW t \in Tokens, NEW u \in 0 .. MaxTokens
  PROVE  /\ Begin(pc, d, t, u) \in Request
         /\ Begin(pc, d, t, u).pc = pc /\ Begin(pc, d, t, u).tok = t
         /\ Begin(pc, d, t, u).ans = NoToken
         /\ pc = "logoutAll" => Begin(pc, d, t, u).upto = u /\ Begin(pc, d, t, u).at = now
<1>1. now \in 0 .. MaxNow
  BY Types, Constants
<1> QED
  BY <1>1, IdleFits DEF Begin, Request

LEMMA BeginIsSane ==
  ASSUME TypeOK, Clocks, NEW pc \in {"refresh", "logout", "logoutAll", "wiped"},
         NEW d \in Devices, NEW t \in Issued
  PROVE  Begin(pc, d, t, issued) \in Request /\ Sane(Begin(pc, d, t, issued))
<1> DEFINE r == Begin(pc, d, t, issued)
<1>1. issued \in 0 .. MaxTokens /\ issued \in Nat /\ t \in Tokens /\ t \in Nat /\ now \in Nat
  BY Types DEF Issued
<1>2. /\ r \in Request /\ r.pc = pc /\ r.tok = t /\ r.ans = NoToken
      /\ pc = "logoutAll" => r.upto = issued /\ r.at = now
  BY <1>1, BeginFits
<1> HIDE DEF r
<1>3. t <= issued /\ t # NoToken /\ NoToken <= issued
  BY <1>1 DEF Issued, NoToken
<1>4. pc = "logoutAll" => Since(r)
  <2> SUFFICES ASSUME r.upto = issued, r.at = now PROVE Since(r)
    BY <1>2
  <2>1. \A w \in 1 .. issued : born[w] <= now
    BY Types DEF Clocks, Issued
  <2> QED
    BY <1>1, <2>1 DEF Since
<1>5. Sane(r)
  BY <1>2, <1>3, <1>4 DEF Sane
<1> QED
  BY <1>2, <1>5 DEF r

LEMMA HeldIsIssued ==
  ASSUME TypeOK, NEW t \in Tokens \cup {NoToken}, t # NoToken, t <= issued
  PROVE  t \in Issued /\ t \in Tokens
BY TokensAreNumbers, Types DEF Issued

LEMMA SendRefreshKeeps ==
  ASSUME IInv, NEW q \in Requests, NEW d \in Devices, SendRefresh(q, d)
  PROVE  IInv'
<1>1. jar[d] \in Issued
  <2>1. jar[d] \in Tokens \cup {NoToken} /\ jar[d] # NoToken /\ jar[d] <= issued
    BY DEF SendRefresh, IInv, Inv, TypeOK, Clocks
  <2> QED
    BY <2>1, HeldIsIssued DEF IInv
<1>2. /\ jar' \in [Devices -> Tokens \cup {NoToken}] /\ \A w \in Devices : jar'[w] <= issued
      /\ logouts' \in 0 .. MaxLogouts /\ UNCHANGED Rest
  BY DEF SendRefresh, IInv, Inv, TypeOK, Clocks, Rest
<1> QED
  BY <1>1, <1>2, BeginIsSane, MovesKeep DEF SendRefresh, IInv, Inv

LEMMA SendLogoutKeeps ==
  ASSUME IInv, NEW q \in Requests, NEW d \in Devices, SendLogout(q, d)
  PROVE  IInv'
<1>1. jar[d] \in Issued
  <2>1. jar[d] \in Tokens \cup {NoToken} /\ jar[d] # NoToken /\ jar[d] <= issued
    BY DEF SendLogout, IInv, Inv, TypeOK, Clocks
  <2> QED
    BY <2>1, HeldIsIssued DEF IInv
<1>2. /\ jar' \in [Devices -> Tokens \cup {NoToken}] /\ \A w \in Devices : jar'[w] <= issued
      /\ logouts' \in 0 .. MaxLogouts /\ UNCHANGED Rest
  BY Constants DEF SendLogout, IInv, Inv, TypeOK, Clocks, Rest
<1>3. PICK pc \in {"logout", "logoutAll"} :
        req' = [req EXCEPT ![q] =
                  IF Lapsed(jar[d]) THEN [Begin("refresh", d, jar[d], issued) EXCEPT !.goal = pc]
                  ELSE Begin(pc, d, jar[d], issued)]
  BY DEF SendLogout
<1>4. CASE Lapsed(jar[d])
  <2> DEFINE b == Begin("refresh", d, jar[d], issued)
             r == [b EXCEPT !.goal = pc]
  <2>1. b \in Request /\ Sane(b) /\ b.pc = "refresh"
    BY <1>1, BeginIsSane, BeginFits, Types DEF IInv, Inv
  <2> HIDE DEF b
  <2>2. r \in Request /\ Sane(r)
    BY <2>1 DEF Request, Sane
  <2>3. req' = [req EXCEPT ![q] = r]
    BY <1>3, <1>4 DEF b
  <2> HIDE DEF r
  <2> QED
    BY <1>2, <2>2, <2>3, MovesKeep
<1>5. CASE ~Lapsed(jar[d])
  BY <1>1, <1>2, <1>3, <1>5, BeginIsSane, MovesKeep DEF IInv, Inv
<1> QED
  BY <1>4, <1>5

LEMMA DeliverKeeps ==
  ASSUME IInv, NEW q \in Requests, Deliver(q) \/ Lose(q)
  PROVE  IInv'
<1>1. req[q] \in Request /\ Sane(req[q]) /\ Plain(Idle)
  BY Types, IdleIsPlain DEF IInv, Inv, Requested, Asked
<1>2. /\ jar' \in [Devices -> Tokens \cup {NoToken}] /\ \A d \in Devices : jar'[d] <= issued
      /\ logouts' \in 0 .. MaxLogouts /\ UNCHANGED Rest /\ req' = [req EXCEPT ![q] = Idle]
  <2>1. /\ jar \in [Devices -> Tokens \cup {NoToken}] /\ \A d \in Devices : jar[d] <= issued
        /\ logouts \in 0 .. MaxLogouts
    BY DEF IInv, Inv, TypeOK, Clocks
  <2>2. /\ req[q].ans \in Tokens \cup {NoToken} /\ req[q].ans <= issued
        /\ req[q].dev \in Devices
    BY <1>1 DEF Request, Sane
  <2> QED
    BY <2>1, <2>2 DEF Deliver, Lose, Done, Rest
<1> QED
  BY <1>1, <1>2, MovesKeep, PlainIsSane DEF Plain

(* The answer of a refresh: a pair there is, or a refusal.                 *)
LEMMA AnswerKeeps ==
  ASSUME IInv, NEW q \in Requests, NEW t \in Issued \cup {NoToken}, Answer(q, t, issued),
         ~At(q, "idle"), ~At(q, "answer"), UNCHANGED <<Rest, jar, logouts>>
  PROVE  IInv'
<1>0. req[q] \in Request /\ Sane(req[q]) /\ req[q].tok \in Issued
  <2>1. req[q] \in Request /\ Sane(req[q])
    BY Types DEF IInv, Inv, Requested, Asked
  <2> QED
    BY <2>1, HeldIsIssued DEF IInv, Sane, At, Request
<1>1. /\ jar' \in [Devices -> Tokens \cup {NoToken}] /\ \A d \in Devices : jar'[d] <= issued
      /\ logouts' \in 0 .. MaxLogouts /\ UNCHANGED Rest
  BY DEF IInv, Inv, TypeOK, Clocks
<1>2. CASE t # NoToken /\ req[q].goal # "answer"
  <2> DEFINE b == Begin(req[q].goal, req[q].dev, req[q].tok, issued)
  <2>1. b \in Request /\ Sane(b)
    BY <1>0, <1>2, BeginIsSane DEF IInv, Inv, Request
  <2>2. req' = [req EXCEPT ![q] = b]
    BY <1>2, Types DEF Answer, IInv
  <2> HIDE DEF b
  <2> QED
    BY <1>1, <2>1, <2>2, MovesKeep
<1>3. CASE ~(t # NoToken /\ req[q].goal # "answer")
  <2> DEFINE b == [Idle EXCEPT !.pc = "answer", !.dev = req[q].dev, !.ans = t]
  <2>1. t \in Tokens \cup {NoToken} /\ t <= issued /\ NoToken <= issued
    BY Types, TokensAreNumbers DEF IInv, Issued, NoToken
  <2>2. Plain(b)
    BY <1>0, <2>1, IdleFits DEF Plain, Request
  <2>3. req' = [req EXCEPT ![q] = b]
    BY <1>3, Types DEF Answer, IInv
  <2> HIDE DEF b
  <2> QED
    BY <1>1, <2>2, <2>3, MovesKeep, PlainIsSane DEF Plain
<1> QED
  BY <1>2, <1>3

(* What is left of a session, in whole seconds.                            *)
LEMMA LeftFits ==
  ASSUME IInv, NEW t \in Issued, ~Expired(t)
  PROVE  /\ Remaining(t) \in 0 .. Max
         /\ Remaining(t) * PerSecond <= start[t] + Max * PerSecond - now
         /\ start[t] + Max * PerSecond - now < Remaining(t) * PerSecond + PerSecond
<1> DEFINE a == Max * PerSecond - (now - start[t])
<1>1. start[t] \in Nat /\ now \in Nat /\ start[t] <= now /\ t \in Tokens
  BY Types, Constants DEF IInv, Inv, Clocks
<1>2. a \in Nat /\ a <= Max * PerSecond
  BY <1>1, Lengths DEF Expired, Elapsed
<1>3. a = start[t] + Max * PerSecond - now
  BY <1>1, Lengths
<1>4. Remaining(t) = Seconds(a)
  BY DEF Remaining, Elapsed, Seconds
<1> HIDE DEF a
<1>5. Seconds(a) \in Nat /\ Seconds(a) * PerSecond <= a /\ a < Seconds(a) * PerSecond + PerSecond
  BY <1>2, Whole
<1>6. Seconds(a) <= Max
  <2>1. SUFFICES ASSUME Max < Seconds(a) PROVE FALSE
    BY <1>5, Constants
  <2>2. Max * PerSecond + PerSecond <= Seconds(a) * PerSecond
    BY <1>5, <2>1, Smaller, Constants
  <2>3. Seconds(a) * PerSecond \in Nat
    BY <1>5, Distributes
  <2> QED
    BY <1>2, <1>5, <2>2, <2>3, Lengths, Constants
<1> QED
  BY <1>3, <1>4, <1>5, <1>6, Constants

LEMMA ReadSessionKeeps ==
  ASSUME IInv, NEW q \in Requests, ReadSession(q)
  PROVE  IInv'
<1> DEFINE t == req[q].tok
<1>0. /\ req[q] \in Request /\ Sane(req[q]) /\ t \in Issued /\ t \in Tokens
      /\ ~At(q, "idle") /\ ~At(q, "answer") /\ req[q].ans <= issued
  <2>1. req[q] \in Request /\ Sane(req[q]) /\ req[q].pc = "refresh"
    BY Types DEF IInv, Inv, Requested, Asked, ReadSession, At
  <2> QED
    BY <2>1, HeldIsIssued DEF IInv, Sane, At, Request
<1>1. UNCHANGED <<Rest, jar, logouts>>
  BY DEF ReadSession, Rest
<1>2. CASE ~Usable(t) /\ Answer(q, NoToken, issued)
  BY <1>0, <1>1, <1>2, AnswerKeeps
<1>3. CASE Rotated(t) /\ Answer(q, key[t].to, issued)
  BY <1>0, <1>1, <1>3, AnswerKeeps DEF IInv, Inv, Markers
<1>4. CASE Expired(t) /\ Goto(q, "deny")
  <2> DEFINE r == [req[q] EXCEPT !.pc = "deny"]
  <2>1. req' = [req EXCEPT ![q] = r] /\ r \in Request
    BY <1>0, <1>4, Types DEF Goto, Request, IInv
  <2>2. Sane(r)
    BY <1>0, <1>4, TokensAreNumbers DEF Sane, At, Request
  <2>3. /\ jar' \in [Devices -> Tokens \cup {NoToken}] /\ \A d \in Devices : jar'[d] <= issued
        /\ logouts' \in 0 .. MaxLogouts /\ UNCHANGED Rest
    BY <1>1 DEF IInv, Inv, TypeOK, Clocks
  <2> HIDE DEF r
  <2> QED
    BY <2>1, <2>2, <2>3, MovesKeep
<1>5. CASE /\ ~Expired(t)
           /\ req' = [req EXCEPT ![q].pc = "verify", ![q].left = Remaining(t), ![q].at = now]
  <2> DEFINE r == [req[q] EXCEPT !.pc = "verify", !.left = Remaining(t), !.at = now]
  <2>1. now \in 0 .. MaxNow /\ now \in Nat /\ start[t] <= now
    BY <1>0, Types, Constants DEF IInv, Inv, Clocks
  <2>2. req' = [req EXCEPT ![q] = r] /\ r \in Request
    BY <1>0, <1>5, <2>1, Types, LeftFits DEF Request, IInv
  <2>3. /\ r.pc = "verify" /\ r.tok = t /\ r.at = now /\ r.left = Remaining(t)
        /\ r.ans = req[q].ans
    BY <1>0 DEF Request
  <2> HIDE DEF r
  <2>4. LeftOver(r)
    BY <1>0, <1>5, <2>1, <2>3, LeftFits, Constants DEF LeftOver
  <2>5. Sane(r)
    BY <1>0, <2>3, <2>4 DEF Sane, At
  <2>6. /\ jar' \in [Devices -> Tokens \cup {NoToken}] /\ \A d \in Devices : jar'[d] <= issued
        /\ logouts' \in 0 .. MaxLogouts /\ UNCHANGED Rest
    BY <1>1 DEF IInv, Inv, TypeOK, Clocks
  <2> QED
    BY <2>2, <2>5, <2>6, MovesKeep
<1> QED
  BY <1>2, <1>3, <1>4, <1>5 DEF ReadSession

LEMMA VerifyAccessKeeps ==
  ASSUME IInv, NEW q \in Requests, VerifyAccess(q)
  PROVE  IInv'
<1> DEFINE pc == IF member THEN "rotate" ELSE "deny"
           r == [req[q] EXCEPT !.pc = pc]
<1>1. req[q] \in Request /\ Sane(req[q]) /\ req[q].pc = "verify"
  BY Types DEF IInv, Inv, Requested, Asked, VerifyAccess, At
<1>2. req' = [req EXCEPT ![q] = r] /\ r \in Request
  BY <1>1, Types DEF VerifyAccess, Goto, Request, IInv
<1>3. /\ r.pc = pc /\ r.tok = req[q].tok /\ r.at = req[q].at /\ r.left = req[q].left
      /\ r.ans = req[q].ans
  BY <1>1 DEF Request
<1> HIDE DEF r
<1>4. LeftOver(r)
  BY <1>1, <1>3 DEF Sane, LeftOver
<1>5. Sane(r)
  BY <1>1, <1>3, <1>4 DEF Sane
<1>6. /\ jar' \in [Devices -> Tokens \cup {NoToken}] /\ \A d \in Devices : jar'[d] <= issued
      /\ logouts' \in 0 .. MaxLogouts /\ UNCHANGED Rest
  BY DEF IInv, Inv, TypeOK, Clocks, VerifyAccess, Rest
<1> QED
  BY <1>2, <1>5, <1>6, MovesKeep

LEMMA ReadRevokedKeeps ==
  ASSUME IInv, NEW q \in Requests, ReadRevoked(q)
  PROVE  IInv'
<1> DEFINE t == req[q].tok
<1>1. /\ req[q] \in Request /\ Sane(req[q]) /\ t \in Issued /\ t \in Tokens
      /\ req[q].pc = "read"
  <2>1. req[q] \in Request /\ Sane(req[q]) /\ req[q].pc = "read"
    BY Types DEF IInv, Inv, Requested, Asked, ReadRevoked, At
  <2> QED
    BY <2>1, HeldIsIssued DEF IInv, Sane, Request
<1>2. UNCHANGED <<Rest, jar, logouts>>
  BY DEF ReadRevoked, Rest
<1>3. ASSUME NEW pc \in {"cleared", "revoke"}, Goto(q, pc) PROVE IInv'
  <2> DEFINE r == [req[q] EXCEPT !.pc = pc]
  <2>1. Plain(r) /\ req' = [req EXCEPT ![q] = r]
    BY <1>1, <1>3, Types DEF Goto, Plain, Request, Sane, IInv
  <2> HIDE DEF r
  <2> QED
    BY <1>2, <2>1, PlainMovesKeep
<1>4. CASE Rotated(t) /\ req' = [req EXCEPT ![q].pc = "unmark", ![q].ans = key[t].to]
  <2> DEFINE r == [req[q] EXCEPT !.pc = "unmark", !.ans = key[t].to]
  <2>1. key[t].to \in Issued /\ key[t].to \in Tokens /\ key[t].to <= issued /\ key[t].to # NoToken
    BY <1>1, <1>4, Types, TokensAreNumbers DEF IInv, Inv, Markers, Issued, NoToken
  <2>2. req' = [req EXCEPT ![q] = r] /\ r \in Request
    BY <1>1, <1>4, <2>1, Types DEF Request, IInv
  <2>3. Sane(r)
    BY <1>1, <2>1 DEF Sane, Request
  <2>4. /\ jar' \in [Devices -> Tokens \cup {NoToken}] /\ \A d \in Devices : jar'[d] <= issued
        /\ logouts' \in 0 .. MaxLogouts /\ UNCHANGED Rest
    BY <1>2 DEF IInv, Inv, TypeOK, Clocks
  <2> HIDE DEF r
  <2> QED
    BY <2>2, <2>3, <2>4, MovesKeep
<1> QED
  BY <1>3, <1>4 DEF ReadRevoked

LEMMA ListSessionsKeeps ==
  ASSUME IInv, NEW q \in Requests, ListSessions(q)
  PROVE  IInv'
<1> DEFINE r == [req[q] EXCEPT !.pc = "wipe", !.list = index.keys]
<1>1. req[q] \in Request /\ Sane(req[q]) /\ req[q].pc = "logoutAll"
  BY Types DEF IInv, Inv, Requested, Asked, ListSessions, At
<1>2. req' = [req EXCEPT ![q] = r] /\ r \in Request
  BY <1>1, Types DEF ListSessions, Request, IInv, TypeOK
<1>3. /\ r.pc = "wipe" /\ r.tok = req[q].tok /\ r.at = req[q].at /\ r.upto = req[q].upto
      /\ r.ans = req[q].ans /\ r.list = index.keys
  BY <1>1 DEF Request
<1> HIDE DEF r
<1>4. Since(r)
  BY <1>1, <1>3 DEF Sane, Since
<1>5. Shown(r)
  <2> SUFFICES ASSUME NEW t \in 1 .. r.upto, Live(t)
               PROVE  t \in index.keys \/ LetGo(t)
    BY <1>3 DEF Shown
  <2>1. t \in Tokens
    <3>1. r.upto \in Nat /\ r.upto <= issued /\ issued \in Nat
      BY <1>2, <1>4, Types, Constants DEF Since, Request, IInv
    <3> QED
      BY <3>1, Types DEF Issued, IInv
  <2> QED
    BY <2>1 DEF IInv, Inv, Listed
<1>6. Sane(r)
  BY <1>1, <1>3, <1>4, <1>5 DEF Sane
<1>7. /\ jar' \in [Devices -> Tokens \cup {NoToken}] /\ \A d \in Devices : jar'[d] <= issued
      /\ logouts' \in 0 .. MaxLogouts /\ UNCHANGED Rest
  BY DEF IInv, Inv, TypeOK, Clocks, ListSessions, Rest
<1> QED
  BY <1>2, <1>6, <1>7, MovesKeep

LEMMA ClearCookiesKeeps ==
  ASSUME IInv, NEW q \in Requests, ClearCookies(q)
  PROVE  IInv'
<1>1. Plain(Idle) /\ req' = [req EXCEPT ![q] = Idle] /\ UNCHANGED Rest
  BY IdleIsPlain DEF IInv, ClearCookies, Done, Rest
<1>2. /\ jar' \in [Devices -> Tokens \cup {NoToken}] /\ \A d \in Devices : jar'[d] <= issued
      /\ logouts' \in 0 .. MaxLogouts
  <2>1. /\ jar \in [Devices -> Tokens \cup {NoToken}] /\ \A d \in Devices : jar[d] <= issued
        /\ logouts \in 0 .. MaxLogouts /\ NoToken <= issued
    BY Types DEF IInv, Inv, TypeOK, Clocks, NoToken
  <2> QED
    BY <2>1 DEF ClearCookies
<1> QED
  BY <1>1, <1>2, MovesKeep, PlainIsSane DEF Plain

----------------------------------------------------------------------------
(* The steps that delete a key.                                            *)

LEMMA KeyGoes ==
  ASSUME TypeOK, NEW t \in Tokens, key' = [key EXCEPT ![t] = Nothing]
  PROVE  /\ key' \in [Tokens -> Key]
         /\ \A w \in Tokens \ {t} : key'[w] = key[w]
         /\ ~Live(t)' /\ ~Rotated(t)' /\ ~Usable(t)'
BY Types, KeysFit DEF Live, Rotated, Usable

LEMMA RemovalKeeps ==
  ASSUME IInv, NEW q \in Requests, NEW t \in Issued, NEW r, Plain(r),
         req' = [req EXCEPT ![q] = r], key' = [key EXCEPT ![t] = Nothing],
         index' \in {index, [index EXCEPT !.keys = @ \ {t}]},
         killed' \in {killed, killed \cup {t}},
         t \in killed' \/ ~member \/ AtItsEnd(t),
         UNCHANGED <<now, issued, start, born, rotated, accessVars, jar, logouts, member>>
  PROVE  IInv'
<1> USE DEF IInv, Inv
<1>0. /\ t \in Tokens /\ key' \in [Tokens -> Key]
      /\ \A w \in Tokens \ {t} : key'[w] = key[w]
      /\ ~Live(t)' /\ ~Rotated(t)' /\ ~Usable(t)'
      /\ UNCHANGED <<now, issued, start, born, rotated, jar, logouts, member>>
      /\ UNCHANGED <<banned, stamp, spent, ended, missed>>
  BY Types, KeyGoes DEF accessVars
<1>k. /\ \A w \in Tokens : Live(w)' => w # t /\ Live(w) /\ key'[w] = key[w]
      /\ \A w \in Tokens : Rotated(w)' => w # t /\ Rotated(w) /\ key'[w] = key[w]
      /\ \A w \in Tokens \ {t} : Usable(w)' <=> Usable(w)
  BY <1>0 DEF Live, Rotated, Usable
<1>i. /\ index \in [keys : SUBSET Tokens, exp : Ticks]
      /\ index' \in [keys : SUBSET Tokens, exp : Ticks]
      /\ index'.exp = index.exp /\ index.keys \ {t} \subseteq index'.keys
  BY DEF TypeOK
<1>1. TypeOK'
  <2>1. req' \in [Requests -> Request] /\ killed' \subseteq Tokens
    BY <1>0, Types DEF Plain, TypeOK
  <2> QED
    BY <1>0, <1>i, <2>1 DEF TypeOK, Key, Request
<1>2. Grows /\ now' = now
  BY <1>0, <1>k, Types DEF Grows
<1>3. Clocks'
  BY <1>0, <1>k DEF Clocks, Issued
<1>4. SessionKeys'
  BY <1>0, <1>k DEF SessionKeys
<1>5. Markers'
  BY <1>0, <1>k DEF Markers, Issued
<1>6. TokensGoOn'
  <2> SUFFICES ASSUME NEW w \in Issued PROVE Fine(w)' \/ PastGrace(w)'
    BY <1>0 DEF TokensGoOn, Issued
  <2>1. Fine(w) \/ PastGrace(w)
    BY DEF TokensGoOn
  <2>2. CASE w = t
    BY <1>0, <2>2 DEF Fine, AtItsEnd
  <2>3. CASE w # t
    BY <1>0, <1>k, <2>1, <2>3, Types DEF Fine, PastGrace, AtItsEnd
  <2> QED
    BY <2>2, <2>3
<1>7. Bans'
  BY <1>0 DEF Bans, OutlivedBy, Lapsed, Iat
<1>8. Stamps'
  BY <1>0 DEF Stamps, OutlivedBy, Lapsed, Iat, Stamped
<1>9. Listed'
  <2> SUFFICES ASSUME NEW w \in Tokens, Live(w)'
               PROVE  \/ LetGo(w)'
                      \/ w \in index'.keys /\ start'[w] + (Max - 1) * PerSecond < index'.exp
    BY DEF Listed
  <2>1. w \in Issued /\ w # t /\ Live(w)
    BY <1>k DEF Clocks, Usable
  <2>2. CASE LetGo(w)
    BY <1>1, <1>2, <2>1, <2>2, LetGoStays
  <2>3. CASE w \in index.keys /\ start[w] + (Max - 1) * PerSecond < index.exp
    BY <1>0, <1>i, <2>1, <2>3
  <2> QED
    BY <2>1, <2>2, <2>3 DEF Listed
<1>10. Requested'
  <2>1. Sane(r)'
    BY <1>1, <1>2, PlainStays
  <2> QED
    BY <1>1, <1>2, <2>1, RequestMoves
<1> QED
  BY <1>1, <1>3, <1>4, <1>5, <1>6, <1>7, <1>8, <1>9, <1>10

LEMMA ReqFacts ==
  ASSUME IInv, NEW q \in Requests, ~At(q, "idle"), ~At(q, "answer")
  PROVE  /\ req[q] \in Request /\ Sane(req[q]) /\ req[q].tok \in Issued /\ req[q].tok \in Tokens
         /\ req[q].tok # NoToken /\ req[q].tok <= issued
<1>1. req[q] \in Request /\ Sane(req[q])
  BY Types DEF IInv, Inv, Requested, Asked
<1> QED
  BY <1>1, HeldIsIssued DEF IInv, Sane, At, Request

LEMMA DenyKeeps ==
  ASSUME IInv, NEW q \in Requests, Deny(q)
  PROVE  IInv'
<1> DEFINE t == req[q].tok
           b == [Idle EXCEPT !.pc = "answer", !.dev = req[q].dev, !.ans = NoToken]
<1>1. req[q] \in Request /\ Sane(req[q]) /\ t \in Issued /\ t \in Tokens /\ req[q].pc = "deny"
  BY ReqFacts DEF Deny, At
<1>2. ~member \/ AtItsEnd(t)
  <2>1. CASE Expired(t)
    <3>1. start[t] \in Nat /\ now \in Nat
      BY <1>1, Types, Constants DEF IInv
    <3> QED
      BY <2>1, <3>1, Lengths, Constants DEF Expired, Elapsed, AtItsEnd
  <2> QED
    BY <1>1, <2>1 DEF Sane
<1>0. NoToken <= issued
  BY Types DEF IInv, NoToken
<1>3. Plain(b)
  BY <1>0, <1>1, IdleFits DEF Plain, Request
<1>4. req' = [req EXCEPT ![q] = b]
  BY Types DEF Deny, Answer, IInv
<1>5. /\ key' = [key EXCEPT ![t] = Nothing] /\ index' = index /\ killed' = killed
      /\ UNCHANGED <<now, issued, start, born, rotated, accessVars, jar, logouts, member>>
  BY DEF Deny
<1> HIDE DEF b
<1> QED
  BY <1>1, <1>2, <1>3, <1>4, <1>5, RemovalKeeps

LEMMA UnmarkKeeps ==
  ASSUME IInv, NEW q \in Requests, Unmark(q)
  PROVE  IInv'
<1> DEFINE t == req[q].tok
           r == [req[q] EXCEPT !.pc = "read", !.tok = req[q].ans, !.ans = NoToken]
<1>1. req[q] \in Request /\ Sane(req[q]) /\ t \in Issued /\ t \in Tokens /\ req[q].pc = "unmark"
  BY ReqFacts DEF Unmark, At
<1>0. NoToken <= issued
  BY Types DEF IInv, NoToken
<1>2. Plain(r)
  <2>1. /\ r \in Request /\ r.pc = "read" /\ r.tok = req[q].ans /\ r.ans = NoToken
    BY <1>1 DEF Request
  <2>2. req[q].ans # NoToken /\ req[q].ans <= issued
    BY <1>1 DEF Sane
  <2> QED
    BY <1>0, <2>1, <2>2 DEF Plain
<1>3. req' = [req EXCEPT ![q] = r]
  BY Types DEF Unmark, IInv
<1>4. /\ key' = [key EXCEPT ![t] = Nothing] /\ index' = index /\ killed' = killed \cup {t}
      /\ UNCHANGED <<now, issued, start, born, rotated, accessVars, jar, logouts, member>>
  BY DEF Unmark
<1> HIDE DEF r
<1> QED
  BY <1>1, <1>2, <1>3, <1>4, RemovalKeeps

LEMMA RevokeKeeps ==
  ASSUME IInv, NEW q \in Requests, Revoke(q)
  PROVE  IInv'
<1> DEFINE t == req[q].tok
           r == [req[q] EXCEPT !.pc = "cleared"]
<1>1. req[q] \in Request /\ Sane(req[q]) /\ t \in Issued /\ t \in Tokens /\ req[q].pc = "revoke"
  BY ReqFacts DEF Revoke, At
<1>2. Plain(r)
  BY <1>1 DEF Plain, Request, Sane
<1>3. req' = [req EXCEPT ![q] = r]
  BY Types DEF Revoke, Goto, IInv
<1>4. /\ key' = [key EXCEPT ![t] = Nothing] /\ index' = [index EXCEPT !.keys = @ \ {t}]
      /\ killed' = killed \cup {t}
      /\ UNCHANGED <<now, issued, start, born, rotated, accessVars, jar, logouts, member>>
  BY DEF Revoke
<1> HIDE DEF r
<1> QED
  BY <1>1, <1>2, <1>3, <1>4, RemovalKeeps

----------------------------------------------------------------------------
(* The blacklist, the wipe, the loss of the membership.                    *)

LEMMA BanFits ==
  ASSUME IInv, NEW t \in Issued
  PROVE  /\ BanTtl(t) > 0 => /\ now + BanTtl(t) * PerSecond \in Ticks \ {0}
                             /\ OutlivedBy(t, now + BanTtl(t) * PerSecond)
         /\ BanTtl(t) <= 0 => Lapsed(t)
<1>1. /\ born[t] \in Nat /\ now \in Nat /\ born[t] <= now /\ t \in Tokens
      /\ now \in 1 .. MaxNow
  BY Types, Constants DEF IInv, Inv, Clocks
<1>2. Seconds(now) \in Nat /\ Iat(t) \in Nat /\ Iat(t) <= Seconds(now)
  BY <1>1, Whole, SecondsGrow DEF Iat
<1>3. ASSUME BanTtl(t) > 0
      PROVE  /\ now + BanTtl(t) * PerSecond \in Ticks \ {0}
             /\ OutlivedBy(t, now + BanTtl(t) * PerSecond)
  <2> DEFINE k == BanTtl(t)
  <2>1. k \in Nat /\ k \in 0 .. Max /\ Seconds(now) + k = Iat(t) + AccessTtl
    BY <1>2, <1>3, Constants DEF BanTtl
  <2> HIDE DEF k
  <2>2. now + k * PerSecond \in Ticks /\ Seconds(now + k * PerSecond) = Seconds(now) + k
    BY <1>1, <2>1, Clock, SecondsAhead
  <2>3. k * PerSecond \in Nat
    BY <2>1, Distributes
  <2>4. now + k * PerSecond # 0
    BY <1>1, <2>3
  <2>5. OutlivedBy(t, now + k * PerSecond)
    BY <1>2, <2>1, <2>2, Constants DEF OutlivedBy
  <2> QED
    BY <2>2, <2>4, <2>5 DEF k
<1>4. BanTtl(t) <= 0 => Lapsed(t)
  BY <1>2, Constants DEF BanTtl, Lapsed
<1> QED
  BY <1>3, <1>4

LEMMA BanKeeps ==
  ASSUME IInv, NEW q \in Requests, BanFirst(q) \/ BanLast(q)
  PROVE  IInv'
<1> USE DEF IInv, Inv
<1> DEFINE t == req[q].tok
<1>1. PICK pc \in {"read", "cleared"} : Ban(q) /\ Goto(q, pc) /\ ~At(q, "idle") /\ ~At(q, "answer")
  BY DEF BanFirst, BanLast, At
<1>2. req[q] \in Request /\ Sane(req[q]) /\ t \in Issued /\ t \in Tokens
  BY <1>1, ReqFacts
<1>3. PICK r : Plain(r) /\ req' = [req EXCEPT ![q] = r]
  <2> DEFINE r == [req[q] EXCEPT !.pc = pc]
  <2>1. Plain(r) /\ req' = [req EXCEPT ![q] = r]
    BY <1>1, <1>2, ReqFacts, Types DEF Plain, Request, Sane, Goto
  <2> QED
    BY <2>1
<1>4. /\ UNCHANGED <<now, issued, key, start, born, index, rotated, stamp, ended, missed>>
      /\ UNCHANGED <<jar, logouts, member, killed>>
      /\ spent' = spent \cup {t}
  BY <1>1 DEF Ban, sessionVars
<1>5. /\ banned' \in [Tokens -> Ticks]
      /\ \A w \in Tokens \ {t} : banned'[w] = banned[w]
      /\ banned'[t] # 0 => OutlivedBy(t, banned'[t])
      /\ banned'[t] # 0 \/ Lapsed(t)
  <2>1. banned \in [Tokens -> Ticks] /\ (banned[t] # 0 => OutlivedBy(t, banned[t]))
    BY <1>2 DEF TypeOK, Bans
  <2>2. CASE BanTtl(t) > 0
    BY <1>1, <1>2, <2>1, <2>2, BanFits DEF Ban
  <2>3. CASE ~(BanTtl(t) > 0)
    <3>1. banned' = banned
      BY <1>1, <2>3 DEF Ban
    <3>2. BanTtl(t) \in Int
      BY <1>2, Types, Whole, Constants DEF BanTtl, Iat
    <3> QED
      BY <1>2, <2>1, <2>3, <3>1, <3>2, BanFits
  <2> QED
    BY <2>2, <2>3
<1>6. TypeOK'
  <2>1. req' \in [Requests -> Request]
    BY <1>3, Types DEF Plain
  <2> QED
    BY <1>2, <1>4, <1>5, <2>1 DEF TypeOK, Request
<1>7. Grows /\ now' = now
  BY <1>4, Types DEF Grows, Live
<1>8. Clocks'
  BY <1>2, <1>4, <1>5 DEF Clocks, Issued, Usable, Live, Rotated
<1>9. SessionKeys' /\ Markers' /\ TokensGoOn' /\ Stamps' /\ Listed'
  <2>1. SessionKeys' /\ Markers'
    BY <1>4 DEF SessionKeys, Markers, Live, Rotated, Issued
  <2>2. TokensGoOn'
    BY <1>4 DEF TokensGoOn, Issued, Fine, PastGrace, Usable, Live, Rotated, AtItsEnd
  <2>3. Stamps'
    BY <1>4 DEF Stamps, OutlivedBy, Lapsed, Iat, Stamped
  <2>4. Listed'
    BY <1>4 DEF Listed, LetGo, OlderRotated, AtItsEnd, Live
  <2> QED
    BY <2>1, <2>2, <2>3, <2>4
<1>10. Bans'
  BY <1>4, <1>5 DEF Bans, OutlivedBy, Lapsed, Iat
<1>11. Requested'
  <2>1. Sane(r)'
    BY <1>3, <1>6, <1>7, PlainStays
  <2> QED
    BY <1>3, <1>6, <1>7, <2>1, RequestMoves
<1> QED
  BY <1>6, <1>8, <1>9, <1>10, <1>11

LEMMA WipeKeeps ==
  ASSUME IInv, NEW q \in Requests, Wipe(q)
  PROVE  IInv'
<1> USE DEF IInv, Inv
<1>1. /\ req[q] \in Request /\ Sane(req[q]) /\ req[q].tok \in Issued /\ req[q].tok \in Tokens
      /\ req[q].pc = "wipe" /\ Since(req[q]) /\ Shown(req[q])
  BY ReqFacts DEF Wipe, At, Sane
<1>2. PICK upto \in 0 .. MaxTokens, at \in 0 .. MaxNow, list \in SUBSET Tokens :
        upto = req[q].upto /\ at = req[q].at /\ list = req[q].list
  BY <1>1 DEF Request
<1>3. /\ stamp' = [sec |-> Seconds(at), exp |-> now + Max * PerSecond]
      /\ ended' = upto /\ missed' = missed \cup (upto + 1 .. issued)
      /\ key' = [w \in Tokens |-> IF w \in list THEN Nothing ELSE key[w]]
      /\ index' = IF list = {} THEN index ELSE NoIndex
      /\ killed' = killed \cup list
      /\ UNCHANGED <<now, issued, start, born, rotated, banned, spent, jar, logouts, member>>
  BY <1>2 DEF Wipe
<1>4. /\ upto \in Nat /\ at \in Nat /\ upto <= issued /\ at <= now
      /\ \A w \in 1 .. upto : born[w] <= at
      /\ \A w \in 1 .. upto : Live(w) => w \in list \/ LetGo(w)
      /\ now \in 1 .. MaxNow /\ now \in Nat /\ issued \in Nat /\ issued \in 0 .. MaxTokens
      /\ Issued \subseteq Tokens /\ 1 .. upto \subseteq Issued
  BY <1>1, <1>2, Types, Constants DEF Since, Shown, Issued
<1>5. PICK r : Plain(r) /\ req' = [req EXCEPT ![q] = r]
  <2> DEFINE r == Begin("wiped", req[q].dev, req[q].tok, 0)
  <2>1. /\ r \in Request /\ r.pc = "wiped" /\ r.tok = req[q].tok /\ r.ans = NoToken
    <3>1. req[q].dev \in Devices /\ 0 \in 0 .. MaxTokens
      BY <1>1, Constants DEF Request
    <3> QED
      BY <1>1, <3>1, BeginFits
  <2>2. req' = [req EXCEPT ![q] = r]
    BY Types DEF Wipe
  <2> HIDE DEF r
  <2>3. Plain(r)
    BY <1>1, <1>4, <2>1, ReqFacts DEF Plain, NoToken, Sane
  <2> QED
    BY <2>2, <2>3
<1>k. /\ key' \in [Tokens -> Key]
      /\ \A w \in Tokens : Live(w)' => w \notin list /\ Live(w) /\ key'[w] = key[w]
      /\ \A w \in Tokens : Rotated(w)' => w \notin list /\ Rotated(w) /\ key'[w] = key[w]
      /\ \A w \in Tokens : Usable(w) => w \in list \/ Usable(w)'
      /\ \A w \in Tokens : Usable(w)' => Usable(w)
  BY <1>3, Types, KeysFit DEF Live, Rotated, Usable
<1>6. TypeOK'
  <2>1. req' \in [Requests -> Request] /\ killed' \subseteq Tokens
    BY <1>3, <1>5, Types DEF Plain, TypeOK
  <2>2. stamp' \in [sec : -1 .. MaxNow, exp : Ticks]
    <3>1. Seconds(at) \in -1 .. MaxNow
      BY <1>4, Whole, Constants
    <3>2. now + Max * PerSecond \in Ticks
      BY <1>4, Clock, Constants
    <3> QED
      BY <1>3, <3>1, <3>2
  <2>3. missed' \subseteq Tokens /\ ended' \in 0 .. MaxTokens
    BY <1>3, <1>4 DEF TypeOK, Issued
  <2>4. index' \in [keys : SUBSET Tokens, exp : Ticks]
    BY <1>3, Clock DEF TypeOK, NoIndex
  <2> QED
    BY <1>3, <1>k, <2>1, <2>2, <2>3, <2>4 DEF TypeOK, Key, Request
<1>7. Grows /\ now' = now
  BY <1>3, <1>4, <1>k DEF Grows
<1>8. Clocks'
  <2>1. \A t \in Tokens \ Issued : ~Usable(t)'
    BY <1>k DEF Clocks
  <2> QED
    BY <1>3, <1>4, <2>1 DEF Clocks, Issued
<1>9. SessionKeys' /\ Markers'
  BY <1>3, <1>k DEF SessionKeys, Markers, Issued
<1>10. TokensGoOn'
  <2> SUFFICES ASSUME NEW w \in Issued PROVE Fine(w)' \/ PastGrace(w)'
    BY <1>3 DEF TokensGoOn, Issued
  <2> QED
    BY <1>3, <1>4, <1>k DEF TokensGoOn, Fine, PastGrace, AtItsEnd
<1>11. Bans'
  BY <1>3 DEF Bans, OutlivedBy, Lapsed, Iat
<1>12. Stamps'
  <2> SUFFICES ASSUME NEW w \in 1 .. upto PROVE Stamped(w)' /\ OutlivedBy(w, stamp.exp)'
    BY <1>3 DEF Stamps
  <2>1. born[w] \in Nat /\ born[w] <= at /\ born[w] <= now /\ born'[w] = born[w]
    BY <1>3, <1>4, Types, Constants DEF Clocks
  <2>2. /\ Iat(w) <= Seconds(at) /\ Iat(w) <= Seconds(now) /\ Iat(w) \in Nat /\ Seconds(now) \in Nat
        /\ Seconds(now + Max * PerSecond) = Seconds(now) + Max
    BY <1>4, <2>1, SecondsGrow, SecondsAhead, Whole, Constants DEF Iat
  <2> QED
    BY <1>3, <2>1, <2>2, Constants DEF Stamped, OutlivedBy, Iat
<1>13. Listed'
  <2> SUFFICES ASSUME NEW w \in Tokens, Live(w)', ~LetGo(w)'
               PROVE  /\ w \in index'.keys
                      /\ start'[w] + (Max - 1) * PerSecond < index'.exp
    BY DEF Listed
  <2>1. w \in Issued /\ w \notin list /\ Live(w)
    BY <1>k DEF Clocks, Usable
  <2>2. ~LetGo(w)
    BY <1>6, <1>7, <2>1, LetGoStays
  <2>3. FALSE
    BY <1>3, <1>4, <2>1, <2>2 DEF LetGo, Issued
  <2> QED
    BY <2>3
<1>14. Requested'
  <2>1. Sane(r)'
    BY <1>5, <1>6, <1>7, PlainStays
  <2> QED
    BY <1>5, <1>6, <1>7, <2>1, RequestMoves
<1> QED
  BY <1>6, <1>8, <1>9, <1>10, <1>11, <1>12, <1>13, <1>14

LEMMA LoseMembershipKeeps == ASSUME IInv, LoseMembership PROVE IInv'
<1> USE DEF IInv, Inv
<1>1. /\ member' = FALSE
      /\ UNCHANGED <<now, issued, key, start, born, index, rotated, banned, stamp, spent, ended>>
      /\ UNCHANGED <<missed, jar, logouts, killed, req>>
  BY DEF LoseMembership, sessionVars, accessVars
<1>2. TypeOK'
  BY <1>1 DEF TypeOK
<1>3. Grows /\ now' = now
  <2>1. now \in Nat /\ issued \in Nat
    BY Types
  <2>2. now <= now' /\ issued <= issued'
    BY <1>1, <2>1
  <2>3. member' \in {member, FALSE}
    BY <1>1
  <2>4. \A t \in Issued : Live(t)' => Live(t)
    BY <1>1 DEF Live
  <2> QED
    BY <1>1, <2>2, <2>3, <2>4 DEF Grows
<1>4. Clocks' /\ SessionKeys' /\ Markers'
  <2>1. Clocks'
    BY <1>1 DEF Clocks, Issued, Usable, Live, Rotated
  <2>2. SessionKeys' /\ Markers'
    BY <1>1 DEF SessionKeys, Markers, Live, Rotated, Issued
  <2> QED
    BY <2>1, <2>2
<1>5. TokensGoOn'
  BY <1>1 DEF TokensGoOn, Fine
<1>6. Bans' /\ Stamps' /\ Listed'
  <2>1. Bans'
    BY <1>1 DEF Bans, OutlivedBy, Lapsed, Iat
  <2>2. Stamps'
    BY <1>1 DEF Stamps, OutlivedBy, Lapsed, Iat, Stamped
  <2>3. Listed'
    BY <1>1 DEF Listed, LetGo, OlderRotated, AtItsEnd, Live
  <2> QED
    BY <2>1, <2>2, <2>3
<1>7. Requested'
  <2>1. Asked' \subseteq Asked
    BY <1>1 DEF Asked
  <2> QED
    BY <1>2, <1>3, <2>1, RequestsStay
<1> QED
  BY <1>2, <1>4, <1>5, <1>6, <1>7

----------------------------------------------------------------------------
(* Time passes.                                                            *)

LEMMA TickKeeps == ASSUME IInv, Tick PROVE IInv'
<1> USE DEF IInv, Inv
<1>1. /\ now' = now + 1 /\ now < MaxNow
      /\ key' = [t \in Tokens |-> IF key[t].exp = now' THEN Nothing ELSE key[t]]
      /\ index' = IF index.exp = now' THEN NoIndex ELSE index
      /\ banned' = [t \in Tokens |-> IF banned[t] = now' THEN 0 ELSE banned[t]]
      /\ stamp' = IF stamp.exp = now' THEN NoStamp ELSE stamp
      /\ UNCHANGED <<issued, start, born, rotated, spent, ended, missed, jar, logouts, member>>
      /\ UNCHANGED <<killed, req>>
  BY DEF Tick
<1>2. /\ now \in Nat /\ now' \in Nat /\ now < now' /\ now' \in 1 .. MaxNow /\ issued \in Nat
      /\ Issued \subseteq Tokens /\ Tokens \subseteq Nat
      /\ \A w \in Tokens : start[w] \in Nat /\ born[w] \in Nat /\ rotated[w] \in Nat /\ banned[w] \in Nat
      /\ \A w \in Tokens : key[w].exp \in Nat
      /\ index.exp \in Nat /\ stamp.exp \in Nat
  <2>1. \A w \in Tokens : key[w].exp \in Nat /\ banned[w] \in Nat
    BY Types, Clock DEF Key, TypeOK
  <2>2. index.exp \in Nat /\ stamp.exp \in Nat
    BY Clock DEF TypeOK
  <2> QED
    BY <1>1, <2>1, <2>2, Types, Constants
<1>k. /\ key' \in [Tokens -> Key]
      /\ \A w \in Tokens : Live(w)' => Live(w) /\ key'[w] = key[w] /\ key[w].exp # now'
      /\ \A w \in Tokens : Rotated(w)' => Rotated(w) /\ key'[w] = key[w] /\ key[w].exp # now'
      /\ \A w \in Tokens : Usable(w) => key[w].exp = now' \/ Usable(w)'
      /\ \A w \in Tokens : Usable(w)' => Usable(w)
  BY <1>1, Types, KeysFit DEF Live, Rotated, Usable
<1>3. TypeOK'
  <2>1. index' \in [keys : SUBSET Tokens, exp : Ticks]
    BY <1>1, Clock DEF TypeOK, NoIndex
  <2>2. stamp' \in [sec : -1 .. MaxNow, exp : Ticks]
    BY <1>1, Clock, Constants DEF TypeOK, NoStamp
  <2>3. banned' \in [Tokens -> Ticks]
    BY <1>1, Clock DEF TypeOK
  <2> QED
    BY <1>1, <1>2, <1>k, <2>1, <2>2, <2>3 DEF TypeOK, Key
<1>4. Grows
  BY <1>1, <1>2, <1>k DEF Grows
<1>5. Clocks'
  <2>1. \A t \in Tokens \ Issued : ~Usable(t)' /\ banned'[t] = 0
    BY <1>1, <1>k DEF Clocks
  <2>2. \A t \in Tokens : start[t] <= now' /\ born[t] <= now' /\ rotated[t] <= now'
    BY <1>2 DEF Clocks
  <2> QED
    BY <1>1, <2>1, <2>2 DEF Clocks, Issued
<1>6. SessionKeys'
  BY <1>1, <1>2, <1>k DEF SessionKeys
<1>7. Markers'
  <2> SUFFICES ASSUME NEW t \in Tokens, Rotated(t)'
               PROVE  now' < key'[t].exp
    BY <1>1, <1>k DEF Markers, Issued
  <2> QED
    BY <1>1, <1>2, <1>k DEF Markers
<1>8. TokensGoOn'
  <2> SUFFICES ASSUME NEW t \in Issued PROVE Fine(t)' \/ PastGrace(t)'
    BY <1>1 DEF TokensGoOn, Issued
  <2>1. t \in Tokens /\ (Fine(t) \/ PastGrace(t))
    BY <1>2 DEF TokensGoOn
  <2>2. PastGrace(t) => PastGrace(t)'
    BY <1>1, <1>2, <2>1, Lengths DEF PastGrace
  <2>3. AtItsEnd(t) => AtItsEnd(t)'
    BY <1>1, <1>2, <2>1, Lengths DEF AtItsEnd
  <2>4. CASE Live(t) /\ key[t].exp = now'
    BY <1>1, <2>1, <2>4 DEF SessionKeys, Fine, AtItsEnd
  <2>5. CASE Rotated(t) /\ key[t].exp = now'
    BY <1>1, <1>2, <2>1, <2>5, Lengths DEF Markers, PastGrace
  <2>6. CASE Usable(t)'
    BY <2>6 DEF Fine
  <2> QED
    BY <1>1, <1>k, <2>1, <2>2, <2>3, <2>4, <2>5, <2>6 DEF Fine, Usable
<1>9. \A t \in Tokens : Lapsed(t) => Lapsed(t)'
  <2> SUFFICES ASSUME NEW t \in Tokens, Lapsed(t) PROVE Lapsed(t)'
    OBVIOUS
  <2>1. /\ Iat(t) \in Nat /\ Seconds(now) \in Nat /\ Seconds(now') \in Nat
        /\ Seconds(now) <= Seconds(now')
    BY <1>2, Whole, SecondsGrow DEF Iat
  <2> QED
    BY <1>1, <2>1, Constants DEF Lapsed, Iat
<1>10. \A t \in Tokens : OutlivedBy(t, now') => Lapsed(t)'
  <2> SUFFICES ASSUME NEW t \in Tokens, OutlivedBy(t, now') PROVE Lapsed(t)'
    OBVIOUS
  <2>1. Iat(t) \in Nat /\ Seconds(now') \in Nat
    BY <1>2, Whole DEF Iat
  <2> QED
    BY <1>1, <2>1, Constants DEF OutlivedBy, Lapsed, Iat
<1>11. Bans'
  <2> SUFFICES ASSUME NEW t \in Tokens
               PROVE  /\ banned'[t] # 0 => OutlivedBy(t, banned[t])'
                      /\ t \in spent => Lapsed(t)' \/ banned'[t] # 0
    BY <1>1 DEF Bans
  <2>1. CASE banned[t] = now'
    BY <1>1, <1>2, <1>10, <2>1 DEF Bans
  <2>2. CASE banned[t] # now'
    BY <1>1, <1>9, <2>2 DEF Bans, OutlivedBy, Iat
  <2> QED
    BY <2>1, <2>2
<1>12. Stamps'
  <2> SUFFICES ASSUME NEW t \in 1 .. ended
               PROVE  Lapsed(t)' \/ (Stamped(t)' /\ OutlivedBy(t, stamp.exp)')
    BY <1>1 DEF Stamps
  <2>1. t \in Tokens
    <3>1. ended \in Nat /\ ended <= issued
      BY Constants DEF TypeOK, Clocks
    <3>2. t \in Issued
      BY <1>2, <3>1 DEF Issued
    <3> QED
      BY <1>2, <3>2
  <2>2. CASE stamp.exp = now'
    BY <1>2, <1>9, <1>10, <2>1, <2>2 DEF Stamps
  <2>3. CASE stamp.exp # now'
    BY <1>1, <1>9, <2>1, <2>3 DEF Stamps, Stamped, OutlivedBy, Iat
  <2> QED
    BY <2>2, <2>3
<1>13. Listed'
  <2> SUFFICES ASSUME NEW w \in Tokens, Live(w)', ~LetGo(w)'
               PROVE  /\ w \in index'.keys
                      /\ start'[w] + (Max - 1) * PerSecond < index'.exp
    BY DEF Listed
  <2>1. w \in Issued /\ Live(w)
    BY <1>k DEF Clocks, Usable
  <2>2. ~LetGo(w)
    BY <1>3, <1>4, <2>1, LetGoStays
  <2>3. w \in index.keys /\ start[w] + (Max - 1) * PerSecond < index.exp
    BY <2>1, <2>2 DEF Listed
  <2>4. index.exp # now'
    BY <1>1, <2>3 DEF LetGo, AtItsEnd
  <2> QED
    BY <1>1, <2>3, <2>4
<1>14. Requested'
  <2> SUFFICES ASSUME NEW q \in Requests, NEW r, r = req[q] PROVE Sane(r)'
    BY <1>1 DEF Requested, Asked
  <2>1. r \in Request /\ Sane(r)
    BY Types DEF Requested, Asked
  <2>2. r.pc \in {"verify", "rotate"} => now' <= r.at + Lag
    <3>1. r.at \in Nat
      BY <2>1 DEF Request
    <3> QED
      BY <1>2, <3>1, Constants DEF Tick
  <2> QED
    BY <1>3, <1>4, <2>1, <2>2, SaneStays
<1> QED
  BY <1>3, <1>5, <1>6, <1>7, <1>8, <1>11, <1>12, <1>13, <1>14

----------------------------------------------------------------------------
(* A token is issued: at a login, or in the place of another.              *)

LEMMA NewToken ==
  ASSUME IInv, issued + 1 \in Tokens, issued' = issued + 1
  PROVE  /\ issued + 1 \notin Issued /\ issued + 1 # NoToken /\ Issued' = Issued \cup {issued + 1}
         /\ issued' \in 0 .. MaxTokens /\ issued \in Nat /\ issued' \in Nat
         /\ ~Usable(issued + 1) /\ rotated[issued + 1] = 0 /\ banned[issued + 1] = 0
<1>1. issued \in Nat
  BY Types DEF IInv
<1>2. issued + 1 \notin Issued /\ Issued' = Issued \cup {issued + 1}
  BY <1>1 DEF Issued
<1>3. issued' \in 0 .. MaxTokens /\ issued + 1 # NoToken
  BY <1>1, Constants DEF Tokens, NoToken
<1> QED
  BY <1>1, <1>2, <1>3 DEF IInv, Inv, Clocks

LEMMA IssueKeepsAccess ==
  ASSUME IInv, NEW n \in Tokens, n = issued + 1, issued' = n,
         born' = [born EXCEPT ![n] = now], UNCHANGED <<now, accessVars>>
  PROVE  Bans' /\ Stamps'
<1> USE DEF IInv, Inv
<1>1. /\ n \notin Issued /\ banned[n] = 0 /\ Issued \subseteq Tokens /\ issued \in Nat
      /\ \A w \in Tokens \ {n} : born'[w] = born[w]
      /\ UNCHANGED <<now, banned, stamp, spent, ended, missed>>
  BY NewToken, Types DEF accessVars
<1>2. spent \subseteq Issued /\ 1 .. ended \subseteq Issued
  <2>1. ended \in Nat /\ ended <= issued
    BY Constants DEF TypeOK, Clocks
  <2> QED
    BY <1>1, <2>1 DEF Clocks, Issued
<1>3. Bans'
  BY <1>1, <1>2 DEF Bans, OutlivedBy, Lapsed, Iat
<1>4. Stamps'
  <2> SUFFICES ASSUME NEW t \in 1 .. ended
               PROVE  Lapsed(t)' \/ (Stamped(t)' /\ OutlivedBy(t, stamp.exp)')
    BY <1>1 DEF Stamps
  <2>1. t \in Tokens /\ t # n
    BY <1>1, <1>2
  <2> QED
    BY <1>1, <2>1 DEF Stamps, Stamped, OutlivedBy, Lapsed, Iat
<1> QED
  BY <1>3, <1>4

LEMMA LoginKeeps ==
  ASSUME IInv, NEW d \in Devices, Login(d)
  PROVE  IInv'
<1> USE DEF IInv, Inv
<1>1. PICK n \in Tokens : n = issued + 1
  BY DEF Login
<1> DEFINE e == now + Max * PerSecond
<1>2. /\ issued' = n
      /\ key' = [key EXCEPT ![n] = Session(e)]
      /\ start' = [start EXCEPT ![n] = now] /\ born' = [born EXCEPT ![n] = now]
      /\ index' = [keys |-> index.keys \cup {n}, exp |-> e]
      /\ jar' = [jar EXCEPT ![d] = n]
      /\ UNCHANGED <<now, banned, stamp, spent, ended, missed>>
      /\ UNCHANGED <<logouts, member, killed, rotated, req>>
  BY <1>1 DEF Login, accessVars
<1>3. /\ n \notin Issued /\ Issued' = Issued \cup {n} /\ ~Usable(n) /\ rotated[n] = 0 /\ banned[n] = 0
      /\ n \in Nat /\ issued \in Nat /\ issued' \in 0 .. MaxTokens /\ issued <= issued'
      /\ Issued \subseteq Tokens
      /\ now \in 1 .. MaxNow /\ now \in Nat /\ e \in Ticks /\ e \in Nat /\ now < e
      /\ now + (Max - 1) * PerSecond < e
  <2>1. /\ n \notin Issued /\ Issued' = Issued \cup {n} /\ ~Usable(n) /\ rotated[n] = 0
        /\ banned[n] = 0 /\ issued' \in 0 .. MaxTokens
    BY <1>1, <1>2, NewToken
  <2>2. e \in Ticks /\ now \in Nat /\ issued \in Nat /\ now \in 1 .. MaxNow /\ Issued \subseteq Tokens
    <3>1. now \in Nat /\ issued \in Nat /\ now \in 1 .. MaxNow /\ Issued \subseteq Tokens
      BY Types
    <3>2. Max \in 0 .. Max
      BY Constants
    <3> QED
      BY <3>1, <3>2, Clock
  <2>3. e \in Nat /\ now < e /\ now + (Max - 1) * PerSecond < e
    BY <2>2, Lengths, Constants
  <2> HIDE DEF e
  <2> QED
    BY <1>1, <1>2, <2>1, <2>2, <2>3
<1> HIDE DEF e
<1>k. /\ key' \in [Tokens -> Key] /\ Live(n)' /\ ~Rotated(n)' /\ Usable(n)'
      /\ key'[n].exp = e /\ start'[n] = now /\ born'[n] = now
      /\ \A w \in Tokens \ {n} : /\ key'[w] = key[w] /\ start'[w] = start[w] /\ born'[w] = born[w]
                                 /\ Live(w)' <=> Live(w)
                                 /\ Rotated(w)' <=> Rotated(w)
                                 /\ Usable(w)' <=> Usable(w)
  BY <1>2, <1>3, Types, KeysFit DEF Live, Rotated, Usable
<1>4. TypeOK'
  <2>1. /\ start' \in [Tokens -> 1 .. MaxNow] /\ born' \in [Tokens -> 1 .. MaxNow]
        /\ jar' \in [Devices -> Tokens \cup {NoToken}]
    BY <1>2, <1>3 DEF TypeOK
  <2>2. index' \in [keys : SUBSET Tokens, exp : Ticks]
    BY <1>2, <1>3 DEF TypeOK
  <2> QED
    BY <1>2, <1>3, <1>k, <2>1, <2>2 DEF TypeOK, Key
<1>5. Grows /\ now' = now
  <2>1. member' \in {member, FALSE}
    BY <1>2
  <2>2. /\ now <= now' /\ issued <= issued' /\ missed \subseteq missed'
    BY <1>2, <1>3
  <2>3. \A t \in Issued : /\ start'[t] = start[t] /\ born'[t] = born[t]
                          /\ Live(t)' => Live(t)
                          /\ rotated[t] # 0 => rotated'[t] # 0
    BY <1>2, <1>3, <1>k
  <2> QED
    BY <1>2, <2>1, <2>2, <2>3 DEF Grows
<1>6. Clocks'
  <2>1. \A t \in Tokens : start'[t] <= now' /\ born'[t] <= now' /\ rotated'[t] <= now'
    BY <1>2, <1>3, <1>k DEF Clocks
  <2>2. \A t \in Tokens \ Issued' : ~Usable(t)' /\ rotated'[t] = 0 /\ banned'[t] = 0
    BY <1>2, <1>3, <1>k DEF Clocks
  <2>3. spent' \subseteq Issued' /\ ended' <= issued'
    <3>1. ended \in Nat
      BY Constants DEF TypeOK
    <3> QED
      BY <1>1, <1>2, <1>3, <3>1 DEF Clocks
  <2>4. \A w \in Devices : jar'[w] <= issued'
    <3>1. \A w \in Devices : jar[w] \in Nat /\ jar[w] <= issued
      BY TokensAreNumbers DEF TypeOK, Clocks
    <3> QED
      BY <1>1, <1>2, <1>3, <3>1 DEF TypeOK
  <2> QED
    BY <2>1, <2>2, <2>3, <2>4 DEF Clocks
<1>7. SessionKeys'
  <2>1. /\ now' < key'[n].exp /\ start'[n] + (Max - 1) * PerSecond < key'[n].exp
        /\ key'[n].exp <= start'[n] + Max * PerSecond + Lag
    BY <1>2, <1>3, <1>k, Lengths, Constants DEF e
  <2> QED
    BY <1>2, <1>k, <2>1 DEF SessionKeys
<1>8. Markers'
  <2> SUFFICES ASSUME NEW w \in Tokens, Rotated(w)'
               PROVE  /\ now < key'[w].exp
                      /\ key'[w].exp = rotated[w] + Grace * PerSecond
                      /\ rotated[w] > 0 /\ key'[w].to \in Issued'
                      /\ rotated[key'[w].to] = 0 \/ rotated[w] <= rotated[key'[w].to]
    BY <1>2 DEF Markers
  <2>1. Rotated(w) /\ key'[w] = key[w]
    BY <1>k
  <2>2. key[w].to \in Issued'
    BY <1>3, <2>1 DEF Markers
  <2> QED
    BY <2>1, <2>2 DEF Markers
<1>9. TokensGoOn'
  <2> SUFFICES ASSUME NEW t \in Issued, t # n PROVE Fine(t)' \/ PastGrace(t)'
    BY <1>3, <1>k DEF TokensGoOn, Fine
  <2> QED
    BY <1>2, <1>3, <1>k DEF TokensGoOn, Fine, PastGrace, AtItsEnd
<1>10. Bans' /\ Stamps'
  BY <1>1, <1>2, IssueKeepsAccess DEF accessVars
<1>11. Listed'
  <2> SUFFICES ASSUME NEW w \in Tokens, Live(w)', ~LetGo(w)'
               PROVE  /\ w \in index'.keys
                      /\ start'[w] + (Max - 1) * PerSecond < index'.exp
    BY DEF Listed
  <2>1. CASE w = n
    BY <1>2, <1>3, <1>k, <2>1
  <2>2. CASE w # n
    <3>1. w \in Issued /\ Live(w)
      BY <1>k, <2>2 DEF Clocks, Usable
    <3>2. ~LetGo(w)
      BY <1>4, <1>5, <3>1, LetGoStays
    <3>3. start[w] \in Nat /\ start[w] <= now
      BY Types, Constants DEF Clocks
    <3> QED
      BY <1>2, <1>3, <1>k, <2>2, <3>1, <3>2, <3>3, Lengths DEF Listed
  <2> QED
    BY <2>1, <2>2
<1>12. Requested'
  <2>1. Asked' \subseteq Asked
    BY <1>2 DEF Asked
  <2> QED
    BY <1>4, <1>5, <2>1, RequestsStay
<1> QED
  BY <1>4, <1>6, <1>7, <1>8, <1>9, <1>10, <1>11, <1>12

(* What a refresh writes: the session for what was left of it when it was  *)
(* read, which ends at its end or Lag later, or nothing in its last second.*)
LEMMA SuccessorFits ==
  ASSUME IInv, NEW r \in Request, LeftOver(r), r.tok \in Tokens
  PROVE  /\ r.left = 0 => AtItsEnd(r.tok)
         /\ r.left # 0 => /\ now + r.left * PerSecond \in Ticks
                          /\ now < now + r.left * PerSecond
                          /\ start[r.tok] + (Max - 1) * PerSecond < now + r.left * PerSecond
                          /\ now + r.left * PerSecond <= start[r.tok] + Max * PerSecond + Lag
<1> DEFINE s == start[r.tok]
           k == r.left * PerSecond
           m == Max * PerSecond
           l == (Max - 1) * PerSecond
<1>1. /\ now \in Nat /\ now \in 1 .. MaxNow /\ s \in Nat /\ r.at \in Nat /\ r.left \in Nat
      /\ r.left \in 0 .. Max
  BY Types, Constants DEF IInv, Request
<1>2. /\ k \in Nat /\ m \in Nat /\ l \in Nat /\ l + PerSecond = m /\ PerSecond \in Nat /\ Lag \in Nat
      /\ r.left = 0 => k = 0
      /\ r.left # 0 => 0 < k
      /\ now + k \in Ticks
  <2>1. k \in Nat /\ now + k \in Ticks
    BY <1>1, Distributes, Clock
  <2>2. r.left = 0 => k = 0
    BY Constants
  <2>3. r.left # 0 => 0 < k
    BY <1>1, Smaller
  <2> QED
    BY <2>1, <2>2, <2>3, Lengths, Constants
<1>3. s <= r.at /\ r.at <= now /\ now <= r.at + Lag /\ k <= s + m - r.at /\ s + m - r.at < k + PerSecond
  BY DEF LeftOver
<1>4. r.left = 0 => now > s + l
  <2> HIDE DEF s, k, m, l
  <2> QED
    BY <1>1, <1>2, <1>3
<1>5. r.left # 0 => now < now + k /\ s + l < now + k /\ now + k <= s + m + Lag
  <2> HIDE DEF s, k, m, l
  <2> QED
    BY <1>1, <1>2, <1>3
<1> QED
  BY <1>2, <1>4, <1>5 DEF AtItsEnd

LEMMA RotateKeeps ==
  ASSUME IInv, NEW q \in Requests, Rotate(q)
  PROVE  IInv'
<1> USE DEF IInv, Inv
<1>1. /\ req[q] \in Request /\ Sane(req[q]) /\ req[q].tok \in Issued /\ req[q].tok \in Tokens
      /\ LeftOver(req[q])
  BY ReqFacts DEF Rotate, At, Sane
<1>2. PICK n \in Tokens, t \in Tokens, left \in 0 .. Max :
        n = issued + 1 /\ t = req[q].tok /\ left = req[q].left
  BY <1>1 DEF Rotate, Request
<1> DEFINE g == now + Grace * PerSecond
           e == now + left * PerSecond
<1>3. /\ issued' = n
      /\ start' = [start EXCEPT ![n] = start[t]] /\ born' = [born EXCEPT ![n] = now]
      /\ rotated' = [rotated EXCEPT ![t] = now]
      /\ key' = [key EXCEPT ![t] = Marker(g, n), ![n] = IF left = 0 THEN Nothing ELSE Session(e)]
      /\ index' = IF left = 0 THEN NoIndex ELSE [keys |-> (index.keys \ {t}) \cup {n}, exp |-> e]
      /\ UNCHANGED <<now, banned, stamp, spent, ended, missed>>
      /\ UNCHANGED <<jar, logouts, member, killed>>
  BY <1>2 DEF Rotate, accessVars
<1>4. /\ n \notin Issued /\ Issued' = Issued \cup {n} /\ ~Usable(n) /\ rotated[n] = 0 /\ banned[n] = 0
      /\ n \in Nat /\ issued \in Nat /\ issued' \in 0 .. MaxTokens /\ issued <= issued'
      /\ Issued \subseteq Tokens /\ t \in Issued /\ t # n
      /\ now \in 1 .. MaxNow /\ now \in Nat /\ 0 < now
      /\ start[t] \in Nat /\ start[t] \in 1 .. MaxNow /\ start[t] <= now
  <2>1. /\ n \notin Issued /\ Issued' = Issued \cup {n} /\ ~Usable(n) /\ rotated[n] = 0
        /\ banned[n] = 0 /\ issued' \in 0 .. MaxTokens
    BY <1>2, <1>3, NewToken
  <2>2. now \in Nat /\ issued \in Nat /\ now \in 1 .. MaxNow /\ Issued \subseteq Tokens
    BY Types
  <2>3. start[t] \in Nat /\ start[t] \in 1 .. MaxNow /\ start[t] <= now
    BY Types, Constants DEF Clocks
  <2> QED
    BY <1>1, <1>2, <1>3, <2>1, <2>2, <2>3
<1>5. g \in Ticks /\ now < g
  <2>1. Grace \in 0 .. Max
    BY Constants
  <2> QED
    BY <1>4, <2>1, Clock, Lengths
<1>6. /\ left = 0 => AtItsEnd(t)
      /\ left # 0 => /\ e \in Ticks /\ now < e /\ start[t] + (Max - 1) * PerSecond < e
                     /\ e <= start[t] + Max * PerSecond + Lag
  BY <1>1, <1>2, SuccessorFits
<1> HIDE DEF e
<1>k. /\ key' \in [Tokens -> Key]
      /\ ~Live(t)' /\ Rotated(t)' /\ Usable(t)' /\ key'[t].exp = g /\ key'[t].to = n /\ rotated'[t] = now
      /\ ~Rotated(n)' /\ (left = 0 => ~Live(n)')
      /\ left # 0 => Live(n)' /\ Usable(n)' /\ key'[n].exp = e
      /\ start'[n] = start[t] /\ born'[n] = now
      /\ \A w \in Tokens \ {t, n} : /\ key'[w] = key[w]
                                    /\ Live(w)' <=> Live(w)
                                    /\ Rotated(w)' <=> Rotated(w)
                                    /\ Usable(w)' <=> Usable(w)
      /\ \A w \in Tokens \ {n} : start'[w] = start[w] /\ born'[w] = born[w]
      /\ \A w \in Tokens \ {t} : rotated'[w] = rotated[w]
  <2>1. /\ key \in [Tokens -> Key]
        /\ Marker(g, n) \in Key /\ Marker(g, n).kind = "marker" /\ Marker(g, n).exp = g
        /\ Marker(g, n).to = n
    BY <1>5, Types, KeysFit
  <2>2. left # 0 => Session(e) \in Key /\ Session(e).kind = "live" /\ Session(e).exp = e
    BY <1>6, KeysFit
  <2> HIDE DEF g
  <2>3. /\ key'[t] = Marker(g, n) /\ key'[n] = (IF left = 0 THEN Nothing ELSE Session(e))
        /\ key' \in [Tokens -> Key]
        /\ \A w \in Tokens \ {t, n} : key'[w] = key[w]
    BY <1>3, <1>4, <2>1, <2>2, KeysFit
  <2>4. /\ start'[n] = start[t] /\ born'[n] = now /\ rotated'[t] = now
        /\ \A w \in Tokens \ {n} : start'[w] = start[w] /\ born'[w] = born[w]
        /\ \A w \in Tokens \ {t} : rotated'[w] = rotated[w]
    BY <1>3, Types
  <2>5. /\ ~Live(t)' /\ Rotated(t)' /\ Usable(t)' /\ key'[t].exp = g /\ key'[t].to = n
    BY <2>1, <2>3 DEF Live, Rotated, Usable
  <2>6. ~Rotated(n)' /\ (left = 0 => ~Live(n)') /\ (left # 0 => Live(n)' /\ Usable(n)' /\ key'[n].exp = e)
    BY <2>2, <2>3, KeysFit DEF Live, Rotated, Usable
  <2>7. \A w \in Tokens \ {t, n} : /\ Live(w)' <=> Live(w)
                                   /\ Rotated(w)' <=> Rotated(w)
                                   /\ Usable(w)' <=> Usable(w)
    BY <2>3 DEF Live, Rotated, Usable
  <2> QED
    BY <2>3, <2>4, <2>5, <2>6, <2>7
<1> HIDE DEF g
<1>7. PICK r \in Request :
        /\ req' = [req EXCEPT ![q] = r] /\ r.tok \in {NoToken, t} /\ r.ans \in {NoToken, n}
        /\ r.pc \in {"answer", "refresh", "logout", "logoutAll"}
        /\ r.pc # "answer" => r.tok = t
        /\ r.pc = "logoutAll" => r.upto = n /\ r.at = now
  <2>1. /\ n # NoToken /\ n \in 0 .. MaxTokens /\ req[q].dev \in Devices
        /\ req[q].goal \in {"answer", "logout", "logoutAll"}
    <3>1. n # NoToken
      BY <1>2, <1>3, NewToken
    <3>2. n \in 0 .. MaxTokens
      BY <1>3, <1>4
    <3>3. req[q].dev \in Devices /\ req[q].goal \in {"answer", "logout", "logoutAll"}
      BY <1>1 DEF Request
    <3> QED
      BY <3>1, <3>2, <3>3
  <2>2. Answer(q, n, n) /\ req \in [Requests -> Request]
    BY <1>2, Types DEF Rotate
  <2>3. CASE req[q].goal # "answer"
    <3> DEFINE r == Begin(req[q].goal, req[q].dev, t, n)
    <3>1. req' = [req EXCEPT ![q] = r]
      BY <1>2, <2>1, <2>2, <2>3 DEF Answer
    <3>2. /\ r \in Request /\ r.tok = t /\ r.ans = NoToken /\ r.pc = req[q].goal
          /\ r.pc = "logoutAll" => r.upto = n /\ r.at = now
      BY <2>1, <2>3, BeginFits
    <3> HIDE DEF r
    <3> QED
      BY <2>1, <2>3, <3>1, <3>2
  <2>4. CASE req[q].goal = "answer"
    <3> DEFINE r == [Idle EXCEPT !.pc = "answer", !.dev = req[q].dev, !.ans = n]
    <3>1. req' = [req EXCEPT ![q] = r]
      BY <2>2, <2>4 DEF Answer
    <3>2. r \in Request /\ r.pc = "answer" /\ r.tok = NoToken /\ r.ans = n
      BY <2>1, IdleFits DEF Request
    <3> HIDE DEF r
    <3> QED
      BY <3>1, <3>2
  <2> QED
    BY <2>3, <2>4
<1>8. TypeOK'
  <2>1. /\ start' \in [Tokens -> 1 .. MaxNow] /\ born' \in [Tokens -> 1 .. MaxNow]
        /\ rotated' \in [Tokens -> 0 .. MaxNow]
    BY <1>3, <1>4, Types, Constants
  <2>2. index' \in [keys : SUBSET Tokens, exp : Ticks]
    BY <1>3, <1>6, Clock DEF TypeOK, NoIndex
  <2>3. req' \in [Requests -> Request]
    BY <1>7, Types
  <2> QED
    BY <1>3, <1>4, <1>k, <2>1, <2>2, <2>3 DEF TypeOK, Key, Request
<1>9. Grows /\ now' = now
  <2>1. member' \in {member, FALSE}
    BY <1>3
  <2>2. /\ now <= now' /\ issued <= issued' /\ missed \subseteq missed'
    BY <1>3, <1>4
  <2>3. \A w \in Issued : /\ start'[w] = start[w] /\ born'[w] = born[w]
                          /\ Live(w)' => Live(w)
                          /\ rotated[w] # 0 => rotated'[w] # 0
    <3> SUFFICES ASSUME NEW w \in Issued
                 PROVE  /\ start'[w] = start[w] /\ born'[w] = born[w]
                        /\ Live(w)' => Live(w)
                        /\ rotated[w] # 0 => rotated'[w] # 0
      OBVIOUS
    <3>1. w \in Tokens /\ w # n
      BY <1>4
    <3>2. start'[w] = start[w] /\ born'[w] = born[w] /\ (rotated[w] # 0 => rotated'[w] # 0)
      BY <1>4, <1>k, <3>1
    <3>3. Live(w)' => Live(w)
      BY <1>k, <3>1
    <3> QED
      BY <3>2, <3>3
  <2> QED
    BY <1>3, <2>1, <2>2, <2>3 DEF Grows
<1>10. Clocks'
  <2>1. \A w \in Tokens : start'[w] <= now' /\ born'[w] <= now' /\ rotated'[w] <= now'
    BY <1>3, <1>4, <1>k DEF Clocks
  <2>2. \A w \in Tokens \ Issued' : ~Usable(w)' /\ rotated'[w] = 0 /\ banned'[w] = 0
    BY <1>3, <1>4, <1>k DEF Clocks
  <2>3. spent' \subseteq Issued' /\ ended' <= issued'
    <3>1. ended \in Nat
      BY Constants DEF TypeOK
    <3> QED
      BY <1>2, <1>3, <1>4, <3>1 DEF Clocks
  <2>4. \A w \in Devices : jar'[w] <= issued'
    <3>1. \A w \in Devices : jar[w] \in Nat /\ jar[w] <= issued
      BY TokensAreNumbers DEF TypeOK, Clocks
    <3> QED
      BY <1>2, <1>3, <1>4, <3>1
  <2> QED
    BY <2>1, <2>2, <2>3, <2>4 DEF Clocks
<1>11. SessionKeys'
  <2> SUFFICES ASSUME NEW w \in Tokens, Live(w)'
               PROVE  /\ now' < key'[w].exp
                      /\ start'[w] + (Max - 1) * PerSecond < key'[w].exp
                      /\ key'[w].exp <= start'[w] + Max * PerSecond + Lag
    BY DEF SessionKeys
  <2>1. CASE w = n
    BY <1>3, <1>6, <1>k, <2>1
  <2>2. CASE w # n
    BY <1>3, <1>k, <2>2 DEF SessionKeys
  <2> QED
    BY <2>1, <2>2
<1>12. Markers'
  <2> SUFFICES ASSUME NEW w \in Tokens, Rotated(w)'
               PROVE  /\ now' < key'[w].exp
                      /\ key'[w].exp = rotated'[w] + Grace * PerSecond
                      /\ rotated'[w] > 0 /\ key'[w].to \in Issued'
                      /\ rotated'[key'[w].to] = 0 \/ rotated'[w] <= rotated'[key'[w].to]
    BY DEF Markers
  <2>1. CASE w = t
    BY <1>3, <1>4, <1>5, <1>k, <2>1 DEF g
  <2>2. CASE w # t
    <3>1. w # n /\ Rotated(w) /\ key'[w] = key[w] /\ rotated'[w] = rotated[w]
      BY <1>k, <2>2
    <3>2. key[w].to \in Issued /\ key[w].to # n /\ rotated[w] <= now
      BY <1>4, <3>1 DEF Markers, Clocks
    <3>3. rotated'[key[w].to] = 0 \/ rotated'[w] <= rotated'[key[w].to]
      BY <1>4, <1>k, <3>1, <3>2 DEF Markers
    <3> QED
      BY <1>3, <1>4, <3>1, <3>2, <3>3 DEF Markers
  <2> QED
    BY <2>1, <2>2
<1>13. TokensGoOn'
  <2> SUFFICES ASSUME NEW w \in Issued' PROVE Fine(w)' \/ PastGrace(w)'
    BY DEF TokensGoOn
  <2>1. CASE w = t
    BY <1>k, <2>1 DEF Fine
  <2>2. CASE w = n
    BY <1>3, <1>6, <1>k, <2>2 DEF Fine, AtItsEnd
  <2>3. CASE w \notin {t, n}
    <3>1. w \in Issued /\ w \in Tokens
      BY <1>4, <2>3
    <3> QED
      BY <1>3, <1>k, <2>3, <3>1 DEF TokensGoOn, Fine, PastGrace, AtItsEnd
  <2> QED
    BY <2>1, <2>2, <2>3
<1>14. Bans' /\ Stamps'
  BY <1>2, <1>3, IssueKeepsAccess DEF accessVars
<1>15. Listed'
  <2> SUFFICES ASSUME NEW w \in Tokens, Live(w)', ~LetGo(w)'
               PROVE  /\ w \in index'.keys
                      /\ start'[w] + (Max - 1) * PerSecond < index'.exp
    BY DEF Listed
  <2>1. CASE w = n
    BY <1>3, <1>6, <1>k, <2>1
  <2>2. CASE w # n
    <3>1. w \in Issued /\ Live(w) /\ w # t
      BY <1>k, <2>2 DEF Clocks, Usable
    <3>2. ~LetGo(w)
      BY <1>8, <1>9, <3>1, LetGoStays
    <3>3. start[w] \in Nat /\ start'[w] = start[w] /\ start'[t] = start[t] /\ rotated'[t] # 0
      <4>1. start[w] \in Nat
        BY Types, Constants
      <4>2. start'[w] = start[w] /\ start'[t] = start[t]
        BY <1>4, <1>k, <2>2
      <4>3. rotated'[t] # 0
        BY <1>4, <1>k
      <4> QED
        BY <4>1, <4>2, <4>3
    <3>4. ~(start[t] < start[w])
      BY <3>3 DEF LetGo, OlderRotated
    <3>5. ~AtItsEnd(t)
      BY <1>4, <3>2, <3>3, <3>4, Lengths DEF LetGo, AtItsEnd
    <3>6. left # 0
      BY <1>6, <3>5
    <3>7. e \in Nat
      BY <1>6, <3>6, Clock
    <3>8. w \in index'.keys /\ index'.exp = e
      BY <1>3, <3>1, <3>2, <3>6 DEF Listed
    <3> QED
      BY <1>4, <1>6, <3>3, <3>4, <3>6, <3>7, <3>8, Lengths
  <2> QED
    BY <2>1, <2>2
<1>16. Requested'
  <2>1. r.tok <= issued' /\ r.ans <= issued' /\ (r.pc # "answer" => r.tok # NoToken)
    <3>1. t \in Nat /\ t <= issued' /\ NoToken <= issued' /\ t # NoToken /\ issued' = n
      BY <1>3, <1>4 DEF Issued, NoToken
    <3> QED
      BY <1>3, <1>4, <1>7, <3>1
  <2>2. r.pc = "logoutAll" => Since(r)'
    <3>1. \A w \in 1 .. n : born'[w] <= now
      <4> SUFFICES ASSUME NEW w \in 1 .. n PROVE born'[w] <= now
        OBVIOUS
      <4>1. w \in Tokens /\ born'[w] <= now'
        <5>1. w \in Tokens
          BY Constants DEF Tokens
        <5> QED
          BY <1>10, <5>1 DEF Clocks
      <4> QED
        BY <1>3, <4>1
    <3>2. n <= issued' /\ now <= now'
      BY <1>3, <1>4
    <3> QED
      BY <1>7, <3>1, <3>2 DEF Since
  <2>3. Sane(r)'
    BY <1>7, <2>1, <2>2 DEF Sane
  <2> QED
    BY <1>7, <1>8, <1>9, <2>3, RequestMoves
<1> QED
  BY <1>8, <1>10, <1>11, <1>12, <1>13, <1>14, <1>15, <1>16

----------------------------------------------------------------------------
(* The theorems.                                                           *)

LEMMA StepsKeep == IInv /\ [Next]_vars => IInv'
<1> SUFFICES ASSUME IInv, [Next]_vars PROVE IInv'
  OBVIOUS
<1>1. CASE \E d \in Devices : Login(d)
  BY <1>1, LoginKeeps
<1>2. ASSUME NEW q \in Requests,
             \/ \E d \in Devices : SendRefresh(q, d) \/ SendLogout(q, d)
             \/ Refresh(q) \/ Logout(q) \/ Deliver(q) \/ Lose(q)
      PROVE  IInv'
  <2>1. CASE \E d \in Devices : SendRefresh(q, d) \/ SendLogout(q, d)
    BY <2>1, SendRefreshKeeps, SendLogoutKeeps
  <2>2. CASE Refresh(q)
    BY <2>2, ReadSessionKeeps, VerifyAccessKeeps, DenyKeeps, RotateKeeps DEF Refresh
  <2>3. CASE Logout(q)
    BY <2>3, BanKeeps, ReadRevokedKeeps, UnmarkKeeps, RevokeKeeps, ListSessionsKeeps,
       WipeKeeps, ClearCookiesKeeps DEF Logout
  <2>4. CASE Deliver(q) \/ Lose(q)
    BY <2>4, DeliverKeeps
  <2> QED
    BY <1>2, <2>1, <2>2, <2>3, <2>4
<1>3. CASE LoseMembership
  BY <1>3, LoseMembershipKeeps
<1>4. CASE Tick
  BY <1>4, TickKeeps
<1>5. CASE UNCHANGED vars
  <2>1. UNCHANGED <<Rest, jar, logouts, req>>
    BY <1>5 DEF vars, Rest
  <2>2. TypeOK'
    BY <2>1 DEF IInv, TypeOK, Rest, sessionVars, accessVars
  <2>3. Grows /\ now' = now /\ Asked' \subseteq Asked
    BY <2>1, UnchangedGrows DEF IInv, Rest, Asked
  <2>4. Requested'
    BY <2>2, <2>3, RequestsStay
  <2>5. \A d \in Devices : jar'[d] <= issued
    BY <2>1 DEF IInv, Inv, Clocks
  <2> QED
    BY <2>1, <2>2, <2>4, <2>5, RestStays DEF IInv, Inv
<1> QED
  BY <1>1, <1>2, <1>3, <1>4, <1>5 DEF Next

(* The inductive invariant holds in every state.                           *)
THEOREM Invariance == Spec => []IInv
BY Starts, StepsKeep, PTL DEF Spec

(* Every variable has its type: what is left of a session is never less    *)
(* than nothing when it is written.                                        *)
THEOREM TypeCorrect == Spec => []TypeOK
<1>1. IInv => TypeOK
  BY DEF IInv
<1> QED
  BY <1>1, Invariance, PTL

(* However requests overlap and whichever answers are lost or late, the    *)
(* token a device holds works until a grace period after its rotation, and *)
(* a rotated token is answered with a pair that works.                     *)
THEOREM NobodyIsStranded == Spec => []NobodyStranded
<1>1. ASSUME IInv PROVE DevicesGoOn
  <2> USE <1>1 DEF IInv, Inv
  <2> SUFFICES ASSUME NEW d \in Devices, jar[d] # NoToken
               PROVE  Fine(jar[d]) \/ PastGrace(jar[d])
    BY DEF DevicesGoOn, Fine, PastGrace
  <2>1. jar[d] \in Tokens \cup {NoToken} /\ jar[d] <= issued
    BY DEF TypeOK, Clocks
  <2>2. jar[d] \in Issued
    BY <2>1, HeldIsIssued
  <2> QED
    BY <2>2 DEF TokensGoOn
<1>2. ASSUME IInv PROVE GraceLeadsHome
  <2> USE <1>2 DEF IInv, Inv
  <2> SUFFICES ASSUME NEW t \in Tokens, Rotated(t) PROVE Fine(key[t].to)
    BY DEF GraceLeadsHome, Fine
  <2> DEFINE s == key[t].to
  <2>1. /\ s \in Issued /\ now < rotated[t] + Grace * PerSecond
        /\ rotated[s] = 0 \/ rotated[t] <= rotated[s]
    BY DEF Markers
  <2>2. rotated[t] \in Nat /\ rotated[s] \in Nat /\ now \in Nat
    BY <2>1, Types, Constants
  <2>3. ~PastGrace(s)
    BY <2>1, <2>2, Lengths DEF PastGrace
  <2> QED
    BY <2>1, <2>3 DEF TokensGoOn
<1>3. IInv => NobodyStranded
  BY <1>1, <1>2 DEF NobodyStranded
<1> QED
  BY <1>3, Invariance, PTL

(* No chain of refreshes carries a session past its absolute lifetime by   *)
(* more than one refresh may take, and no access token from before the     *)
(* last logout of all devices, or that a logout came with, is accepted     *)
(* once that is done.                                                      *)
THEOREM WhatIsOverStaysOver == Spec => []OverIsOver
<1>1. ASSUME IInv PROVE EndsOnTime
  BY <1>1 DEF IInv, Inv, SessionKeys, EndsOnTime, Live
<1>2. ASSUME IInv PROVE LoggedOutForGood
  <2> SUFFICES ASSUME NEW t \in Tokens, t <= ended \/ t \in spent PROVE ~Accepted(t)
    BY DEF LoggedOutForGood
  <2>1. CASE t <= ended
    <3>1. t \in 1 .. ended
      BY <2>1, <1>2, Constants DEF Tokens, IInv, TypeOK
    <3> QED
      BY <3>1, <1>2 DEF IInv, Inv, Stamps, Accepted
  <2>2. CASE t \in spent
    BY <2>2, <1>2 DEF IInv, Inv, Bans, Accepted
  <2> QED
    BY <2>1, <2>2
<1>3. IInv => OverIsOver
  BY <1>1, <1>2 DEF OverIsOver
<1> QED
  BY <1>3, Invariance, PTL

(* The wipe of a logout of all devices leaves no session that was there    *)
(* when the logout began, but those that the index had let go of.          *)
LEMMA OnlyWipeLeavesWipe ==
  ASSUME IInv, [Next]_vars, NEW q \in Requests, At(q, "wipe"), ~At(q, "wipe")'
  PROVE  Wipe(q)
<1>0. req \in [Requests -> Request]
  BY Types DEF IInv
<1>1. req' # req
  BY DEF At
<1>2. ASSUME NEW w \in Requests,
             \/ \E d \in Devices : SendRefresh(w, d) \/ SendLogout(w, d)
             \/ Refresh(w) \/ Logout(w) \/ Deliver(w) \/ Lose(w)
      PROVE  /\ w = q
             /\ Wipe(w)
  <2>1. \E r : req' = [req EXCEPT ![w] = r]
    <3>1. CASE \E d \in Devices : SendRefresh(w, d) \/ SendLogout(w, d)
      BY <3>1 DEF SendRefresh, SendLogout
    <3>2. CASE ReadSession(w)
      <4>1. \A u, v : Answer(w, u, v) => \E r : req' = [req EXCEPT ![w] = r]
        BY <1>0 DEF Answer
      <4>2. \A pc : Goto(w, pc) => \E r : req' = [req EXCEPT ![w] = r]
        BY <1>0 DEF Goto
      <4> QED
        BY <1>0, <3>2, <4>1, <4>2 DEF ReadSession
    <3>3. CASE VerifyAccess(w) \/ BanFirst(w) \/ BanLast(w) \/ Revoke(w)
      <4>1. \A pc : Goto(w, pc) => \E r : req' = [req EXCEPT ![w] = r]
        BY <1>0 DEF Goto
      <4> QED
        BY <3>3, <4>1 DEF VerifyAccess, BanFirst, BanLast, Revoke
    <3>4. CASE Deny(w) \/ Rotate(w)
      <4>1. \A u, v : Answer(w, u, v) => \E r : req' = [req EXCEPT ![w] = r]
        BY <1>0 DEF Answer
      <4> QED
        BY <3>4, <4>1 DEF Deny, Rotate
    <3>5. CASE ReadRevoked(w)
      <4>1. \A pc : Goto(w, pc) => \E r : req' = [req EXCEPT ![w] = r]
        BY <1>0 DEF Goto
      <4> QED
        BY <1>0, <3>5, <4>1 DEF ReadRevoked
    <3>6. CASE Unmark(w)
      BY <1>0, <3>6 DEF Unmark
    <3>7. CASE ListSessions(w)
      BY <1>0, <3>7 DEF ListSessions
    <3>8. CASE Wipe(w)
      BY <1>0, <3>8 DEF Wipe
    <3>9. CASE ClearCookies(w) \/ Deliver(w) \/ Lose(w)
      BY <3>9 DEF ClearCookies, Deliver, Lose, Done
    <3> QED
      BY <1>2, <3>1, <3>2, <3>3, <3>4, <3>5, <3>6, <3>7, <3>8, <3>9 DEF Refresh, Logout
  <2>2. w = q
    BY <1>0, <2>1 DEF At
  <2> QED
    BY <1>2, <2>2 DEF Refresh, Logout, At, SendRefresh, SendLogout, ReadSession, VerifyAccess, Deny,
       Rotate, BanFirst, BanLast, ReadRevoked, Unmark, Revoke, ListSessions, ClearCookies,
       Deliver, Lose
<1> QED
  BY <1>1, <1>2 DEF Next, Login, LoseMembership, Tick, vars

THEOREM LogoutReachesAll == Spec => LogoutEndsAll
<1>1. ASSUME IInv, [Next]_vars, NEW q \in Requests, At(q, "wipe"), ~At(q, "wipe")',
             NEW t \in 1 .. req[q].upto, key'[t].kind = "live"
      PROVE  \/ AtItsEnd(t)
             \/ t \in missed
             \/ \E s \in Tokens : rotated[s] # 0 /\ start[s] < start[t]
  <2>1. Wipe(q) /\ Sane(req[q]) /\ req[q] \in Request /\ req[q].pc = "wipe"
    BY <1>1, OnlyWipeLeavesWipe, ReqFacts DEF At
  <2>2. t \in Tokens
    <3>1. req[q].upto \in Nat /\ req[q].upto <= issued /\ issued \in Nat
      BY <1>1, <2>1, Types, Constants DEF Sane, Since, Request, IInv
    <3> QED
      BY <1>1, <3>1, Types DEF Issued, IInv
  <2>3. t \notin req[q].list /\ Live(t)
    BY <1>1, <2>1, <2>2, KeysFit DEF Wipe, Live
  <2> QED
    BY <1>1, <2>1, <2>3 DEF Sane, Shown, LetGo, OlderRotated
<1>2. IInv /\ [Next]_vars =>
        [\A q \in Requests : At(q, "wipe") /\ ~At(q, "wipe")' =>
           \A t \in 1 .. req[q].upto :
             key'[t].kind = "live" => \/ AtItsEnd(t)
                                     \/ t \in missed
                                     \/ \E s \in Tokens : rotated[s] # 0 /\ start[s] < start[t]]_vars
  BY <1>1
<1> QED
  BY <1>2, Invariance, PTL DEF Spec, LogoutEndsAll

=============================================================================
