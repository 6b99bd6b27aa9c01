--------------------------- MODULE StudentSessions ---------------------------
(***************************************************************************)
(* Student login sessions: a record per sid and an index from refresh-token  *)
(* hash to sid in Redis, and in the one Node process a positive cache of sids *)
(* and a throttle of last-seen writes. Requests of a student run at the same *)
(* time and every Redis command is a step of its own: a request uses, after  *)
(* its reply, what Redis held before. A pipeline is one step, because the    *)
(* process sends it whole on its one connection.                             *)
(*                                                                          *)
(* A refresh token stands for its hash. The set of sids per user is written  *)
(* and never read by the service, and is left out.                           *)
(***************************************************************************)
EXTENDS Integers, FiniteSets

CONSTANTS
  Sids,          \* session ids a login can draw
  Web,           \* the sids of web clients, the others are mobile
  Requests,      \* requests that can run at the same time
  None,          \* no record, no entry, no token
  NumTokens,     \* bound on the refresh tokens drawn
  MaxNow,        \* bound on the clock
  MaxFaults,     \* bound on Redis commands that fail and on deactivations,
                 \* together
  WebTTL, MobileTTL, CacheTTL, TouchEvery  \* the constants of the service

Tokens == 1..NumTokens

ASSUME WebIsSids == Web \subseteq Sids
ASSUME NoneIsNoSid == None \notin Sids \cup Nat
ASSUME TimesAreNat ==
  {NumTokens, MaxNow, MaxFaults, WebTTL, MobileTTL, CacheTTL, TouchEvery}
    \subseteq Nat
ASSUME CacheHolds == CacheTTL > 0

VARIABLES
  now,        \* the clock
  session,    \* session:{sid} in Redis, a record with its key's expiry
  index,      \* session-refresh:{hash} in Redis, a sid with its key's expiry
  sidCache,   \* positive cache of the process, [exp, at]
  lastTouch,  \* throttle of the process, None before the first touch
  active,     \* user.isActive
  drawn,      \* refresh tokens drawn so far
  issued,     \* tokens a client has received, with the sid they belong to
  req,        \* the request each slot is running, and where it is
  faults,     \* Redis commands failed and users deactivated so far
  loginAt,    \* when the sid was drawn
  revokedAt,  \* when a revoke last removed the session from Redis
  raced,      \* sids removed while another request still had a write to do
  staled      \* sids whose record a last-seen write has put back

redis == <<session, index>>
memory == <<sidCache, lastTouch>>
history == <<loginAt, revokedAt, raced, staled>>
vars == <<now, redis, memory, active, drawn, issued, req, faults, history>>

Record == [hash: Tokens, exp: Nat, ttl: Nat]
ASSUME NoneIsNoRecord == None \notin Record
ASSUME NoneIsNoIndexEntry == None \notin [sid: Sids, ttl: Nat]
Entry == [exp: Nat, at: Nat]
\* t: Date.now() of the handler. touch: the same of its touchActivity. rec: the
\* record it has read. verdict: what assertActive answered.
Req ==
  [at: {"idle", "assertGet", "assertGot", "touchGet", "touchSet", "index",
        "read", "write", "remember", "byToken", "revokeGet", "revokeDel"},
   sid: Sids \cup {None}, token: Tokens \cup {None}, t: Nat, touch: Nat,
   rec: Record \cup {None},
   verdict: {"none", "accepted", "degraded"}]
Idle == [at |-> "idle", sid |-> None, token |-> None, t |-> 0, touch |-> 0,
         rec |-> None, verdict |-> "none"]

Init ==
  /\ now = 0
  /\ session = [s \in Sids |-> None]
  /\ index = [h \in Tokens |-> None]
  /\ sidCache = [s \in Sids |-> None]
  /\ lastTouch = [s \in Sids |-> None]
  /\ active = TRUE
  /\ drawn = 0
  /\ issued = [h \in Tokens |-> None]
  /\ req = [r \in Requests |-> Idle]
  /\ faults = 0
  /\ loginAt = [s \in Sids |-> None]
  /\ revokedAt = [s \in Sids |-> None]
  /\ raced = {}
  /\ staled = {}

Go(r, at) == req' = [req EXCEPT ![r].at = at]
End(r) == req' = [req EXCEPT ![r] = Idle]
Forget(s) == sidCache' = [sidCache EXCEPT ![s] = None]
RememberSid(s, exp, at) ==
  sidCache' = [sidCache EXCEPT ![s] = [exp |-> exp, at |-> at]]
TTL(s) == IF s \in Web THEN WebTTL ELSE MobileTTL
AtLeastOne(n) == IF n < 1 THEN 1 ELSE n

\* create: the pipeline, then the cache. Nobody knows the sid before. A login
\* whose pipeline fails leaves no record behind and is left out.
Login(s) ==
  /\ loginAt[s] = None
  /\ active
  /\ drawn < NumTokens
  /\ drawn' = drawn + 1
  /\ LET exp == now + TTL(s) IN
       /\ session' = [session EXCEPT ![s] =
                        [hash |-> drawn', exp |-> exp, ttl |-> exp]]
       /\ index' = [index EXCEPT ![drawn'] = [sid |-> s, ttl |-> exp]]
       /\ RememberSid(s, exp, now)
  /\ issued' = [issued EXCEPT ![drawn'] = s]
  /\ loginAt' = [loginAt EXCEPT ![s] = now]
  /\ UNCHANGED <<now, lastTouch, active, req, faults, revokedAt, raced, staled>>

\* touchActivity up to its first await, in the request's own turn.
Touch(r, s, t, verdict) ==
  IF lastTouch[s] # None /\ now - lastTouch[s] < TouchEvery
  THEN /\ req' = [req EXCEPT ![r] = [Idle EXCEPT !.sid = s, !.t = t,
                                       !.verdict = verdict]]
       /\ UNCHANGED lastTouch
  ELSE /\ req' = [req EXCEPT ![r] = [Idle EXCEPT !.at = "touchGet", !.sid = s,
                                       !.t = t, !.touch = now,
                                       !.verdict = verdict]]
       /\ lastTouch' = [lastTouch EXCEPT ![s] = now]

Usable(rec, t) == rec # None /\ rec.exp > t
CacheHit(s) ==
  /\ sidCache[s] # None
  /\ sidCache[s].exp > now
  /\ now - sidCache[s].at < CacheTTL

\* validateJwtPayload of an access token of s.
ValidateStart(r, s) ==
  /\ req[r].at = "idle"
  /\ loginAt[s] # None
  /\ active
  /\ \/ CacheHit(s) /\ Touch(r, s, now, "accepted")
     \/ /\ ~CacheHit(s)
        /\ req' = [req EXCEPT ![r] = [Idle EXCEPT !.at = "assertGet",
                                        !.sid = s, !.t = now]]
        /\ UNCHANGED lastTouch
  /\ UNCHANGED <<now, redis, sidCache, active, drawn, issued, faults, history>>

AssertGet(r) ==
  /\ req[r].at = "assertGet"
  /\ req' = [req EXCEPT ![r].at = "assertGot", ![r].rec = session[req[r].sid]]
  /\ UNCHANGED <<now, redis, memory, active, drawn, issued, faults, history>>

\* Mutant: the entry is dated when the reply arrives.
AssertFinish_DatedLate(r) ==
  LET s == req[r].sid
      rec == req[r].rec
  IN
  /\ req[r].at = "assertGot"
  /\ \/ /\ Usable(rec, req[r].t)
        /\ RememberSid(s, rec.exp, now)
        /\ Touch(r, s, req[r].t, "accepted")
     \/ /\ ~Usable(rec, req[r].t)
        /\ Forget(s)
        /\ End(r)
        /\ UNCHANGED lastTouch
  /\ UNCHANGED <<now, redis, active, drawn, issued, faults, history>>

AssertFinish(r) ==
  LET s == req[r].sid
      rec == req[r].rec
  IN
  /\ req[r].at = "assertGot"
  /\ \/ /\ Usable(rec, req[r].t)
        /\ RememberSid(s, rec.exp, req[r].t)
        /\ Touch(r, s, req[r].t, "accepted")
     \/ /\ ~Usable(rec, req[r].t)
        /\ Forget(s)
        /\ End(r)
        /\ UNCHANGED lastTouch
  /\ UNCHANGED <<now, redis, active, drawn, issued, faults, history>>

\* Mutant: the record is written back without a look at what was read.
TouchGet_NoCheck(r) ==
  /\ req[r].at = "touchGet"
  /\ req' = [req EXCEPT ![r].at = "touchSet", ![r].rec = session[req[r].sid]]
  /\ UNCHANGED <<now, redis, memory, active, drawn, issued, faults, history>>

TouchGet(r) ==
  /\ req[r].at = "touchGet"
  /\ \/ /\ session[req[r].sid] = None
        /\ End(r)
     \/ /\ session[req[r].sid] # None
        /\ req' = [req EXCEPT ![r].at = "touchSet",
                              ![r].rec = session[req[r].sid]]
  /\ UNCHANGED <<now, redis, memory, active, drawn, issued, faults, history>>

\* Writes the record it has read, with a new lastSeenAt.
TouchSet(r) ==
  LET s == req[r].sid
      rec == req[r].rec
      remaining == AtLeastOne(rec.exp - req[r].touch)
  IN
  /\ req[r].at = "touchSet"
  /\ session' = [session EXCEPT ![s] = [rec EXCEPT !.ttl = now + remaining]]
  /\ staled' = IF session[s] # None /\ session[s].hash = rec.hash
               THEN staled ELSE staled \cup {s}
  /\ End(r)
  /\ UNCHANGED <<now, index, memory, active, drawn, issued, faults, loginAt,
                 revokedAt, raced>>

\* refreshStudentSession with any token a client has received.
RefreshStart(r, h) ==
  /\ req[r].at = "idle"
  /\ issued[h] # None
  /\ req' = [req EXCEPT ![r] = [Idle EXCEPT !.at = "index", !.token = h]]
  /\ UNCHANGED <<now, redis, memory, active, drawn, issued, faults, history>>

RefreshIndex(r) ==
  LET found == index[req[r].token] IN
  /\ req[r].at = "index"
  /\ \/ found = None /\ End(r)
     \/ found # None /\ req' = [req EXCEPT ![r].at = "read", ![r].sid = found.sid]
  /\ UNCHANGED <<now, redis, memory, active, drawn, issued, faults, history>>

\* A missing record drops the index, one of another token or one that has
\* expired is revoked, else the handler goes on to the pipeline.
RefreshRead(r) ==
  LET s == req[r].sid
      h == req[r].token
      rec == session[s]
  IN
  /\ req[r].at = "read"
  /\ \/ /\ rec = None
        /\ index' = [index EXCEPT ![h] = None]
        /\ End(r)
        /\ UNCHANGED sidCache
     \/ /\ rec # None
        /\ rec.hash # h \/ rec.exp <= now
        /\ Forget(s)
        /\ Go(r, "revokeGet")
        /\ UNCHANGED index
     \/ /\ rec # None
        /\ rec.hash = h /\ rec.exp > now
        /\ req' = [req EXCEPT ![r].at = "write", ![r].rec = rec, ![r].t = now]
        /\ UNCHANGED <<index, sidCache>>
  /\ UNCHANGED <<now, session, lastTouch, active, drawn, issued, faults, history>>

\* Mutant: the web session slides like the mobile one.
NextExp_AlwaysSlides(s, rec, t) == t + TTL(s)

NextExp(s, rec, t) == IF s \in Web THEN rec.exp ELSE t + MobileTTL

\* Mutant: the new token is not indexed.
RefreshWrite_NoIndex(r) ==
  LET s == req[r].sid
      exp == NextExp(s, req[r].rec, req[r].t)
      ttl == now + AtLeastOne(exp - req[r].t)
  IN
  /\ req[r].at = "write"
  /\ drawn < NumTokens
  /\ drawn' = drawn + 1
  /\ session' = [session EXCEPT ![s] =
                   [hash |-> drawn', exp |-> exp, ttl |-> ttl]]
  /\ index' = [index EXCEPT ![req[r].token] = None]
  /\ req' = [req EXCEPT ![r].at = "remember", ![r].rec = session'[s],
                        ![r].token = drawn']
  /\ UNCHANGED <<now, memory, active, issued, faults, history>>

RefreshWrite(r) ==
  LET s == req[r].sid
      exp == NextExp(s, req[r].rec, req[r].t)
      ttl == now + AtLeastOne(exp - req[r].t)
  IN
  /\ req[r].at = "write"
  /\ drawn < NumTokens
  /\ drawn' = drawn + 1
  /\ session' = [session EXCEPT ![s] =
                   [hash |-> drawn', exp |-> exp, ttl |-> ttl]]
  /\ index' = [index EXCEPT ![req[r].token] = None,
                            ![drawn'] = [sid |-> s, ttl |-> ttl]]
  /\ req' = [req EXCEPT ![r].at = "remember", ![r].rec = session'[s],
                        ![r].token = drawn']
  /\ UNCHANGED <<now, memory, active, issued, faults, history>>

\* The same pipeline when Redis does not answer: exec() resolves with the errors
\* of its commands, and the handler goes on with a token nobody knows.
RefreshUnwritten(r) ==
  LET exp == NextExp(req[r].sid, req[r].rec, req[r].t)
      ttl == now + AtLeastOne(exp - req[r].t)
  IN
  /\ req[r].at = "write"
  /\ drawn < NumTokens
  /\ faults < MaxFaults
  /\ drawn' = drawn + 1
  /\ faults' = faults + 1
  /\ req' = [req EXCEPT ![r].at = "remember", ![r].token = drawn',
                        ![r].rec = [hash |-> drawn', exp |-> exp, ttl |-> ttl]]
  /\ UNCHANGED <<now, redis, memory, active, issued, history>>

\* The reply: the cache, then the user, whose session ends if inactive.
RefreshFinish(r) ==
  LET s == req[r].sid IN
  /\ req[r].at = "remember"
  /\ \/ /\ active
        /\ RememberSid(s, req[r].rec.exp, req[r].t)
        /\ issued' = [issued EXCEPT ![req[r].token] = s]
        /\ End(r)
     \/ /\ ~active
        /\ Forget(s)
        /\ Go(r, "revokeGet")
        /\ UNCHANGED issued
  /\ UNCHANGED <<now, redis, lastTouch, active, drawn, faults, history>>

\* logoutStudent with an access token, or with only the refresh token.
LogoutBySid(r, s) ==
  /\ req[r].at = "idle"
  /\ loginAt[s] # None
  /\ Forget(s)
  /\ req' = [req EXCEPT ![r] = [Idle EXCEPT !.at = "revokeGet", !.sid = s]]
  /\ UNCHANGED <<now, redis, lastTouch, active, drawn, issued, faults, history>>

LogoutByToken(r, h) ==
  /\ req[r].at = "idle"
  /\ issued[h] # None
  /\ req' = [req EXCEPT ![r] = [Idle EXCEPT !.at = "byToken", !.token = h]]
  /\ UNCHANGED <<now, redis, memory, active, drawn, issued, faults, history>>

RevokeByToken(r) ==
  LET found == index[req[r].token] IN
  /\ req[r].at = "byToken"
  /\ \/ /\ found = None
        /\ End(r)
        /\ UNCHANGED sidCache
     \/ /\ found # None
        /\ Forget(found.sid)
        /\ req' = [req EXCEPT ![r].at = "revokeGet", ![r].sid = found.sid]
  /\ UNCHANGED <<now, redis, lastTouch, active, drawn, issued, faults, history>>

RevokeGet(r) ==
  /\ req[r].at = "revokeGet"
  /\ req' = [req EXCEPT ![r].at = "revokeDel", ![r].rec = session[req[r].sid]]
  /\ UNCHANGED <<now, redis, memory, active, drawn, issued, faults, history>>

\* Another request that has yet to write the record it has read.
HasWriteToDo(q, s) == req[q].sid = s /\ req[q].at \in {"touchSet", "write"}

\* Mutant: only the index of the token is removed.
RevokeDel_IndexOnly(r) ==
  LET s == req[r].sid
      rec == req[r].rec
  IN
  /\ req[r].at = "revokeDel"
  /\ index' = IF rec = None THEN index ELSE [index EXCEPT ![rec.hash] = None]
  /\ revokedAt' = [revokedAt EXCEPT ![s] = now]
  /\ raced' = IF \E q \in Requests \ {r} : HasWriteToDo(q, s)
              THEN raced \cup {s} ELSE raced
  /\ End(r)
  /\ UNCHANGED <<now, session, memory, active, drawn, issued, faults, loginAt,
                 staled>>

RevokeDel(r) ==
  LET s == req[r].sid
      rec == req[r].rec
  IN
  /\ req[r].at = "revokeDel"
  /\ session' = [session EXCEPT ![s] = None]
  /\ index' = IF rec = None THEN index ELSE [index EXCEPT ![rec.hash] = None]
  /\ revokedAt' = [revokedAt EXCEPT ![s] = now]
  /\ raced' = IF \E q \in Requests \ {r} : HasWriteToDo(q, s)
              THEN raced \cup {s} ELSE raced
  /\ End(r)
  /\ UNCHANGED <<now, memory, active, drawn, issued, faults, loginAt, staled>>

\* Redis is unreachable: a check accepts, every other handler gives up, but for
\* the refresh that is about to write.
RedisFails(r) ==
  /\ faults < MaxFaults
  /\ faults' = faults + 1
  /\ \/ req[r].at = "assertGet" /\ Touch(r, req[r].sid, req[r].t, "degraded")
     \/ /\ req[r].at \in {"touchGet", "touchSet", "index", "read", "byToken",
                          "revokeGet", "revokeDel"}
        /\ End(r)
        /\ UNCHANGED lastTouch
  /\ UNCHANGED <<now, redis, sidCache, active, drawn, issued, history>>

\* An admin deactivates the user: only the user row changes.
Deactivate ==
  /\ faults < MaxFaults
  /\ active
  /\ faults' = faults + 1
  /\ active' = FALSE
  /\ UNCHANGED <<now, redis, memory, drawn, issued, req, history>>

\* Keys whose time has come are gone from Redis.
Live(v) == IF v # None /\ v.ttl <= now + 1 THEN None ELSE v
Tick ==
  /\ now < MaxNow
  /\ now' = now + 1
  /\ session' = [s \in Sids |-> Live(session[s])]
  /\ index' = [h \in Tokens |-> Live(index[h])]
  /\ UNCHANGED <<memory, active, drawn, issued, req, faults, history>>

RequestStep(r) ==
  \/ \E s \in Sids : ValidateStart(r, s) \/ LogoutBySid(r, s)
  \/ \E h \in Tokens : RefreshStart(r, h) \/ LogoutByToken(r, h)
  \/ AssertGet(r) \/ AssertFinish(r) \/ TouchGet(r) \/ TouchSet(r)
  \/ RefreshIndex(r) \/ RefreshRead(r) \/ RefreshWrite(r)
  \/ RefreshUnwritten(r) \/ RefreshFinish(r)
  \/ RevokeByToken(r) \/ RevokeGet(r) \/ RevokeDel(r) \/ RedisFails(r)

Next ==
  \/ \E s \in Sids : Login(s)
  \/ \E r \in Requests : RequestStep(r)
  \/ Deactivate
  \/ Tick

Spec == Init /\ [][Next]_vars
-----------------------------------------------------------------------------
\* Every variable has its type.
TypeOK ==
  /\ now \in 0..MaxNow
  /\ session \in [Sids -> Record \cup {None}]
  /\ index \in [Tokens -> [sid: Sids, ttl: Nat] \cup {None}]
  /\ sidCache \in [Sids -> Entry \cup {None}]
  /\ lastTouch \in [Sids -> Nat \cup {None}]
  /\ active \in BOOLEAN
  /\ drawn \in 0..NumTokens
  /\ issued \in [Tokens -> Sids \cup {None}]
  /\ req \in [Requests -> Req]
  /\ \A r \in Requests :
       req[r].at \in {"touchSet", "write", "remember"} => req[r].rec # None
  /\ faults \in 0..MaxFaults
  /\ loginAt \in [Sids -> Nat \cup {None}]
  /\ revokedAt \in [Sids -> Nat \cup {None}]
  /\ raced \subseteq Sids
  /\ staled \subseteq Sids

\* The refresh token that a session's record names finds the session, as long as
\* the record has not expired: every path that writes the one keeps the other
\* (create, refresh and revoke, student-session.service.ts 142-167, 287-417),
\* also when two refreshes of one token both rotate. A last-seen write that puts
\* an older record back is excepted. It says nothing of the token that loses
\* such a race: its use is taken for theft and ends the session.
CurrentTokenWorks ==
  \A s \in Sids \ staled :
    session[s] # None /\ session[s].exp > now =>
      index[session[s].hash] # None /\ index[session[s].hash].sid = s

\* A revoked session stays gone, unless a refresh or a last-seen write had read
\* its record before and wrote it after (revoke, student-session.service.ts
\* 385-417).
RevokedStaysGone ==
  \A s \in Sids \ (raced \cup staled) :
    revokedAt[s] # None => session[s] = None

\* A check that begins CacheTTL after the revoke is refused: the cache of
\* accepted sids adds no more than its own lifetime, even when a check or a
\* refresh puts an entry back after the revoke has dropped it
\* (student-session.service.ts 203-268, session.constants.ts 20-24).
RevokedWithinCacheTTL ==
  \A r \in Requests :
    /\ req[r].verdict = "accepted"
    /\ revokedAt[req[r].sid] # None
    /\ req[r].sid \notin raced \cup staled
    => req[r].t < revokedAt[req[r].sid] + CacheTTL

\* A web session accepts nothing past the deadline its login set, however often
\* it is refreshed or touched (student-session.service.ts 333-336).
WebDeadlineHolds ==
  \A r \in Requests :
    req[r].verdict = "accepted" /\ req[r].sid \in Web
      => req[r].t < loginAt[req[r].sid] + WebTTL
=============================================================================
