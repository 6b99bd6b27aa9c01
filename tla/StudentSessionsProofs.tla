------------------------ MODULE StudentSessionsProofs ------------------------
(***************************************************************************)
(* Theorems about StudentSessions, for any sids, requests and lifetimes and  *)
(* any number of Redis failures: types, the deadline of a web session, what   *)
(* a revoke ends, and that the current refresh token is found. Requests hold  *)
(* what they read while they wait for Redis, so every invariant speaks of the *)
(* copies as well: IInv bounds each copy of a deadline by the login, CacheInv *)
(* dates what a check may still remember by the revoke, TokenInv gives each   *)
(* token the one sid and the one deadline it was drawn with.                  *)
(***************************************************************************)
EXTENDS StudentSessions, TLAPS

\* A copy of the expiry of s, bounded by its login when s is a web session.
Bounded(s, exp) == s \in Web => loginAt[s] # None /\ exp <= loginAt[s] + WebTTL

\* What the record and the cache entry of a session say of its expiry.
StoredIsBounded ==
  \A s \in Sids :
    /\ session[s] # None => Bounded(s, session[s].exp)
    /\ sidCache[s] # None => Bounded(s, sidCache[s].exp)

\* A request q knows its token or its sid when it uses it, holds a bounded record,
\* and has no verdict before it has checked.
Backed(q) ==
  /\ q.at \in {"index", "byToken"} => q.token \in Tokens /\ q.rec = None
  /\ q.at \notin {"idle", "index", "byToken"} => q.sid \in Sids
  /\ q.at \in {"touchSet", "write", "remember"} => q.rec # None
  /\ q.rec # None => q.sid \in Sids /\ Bounded(q.sid, q.rec.exp)
  /\ q.at \notin {"idle", "touchGet", "touchSet"} => q.verdict = "none"
  /\ q.verdict = "accepted" =>
       q.sid \in Sids /\ (q.sid \in Web => loginAt[q.sid] # None
                                           /\ q.t < loginAt[q.sid] + WebTTL)

RequestsBacked == \A r \in Requests : Backed(req[r])

IInv == TypeOK /\ StoredIsBounded /\ RequestsBacked

-----------------------------------------------------------------------------
\* The constants have the types the arithmetic needs.
LEMMA ConstantTypes ==
  /\ NumTokens \in Nat /\ MaxNow \in Nat /\ MaxFaults \in Nat
  /\ WebTTL \in Nat /\ MobileTTL \in Nat
  /\ Web \subseteq Sids
  /\ None \notin Sids /\ None \notin Tokens /\ None \notin Nat
  BY TimesAreNat, WebIsSids, NoneIsNoSid DEF Tokens

\* A slot without a request.
LEMMA IdleIsBacked == Idle \in Req /\ Backed(Idle)
  BY DEF Idle, Req, Backed

\* Before the first login the invariant holds.
THEOREM InitIInv == Init => IInv
<1> SUFFICES ASSUME Init PROVE IInv
  OBVIOUS
<1>1. TypeOK
  BY ConstantTypes, IdleIsBacked DEF Init, TypeOK, Idle
<1>2. StoredIsBounded
  BY DEF Init, StoredIsBounded
<1>3. RequestsBacked
  BY IdleIsBacked DEF Init, RequestsBacked
<1>4. QED
  BY <1>1, <1>2, <1>3 DEF IInv

\* No step changes when a session was made.
LoginsStay == \A s \in Sids : loginAt[s] # None => loginAt'[s] = loginAt[s]

\* What a request may rely on is not undone by the steps of others.
LEMMA BackingIsStable ==
  ASSUME LoginsStay, NEW q, Backed(q)
  PROVE  Backed(q)'
  BY ConstantTypes DEF LoginsStay, Backed, Bounded

\* A request that moves to q, which is typed and backed, leaves all requests so.
LEMMA RequestMoves ==
  ASSUME IInv, LoginsStay, NEW r \in Requests, NEW q \in Req,
         req' = [req EXCEPT ![r] = q], Backed(q)'
  PROVE  /\ req' \in [Requests -> Req]
         /\ \A p \in Requests :
              req'[p].at \in {"touchSet", "write", "remember"} => req'[p].rec # None
         /\ RequestsBacked'
<1>1. req' \in [Requests -> Req]
  BY DEF IInv, TypeOK
<1>2. RequestsBacked'
  <2> SUFFICES ASSUME NEW p \in Requests PROVE Backed(req[p])'
    BY DEF RequestsBacked
  <2>1. CASE p = r
    BY <2>1 DEF IInv, TypeOK
  <2>2. CASE p # r
    <3>1. req'[p] = req[p] /\ Backed(req[p])
      BY <2>2 DEF IInv, TypeOK, RequestsBacked
    <3>2. QED
      BY <3>1, BackingIsStable
  <2>3. QED
    BY <2>1, <2>2
<1>3. QED
  BY <1>1, <1>2 DEF RequestsBacked, Backed

\* A step of one request that touches neither Redis nor the cache.
LEMMA OnlyMoves ==
  ASSUME IInv, NEW r \in Requests, NEW q \in Req,
         req' = [req EXCEPT ![r] = q], Backed(q),
         lastTouch' \in [Sids -> Nat \cup {None}], faults' \in 0..MaxFaults,
         UNCHANGED <<now, redis, sidCache, active, drawn, issued, history>>
  PROVE  IInv'
<1>1. LoginsStay
  BY DEF LoginsStay, history
<1>2. Backed(q)'
  BY <1>1, BackingIsStable
<1>3. StoredIsBounded'
  BY DEF IInv, StoredIsBounded, Bounded, redis, history
<1>4. TypeOK'
  BY <1>1, <1>2, RequestMoves DEF IInv, TypeOK, redis, history
<1>5. QED
  BY <1>1, <1>2, <1>3, <1>4, RequestMoves DEF IInv
-----------------------------------------------------------------------------
\* touchActivity before its first await: the verdict is given, and bounded.
LEMMA TouchMoves ==
  ASSUME IInv, NEW r \in Requests, NEW s \in Sids, NEW t \in Nat,
         NEW verdict \in {"accepted", "degraded"}, Touch(r, s, t, verdict),
         LoginsStay, TypeOK => now \in Nat,
         verdict = "accepted" /\ s \in Web => loginAt[s] # None /\ t < loginAt[s] + WebTTL
  PROVE  /\ lastTouch' \in [Sids -> Nat \cup {None}]
         /\ \E q \in Req : req' = [req EXCEPT ![r] = q] /\ Backed(q)
<1>1. now \in Nat
  BY DEF IInv
<1>2. lastTouch' \in [Sids -> Nat \cup {None}]
  BY <1>1 DEF Touch, IInv, TypeOK
<1>3. CASE lastTouch[s] # None /\ now - lastTouch[s] < TouchEvery
  <2> DEFINE q == [Idle EXCEPT !.sid = s, !.t = t, !.verdict = verdict]
  <2>1. q \in Req /\ Backed(q)
    BY ConstantTypes DEF Req, Idle, Backed
  <2>2. QED
    BY <1>2, <1>3, <2>1 DEF Touch
<1>4. CASE ~(lastTouch[s] # None /\ now - lastTouch[s] < TouchEvery)
  <2> DEFINE q == [Idle EXCEPT !.at = "touchGet", !.sid = s, !.t = t, !.touch = now,
                               !.verdict = verdict]
  <2>1. q \in Req /\ Backed(q)
    BY <1>1, ConstantTypes DEF Req, Idle, Backed
  <2>2. QED
    BY <1>2, <1>4, <2>1 DEF Touch
<1>5. QED
  BY <1>3, <1>4

\* The clock is a number.
LEMMA NowIsNat == TypeOK => now \in Nat
  BY ConstantTypes DEF TypeOK

\* A step that leaves history alone changes no login.
LEMMA HistoryKeepsLogins == UNCHANGED loginAt => LoginsStay
  BY DEF LoginsStay

\* assertActive from the cache, or on to Redis.
LEMMA ValidateStartStep ==
  ASSUME IInv, NEW r \in Requests, NEW s \in Sids, ValidateStart(r, s)
  PROVE  IInv'
<1> USE NowIsNat DEF IInv
<1>1. faults' \in 0..MaxFaults
  BY DEF ValidateStart, TypeOK
<1>2. LoginsStay
  BY HistoryKeepsLogins DEF ValidateStart, history
<1>3. CASE CacheHit(s) /\ Touch(r, s, now, "accepted")
  <2>1. s \in Web => loginAt[s] # None /\ now < loginAt[s] + WebTTL
    BY <1>3, ConstantTypes DEF CacheHit, StoredIsBounded, Bounded, TypeOK, Entry
  <2>2. lastTouch' \in [Sids -> Nat \cup {None}]
    BY <1>2, <1>3, <2>1, TouchMoves
  <2>3. PICK q \in Req : req' = [req EXCEPT ![r] = q] /\ Backed(q)
    BY <1>2, <1>3, <2>1, TouchMoves
  <2>4. QED
    BY <1>1, <2>2, <2>3, OnlyMoves DEF ValidateStart
<1>4. CASE ~CacheHit(s)
  <2> DEFINE q == [Idle EXCEPT !.at = "assertGet", !.sid = s, !.t = now]
  <2>1. q \in Req /\ Backed(q)
    BY ConstantTypes DEF Req, Idle, Backed
  <2>2. req' = [req EXCEPT ![r] = q] /\ lastTouch' = lastTouch
    BY <1>4 DEF ValidateStart
  <2>3. QED
    BY <1>1, <2>1, <2>2, OnlyMoves DEF ValidateStart, TypeOK
<1>5. QED
  BY <1>3, <1>4 DEF ValidateStart

\* A request reads the record of its sid.
LEMMA ReadsRecord ==
  ASSUME IInv, NEW r \in Requests, req[r].at \notin {"idle", "index", "byToken"},
         NEW at \in {"assertGot", "touchSet", "revokeDel"},
         at = "touchSet" => req[r].at = "touchGet" /\ session[req[r].sid] # None,
         at # "touchSet" => req[r].at \in {"assertGet", "revokeGet"},
         NEW q, q = [req[r] EXCEPT !.at = at, !.rec = session[req[r].sid]]
  PROVE  q \in Req /\ Backed(q)
<1>1. req[r] \in Req /\ Backed(req[r]) /\ req[r].sid \in Sids
  BY DEF IInv, TypeOK, RequestsBacked, Backed
<1>2. session[req[r].sid] \in Record \cup {None}
  BY <1>1 DEF IInv, TypeOK
<1>3. q \in Req
  BY <1>1, <1>2 DEF Req
<1>4. /\ q.at = at /\ q.rec = session[req[r].sid]
      /\ q.sid = req[r].sid /\ q.verdict = req[r].verdict /\ q.t = req[r].t
  BY <1>1 DEF Req
<1>5. q.rec # None => Bounded(q.sid, q.rec.exp)
  BY <1>1, <1>4 DEF IInv, StoredIsBounded
<1>6. at # "touchSet" => q.verdict = "none"
  BY <1>1, <1>4 DEF Backed
<1>7. Backed(q)
  BY <1>1, <1>4, <1>5, <1>6 DEF Backed
<1>8. QED
  BY <1>3, <1>7

\* assertActive reads the record.
LEMMA AssertGetStep ==
  ASSUME IInv, NEW r \in Requests, AssertGet(r)
  PROVE  IInv'
<1> DEFINE q == [req[r] EXCEPT !.at = "assertGot", !.rec = session[req[r].sid]]
<1>1. q \in Req /\ Backed(q)
  BY ReadsRecord DEF AssertGet
<1>2. req' = [req EXCEPT ![r] = q]
  BY DEF AssertGet, IInv, TypeOK
<1>3. QED
  BY <1>1, <1>2, OnlyMoves DEF AssertGet, IInv, TypeOK, memory

\* revoke reads the record.
LEMMA RevokeGetStep ==
  ASSUME IInv, NEW r \in Requests, RevokeGet(r)
  PROVE  IInv'
<1> DEFINE q == [req[r] EXCEPT !.at = "revokeDel", !.rec = session[req[r].sid]]
<1>1. q \in Req /\ Backed(q)
  BY ReadsRecord DEF RevokeGet
<1>2. req' = [req EXCEPT ![r] = q]
  BY DEF RevokeGet, IInv, TypeOK
<1>3. QED
  BY <1>1, <1>2, OnlyMoves DEF RevokeGet, IInv, TypeOK, memory

\* touchActivity reads the record, and stops at a missing one.
LEMMA TouchGetStep ==
  ASSUME IInv, NEW r \in Requests, TouchGet(r)
  PROVE  IInv'
<1>1. CASE session[req[r].sid] = None
  BY <1>1, IdleIsBacked, OnlyMoves DEF TouchGet, End, IInv, TypeOK, memory
<1>2. CASE session[req[r].sid] # None
  <2> DEFINE q == [req[r] EXCEPT !.at = "touchSet", !.rec = session[req[r].sid]]
  <2>1. q \in Req /\ Backed(q)
    BY <1>2, ReadsRecord DEF TouchGet
  <2>2. req' = [req EXCEPT ![r] = q]
    BY <1>2 DEF TouchGet, IInv, TypeOK
  <2>3. QED
    BY <2>1, <2>2, OnlyMoves DEF TouchGet, IInv, TypeOK, memory
<1>3. QED
  BY <1>1, <1>2
-----------------------------------------------------------------------------
\* The types of everything but the requests.
StoreTypes ==
  /\ now \in 0..MaxNow
  /\ session \in [Sids -> Record \cup {None}]
  /\ index \in [Tokens -> [sid: Sids, ttl: Nat] \cup {None}]
  /\ sidCache \in [Sids -> Entry \cup {None}]
  /\ lastTouch \in [Sids -> Nat \cup {None}]
  /\ active \in BOOLEAN
  /\ drawn \in 0..NumTokens
  /\ issued \in [Tokens -> Sids \cup {None}]
  /\ faults \in 0..MaxFaults
  /\ loginAt \in [Sids -> Nat \cup {None}]
  /\ revokedAt \in [Sids -> Nat \cup {None}]
  /\ raced \subseteq Sids
  /\ staled \subseteq Sids

LEMMA TypesHold == IInv => StoreTypes
  BY DEF IInv, TypeOK, StoreTypes

\* A step of one request that also writes to Redis, to the cache or to history.
LEMMA StepKeeps ==
  ASSUME IInv, NEW r \in Requests, NEW q \in Req, req' = [req EXCEPT ![r] = q],
         Backed(q), UNCHANGED loginAt, StoreTypes', StoredIsBounded'
  PROVE  IInv'
<1>1. LoginsStay
  BY HistoryKeepsLogins
<1>2. Backed(q)'
  BY <1>1, BackingIsStable
<1>3. TypeOK'
  BY <1>1, <1>2, RequestMoves DEF TypeOK, StoreTypes
<1>4. QED
  BY <1>1, <1>2, <1>3, RequestMoves DEF IInv

\* A request ends, whatever it has written.
LEMMA EndKeeps ==
  ASSUME IInv, NEW r \in Requests, End(r),
         UNCHANGED loginAt, StoreTypes', StoredIsBounded'
  PROVE  IInv'
  BY IdleIsBacked, StepKeeps DEF End

\* What is known of a request at a point where it has a sid.
LEMMA Known ==
  ASSUME IInv, NEW r \in Requests
  PROVE  req[r] \in Req /\ Backed(req[r])
  BY DEF IInv, TypeOK, RequestsBacked

\* assertActive after its read.
LEMMA AssertFinishStep ==
  ASSUME IInv, NEW r \in Requests, AssertFinish(r)
  PROVE  IInv'
<1> DEFINE s == req[r].sid
           rec == req[r].rec
<1>1. s \in Sids /\ rec \in Record \cup {None} /\ req[r].t \in Nat
  BY Known DEF AssertFinish, Backed, Req
<1>2. rec # None => Bounded(s, rec.exp)
  BY Known DEF Backed
<1>3. UNCHANGED loginAt /\ LoginsStay
  BY HistoryKeepsLogins DEF AssertFinish, history
<1>4. CASE Usable(rec, req[r].t)
  <2>1. rec \in Record /\ rec.exp > req[r].t
    BY <1>1, <1>4 DEF Usable
  <2>2. RememberSid(s, rec.exp, req[r].t) /\ Touch(r, s, req[r].t, "accepted")
    BY <1>4 DEF AssertFinish
  <2>3. s \in Web => loginAt[s] # None /\ req[r].t < loginAt[s] + WebTTL
    BY <1>1, <1>2, <1>4, <2>1, ConstantTypes
       DEF Usable, Bounded, Record, IInv, TypeOK
  <2>4. lastTouch' \in [Sids -> Nat \cup {None}]
    BY <1>1, <1>3, <2>2, <2>3, NowIsNat, TouchMoves
  <2>5. PICK q \in Req : req' = [req EXCEPT ![r] = q] /\ Backed(q)
    BY <1>1, <1>3, <2>2, <2>3, NowIsNat, TouchMoves
  <2>6. StoreTypes'
    BY <1>1, <2>1, <2>2, <2>4, TypesHold
       DEF AssertFinish, RememberSid, StoreTypes, Entry, Record, redis, history
  <2>7. StoredIsBounded'
    BY <1>1, <1>2, <1>3, <1>4, <2>2, TypesHold
       DEF AssertFinish, RememberSid, Usable, StoreTypes, IInv, StoredIsBounded,
           Bounded, redis
  <2>8. QED
    BY <1>3, <2>5, <2>6, <2>7, StepKeeps
<1>5. CASE ~Usable(rec, req[r].t)
  <2>1. Forget(s) /\ End(r) /\ lastTouch' = lastTouch
    BY <1>5 DEF AssertFinish
  <2>2. StoreTypes'
    BY <1>1, <2>1, TypesHold DEF AssertFinish, Forget, StoreTypes, redis, history
  <2>3. StoredIsBounded'
    BY <1>1, <1>3, <2>1, TypesHold
       DEF AssertFinish, Forget, StoreTypes, IInv, StoredIsBounded, Bounded, redis
  <2>4. QED
    BY <1>3, <2>1, <2>2, <2>3, EndKeeps
<1>6. QED
  BY <1>4, <1>5

\* touchActivity writes the record it has read.
LEMMA TouchSetStep ==
  ASSUME IInv, NEW r \in Requests, TouchSet(r)
  PROVE  IInv'
<1> DEFINE s == req[r].sid
           rec == req[r].rec
           new == [rec EXCEPT !.ttl = now + AtLeastOne(rec.exp - req[r].touch)]
<1>1. s \in Sids /\ rec \in Record /\ req[r].touch \in Nat /\ Bounded(s, rec.exp)
  BY Known DEF TouchSet, Backed, Req
<1>2. new \in Record /\ new.exp = rec.exp
  BY <1>1, TypesHold, ConstantTypes DEF StoreTypes, AtLeastOne, Record
<1>3. session' = [session EXCEPT ![s] = new]
  BY DEF TouchSet
<1>4. staled' \subseteq Sids
  BY <1>1, TypesHold DEF TouchSet, StoreTypes
<1>5. StoreTypes'
  BY <1>1, <1>2, <1>3, <1>4, TypesHold DEF TouchSet, StoreTypes, memory
<1>6. StoredIsBounded'
  BY <1>1, <1>2, <1>3, TypesHold
     DEF TouchSet, StoreTypes, IInv, StoredIsBounded, Bounded, memory
<1>7. QED
  BY <1>5, <1>6, EndKeeps DEF TouchSet
-----------------------------------------------------------------------------
\* rotate begins with a token of its client, and logout with one.
LEMMA TokenStep ==
  ASSUME IInv, NEW r \in Requests, NEW h \in Tokens,
         RefreshStart(r, h) \/ LogoutByToken(r, h)
  PROVE  IInv'
<1>1. PICK at \in {"index", "byToken"} :
        req' = [req EXCEPT ![r] = [Idle EXCEPT !.at = at, !.token = h]]
  BY DEF RefreshStart, LogoutByToken
<1> DEFINE q == [Idle EXCEPT !.at = at, !.token = h]
<1>2. q \in Req /\ Backed(q)
  BY DEF Req, Idle, Backed
<1>3. QED
  BY <1>1, <1>2, OnlyMoves DEF RefreshStart, LogoutByToken, IInv, TypeOK, memory

\* The index answers with a sid, or not at all.
LEMMA RefreshIndexStep ==
  ASSUME IInv, NEW r \in Requests, RefreshIndex(r)
  PROVE  IInv'
<1> DEFINE found == index[req[r].token]
<1>1. req[r] \in Req /\ req[r].token \in Tokens /\ req[r].rec = None
      /\ req[r].verdict = "none"
  BY Known DEF RefreshIndex, Backed
<1>2. CASE found = None
  BY <1>2, IdleIsBacked, OnlyMoves DEF RefreshIndex, End, IInv, TypeOK, memory
<1>3. CASE found # None
  <2> DEFINE q == [req[r] EXCEPT !.at = "read", !.sid = found.sid]
  <2>1. found.sid \in Sids
    BY <1>1, <1>3 DEF IInv, TypeOK
  <2>2. q \in Req
    BY <1>1, <2>1 DEF Req
  <2>3. q.at = "read" /\ q.sid = found.sid /\ q.rec = None /\ q.verdict = "none"
    BY <1>1 DEF Req
  <2>4. Backed(q)
    BY <2>1, <2>3 DEF Backed
  <2>5. req' = [req EXCEPT ![r] = q]
    BY <1>3 DEF RefreshIndex, IInv, TypeOK
  <2>6. QED
    BY <2>2, <2>4, <2>5, OnlyMoves DEF RefreshIndex, IInv, TypeOK, memory
<1>4. QED
  BY <1>2, <1>3

\* A request with a sid goes on to revoke it.
LEMMA RevokeMoves ==
  ASSUME IInv, NEW r \in Requests, NEW s \in Sids,
         req[r].at \in {"read", "remember", "byToken"},
         req[r].at = "byToken" \/ s = req[r].sid
  PROVE  /\ [req[r] EXCEPT !.at = "revokeGet", !.sid = s] \in Req
         /\ Backed([req[r] EXCEPT !.at = "revokeGet", !.sid = s])
<1> DEFINE q == [req[r] EXCEPT !.at = "revokeGet", !.sid = s]
<1>1. req[r] \in Req /\ Backed(req[r])
  BY Known
<1>2. q \in Req
  BY <1>1 DEF Req
<1>3. /\ q.at = "revokeGet" /\ q.sid = s
      /\ q.rec = req[r].rec /\ q.verdict = req[r].verdict
  BY <1>1 DEF Req
<1>4. q.rec # None => Bounded(q.sid, q.rec.exp)
  BY <1>1, <1>3 DEF Backed
<1>5. Backed(q)
  BY <1>1, <1>2, <1>3, <1>4 DEF Backed
<1>6. QED
  BY <1>2, <1>5

\* A dropped cache entry leaves no copy of the expiry in the cache.
LEMMA ForgetKeeps ==
  ASSUME IInv, NEW s \in Sids, Forget(s), UNCHANGED <<session, loginAt>>
  PROVE  sidCache' \in [Sids -> Entry \cup {None}] /\ StoredIsBounded'
<1>1. sidCache' \in [Sids -> Entry \cup {None}]
  BY DEF Forget, IInv, TypeOK
<1>2. StoredIsBounded'
  BY DEF Forget, IInv, TypeOK, StoredIsBounded, Bounded
<1>3. QED
  BY <1>1, <1>2

\* A step that keeps Redis and the cache keeps their bounds.
LEMMA StoreStays ==
  ASSUME IInv, UNCHANGED <<session, sidCache, loginAt>>
  PROVE  StoredIsBounded'
  BY DEF IInv, StoredIsBounded, Bounded

\* The three answers to the record rotate reads.
LEMMA RefreshReadStep ==
  ASSUME IInv, NEW r \in Requests, RefreshRead(r)
  PROVE  IInv'
<1> DEFINE s == req[r].sid
           h == req[r].token
           rec == session[s]
<1>1. /\ req[r].at = "read" /\ req[r] \in Req
      /\ s \in Sids /\ req[r].verdict = "none"
  BY Known DEF RefreshRead, Backed
<1>2. UNCHANGED <<session, loginAt>>
  BY DEF RefreshRead, history
<1>3. CASE rec = None
  <2>1. End(r) /\ index' = [index EXCEPT ![h] = None] /\ sidCache' = sidCache
    BY <1>3 DEF RefreshRead
  <2>2. StoreTypes'
    BY <2>1, TypesHold DEF RefreshRead, StoreTypes, history
  <2>3. QED
    BY <1>2, <2>1, <2>2, StoreStays, EndKeeps
<1>4. CASE rec # None /\ (rec.hash # h \/ rec.exp <= now) /\ Forget(s)
           /\ Go(r, "revokeGet") /\ UNCHANGED index
  <2> DEFINE q == [req[r] EXCEPT !.at = "revokeGet", !.sid = s]
  <2>1. q \in Req /\ Backed(q)
    BY <1>1, RevokeMoves
  <2>2. [req[r] EXCEPT !.at = "revokeGet"] = q
    BY <1>1 DEF Req
  <2>3. req' = [req EXCEPT ![r] = q]
    BY <1>4, <2>2 DEF Go, IInv, TypeOK
  <2>4. sidCache' \in [Sids -> Entry \cup {None}] /\ StoredIsBounded'
    BY <1>1, <1>2, <1>4, ForgetKeeps
  <2>5. StoreTypes'
    BY <1>4, <2>4, TypesHold DEF RefreshRead, StoreTypes, history
  <2>6. QED
    BY <1>2, <2>1, <2>3, <2>4, <2>5, StepKeeps
<1>5. CASE /\ rec # None
           /\ req' = [req EXCEPT ![r].at = "write", ![r].rec = rec, ![r].t = now]
           /\ UNCHANGED <<index, sidCache>>
  <2> DEFINE q == [req[r] EXCEPT !.at = "write", !.rec = rec, !.t = now]
  <2>1. q \in Req
    BY <1>1, <1>5, TypesHold, NowIsNat DEF IInv, StoreTypes, Req
  <2>2. q.at = "write" /\ q.sid = s /\ q.rec = rec /\ q.verdict = "none"
    BY <1>1 DEF Req
  <2>3. Bounded(s, rec.exp)
    BY <1>1, <1>5 DEF IInv, StoredIsBounded
  <2>4. Backed(q)
    BY <1>1, <1>5, <2>2, <2>3 DEF Backed
  <2>5. req' = [req EXCEPT ![r] = q]
    BY <1>5 DEF IInv, TypeOK
  <2>6. StoreTypes'
    BY <1>5, TypesHold DEF RefreshRead, StoreTypes, history
  <2>7. QED
    BY <1>2, <1>5, <2>1, <2>4, <2>5, <2>6, StoreStays, StepKeeps
<1>6. QED
  BY <1>3, <1>4, <1>5 DEF RefreshRead

\* The pipeline of rotate keeps the expiry of a web session, as read.
LEMMA RefreshWriteStep ==
  ASSUME IInv, NEW r \in Requests, RefreshWrite(r)
  PROVE  IInv'
<1> DEFINE s == req[r].sid
           rec == req[r].rec
           exp == NextExp(s, rec, req[r].t)
           ttl == now + AtLeastOne(exp - req[r].t)
           new == [hash |-> drawn', exp |-> exp, ttl |-> ttl]
           q == [req[r] EXCEPT !.at = "remember", !.rec = new, !.token = drawn']
<1>1. /\ req[r] \in Req /\ s \in Sids /\ rec \in Record /\ req[r].t \in Nat
      /\ Bounded(s, rec.exp) /\ req[r].verdict = "none"
  BY Known DEF RefreshWrite, Backed, Req
<1>2. exp \in Nat /\ ttl \in Nat
  BY <1>1, NowIsNat, ConstantTypes DEF IInv, NextExp, AtLeastOne, Record
<1>3. Bounded(s, exp)
  BY <1>1 DEF NextExp, Bounded
<1>4. drawn' = drawn + 1 /\ drawn' \in Tokens /\ drawn' \in 0..NumTokens
  BY ConstantTypes DEF RefreshWrite, IInv, TypeOK, Tokens
<1>5. /\ session' = [session EXCEPT ![s] = new]
      /\ index' = [index EXCEPT ![req[r].token] = None,
                                ![drawn'] = [sid |-> s, ttl |-> ttl]]
  BY DEF RefreshWrite
<1>6. UNCHANGED <<now, memory, active, issued, faults, history, loginAt>>
  BY DEF RefreshWrite, history
<1>7. new \in Record
  BY <1>2, <1>4 DEF Record
<1>8. session' \in [Sids -> Record \cup {None}] /\ session'[s] = new
  BY <1>1, <1>5, <1>7 DEF IInv, TypeOK
<1>9. req' = [req EXCEPT ![r] = q]
  <2>1. req' = [req EXCEPT ![r].at = "remember", ![r].rec = session'[s],
                           ![r].token = drawn']
    BY DEF RefreshWrite
  <2>2. QED
    BY <1>8, <2>1 DEF IInv, TypeOK
<1>10. q \in Req
  BY <1>1, <1>4, <1>7 DEF Req
<1>11. /\ q.at = "remember" /\ q.sid = s /\ q.rec = new /\ q.verdict = "none"
  BY <1>1 DEF Req
<1>12. Backed(q)
  <2>1. new.exp = exp /\ Bounded(q.sid, q.rec.exp)
    BY <1>3, <1>11
  <2>2. q.rec # None
    BY <1>7, <1>11, NoneIsNoRecord
  <2>3. QED
    BY <1>1, <1>11, <2>1, <2>2 DEF Backed
<1>13. StoreTypes'
  <2>1. index' \in [Tokens -> [sid: Sids, ttl: Nat] \cup {None}]
    BY <1>1, <1>2, <1>5 DEF IInv, TypeOK
  <2>2. QED
    BY <1>4, <1>6, <1>8, <2>1, TypesHold DEF StoreTypes, memory, history
<1>14. StoredIsBounded'
  BY <1>1, <1>3, <1>5, <1>6
     DEF IInv, TypeOK, StoredIsBounded, Bounded, memory
<1>15. QED
  BY <1>6, <1>9, <1>10, <1>12, <1>13, <1>14, StepKeeps

\* A pipeline that fails leaves the request with the record it meant to write.
LEMMA RefreshUnwrittenStep ==
  ASSUME IInv, NEW r \in Requests, RefreshUnwritten(r)
  PROVE  IInv'
<1> DEFINE s == req[r].sid
           rec == req[r].rec
           exp == NextExp(s, rec, req[r].t)
           ttl == now + AtLeastOne(exp - req[r].t)
           new == [hash |-> drawn', exp |-> exp, ttl |-> ttl]
           q == [req[r] EXCEPT !.at = "remember", !.token = drawn', !.rec = new]
<1>1. /\ req[r] \in Req /\ s \in Sids /\ rec \in Record /\ req[r].t \in Nat
      /\ Bounded(s, rec.exp) /\ req[r].verdict = "none"
  BY Known DEF RefreshUnwritten, Backed, Req
<1>2. exp \in Nat /\ ttl \in Nat
  BY <1>1, NowIsNat, ConstantTypes DEF IInv, NextExp, AtLeastOne, Record
<1>3. Bounded(s, exp)
  BY <1>1 DEF NextExp, Bounded
<1>4. /\ drawn' = drawn + 1 /\ drawn' \in Tokens /\ drawn' \in 0..NumTokens
      /\ faults' \in 0..MaxFaults
  BY ConstantTypes DEF RefreshUnwritten, IInv, TypeOK, Tokens
<1>5. new \in Record
  BY <1>2, <1>4 DEF Record
<1>6. req' = [req EXCEPT ![r] = q]
  <2>1. req' = [req EXCEPT ![r].at = "remember", ![r].token = drawn', ![r].rec = new]
    BY DEF RefreshUnwritten
  <2>2. QED
    BY <2>1 DEF IInv, TypeOK
<1>7. q \in Req
  BY <1>1, <1>4, <1>5 DEF Req
<1>8. /\ q.at = "remember" /\ q.sid = s /\ q.rec = new /\ q.verdict = "none"
  BY <1>1 DEF Req
<1>9. Backed(q)
  <2>1. new.exp = exp /\ Bounded(q.sid, q.rec.exp)
    BY <1>3, <1>8
  <2>2. q.rec # None
    BY <1>5, <1>8, NoneIsNoRecord
  <2>3. QED
    BY <1>1, <1>8, <2>1, <2>2 DEF Backed
<1>10. UNCHANGED <<now, redis, memory, active, issued, history, loginAt>>
  BY DEF RefreshUnwritten, history
<1> HIDE DEF q
<1>11. StoreTypes'
  BY <1>4, <1>10, TypesHold DEF StoreTypes, redis, memory, history
<1>12. StoredIsBounded'
  BY <1>10 DEF IInv, StoredIsBounded, Bounded, redis, memory
<1>13. QED
  BY <1>6, <1>7, <1>9, <1>10, <1>11, <1>12, StepKeeps

\* The reply of rotate: the cache takes the expiry, or the session is revoked.
LEMMA RefreshFinishStep ==
  ASSUME IInv, NEW r \in Requests, RefreshFinish(r)
  PROVE  IInv'
<1> DEFINE s == req[r].sid
           rec == req[r].rec
<1>1. /\ req[r].at = "remember" /\ req[r] \in Req /\ s \in Sids
      /\ rec \in Record /\ req[r].t \in Nat /\ Bounded(s, rec.exp)
  BY Known DEF RefreshFinish, Backed, Req
<1>2. UNCHANGED <<now, redis, session, lastTouch, active, drawn, faults, history,
                  loginAt>>
  BY DEF RefreshFinish, redis, history
<1>3. CASE /\ RememberSid(s, rec.exp, req[r].t) /\ End(r)
           /\ issued' = [issued EXCEPT ![req[r].token] = s]
  <2>1. StoreTypes'
    BY <1>1, <1>2, <1>3, TypesHold
       DEF RememberSid, StoreTypes, Entry, Record, redis, history
  <2>2. StoredIsBounded'
    BY <1>1, <1>2, <1>3
       DEF RememberSid, IInv, TypeOK, StoredIsBounded, Bounded
  <2>3. QED
    BY <1>2, <1>3, <2>1, <2>2, EndKeeps
<1>4. CASE Forget(s) /\ Go(r, "revokeGet") /\ UNCHANGED issued
  <2> DEFINE q == [req[r] EXCEPT !.at = "revokeGet", !.sid = s]
  <2>1. q \in Req /\ Backed(q)
    BY <1>1, RevokeMoves
  <2>2. [req[r] EXCEPT !.at = "revokeGet"] = q
    BY <1>1 DEF Req
  <2>3. req' = [req EXCEPT ![r] = q]
    BY <1>4, <2>2 DEF Go, IInv, TypeOK
  <2>4. sidCache' \in [Sids -> Entry \cup {None}] /\ StoredIsBounded'
    BY <1>1, <1>2, <1>4, ForgetKeeps
  <2>5. StoreTypes'
    BY <1>2, <1>4, <2>4, TypesHold DEF StoreTypes, redis, history
  <2>6. QED
    BY <1>2, <2>1, <2>3, <2>4, <2>5, StepKeeps
<1>5. QED
  BY <1>3, <1>4 DEF RefreshFinish

\* Logout by access token: the cache entry goes, and the revoke begins.
LEMMA LogoutBySidStep ==
  ASSUME IInv, NEW r \in Requests, NEW s \in Sids, LogoutBySid(r, s)
  PROVE  IInv'
<1> DEFINE q == [Idle EXCEPT !.at = "revokeGet", !.sid = s]
<1>1. q \in Req /\ Backed(q)
  BY DEF Req, Idle, Backed
<1>2. /\ UNCHANGED <<session, loginAt>> /\ Forget(s)
      /\ req' = [req EXCEPT ![r] = q]
  BY DEF LogoutBySid, redis, history
<1>3. sidCache' \in [Sids -> Entry \cup {None}] /\ StoredIsBounded'
  BY <1>2, ForgetKeeps
<1>4. StoreTypes'
  BY <1>3, TypesHold DEF LogoutBySid, StoreTypes, redis, history
<1>5. QED
  BY <1>1, <1>2, <1>3, <1>4, StepKeeps

\* Logout by refresh token: the index names the session, or the request ends.
LEMMA RevokeByTokenStep ==
  ASSUME IInv, NEW r \in Requests, RevokeByToken(r)
  PROVE  IInv'
<1> DEFINE found == index[req[r].token]
<1>1. req[r].at = "byToken" /\ req[r].token \in Tokens
  BY Known DEF RevokeByToken, Backed
<1>2. UNCHANGED <<now, redis, session, lastTouch, active, drawn, issued, faults,
                  history, loginAt>>
  BY DEF RevokeByToken, redis, history
<1>3. CASE End(r) /\ UNCHANGED sidCache
  <2>1. StoreTypes'
    BY <1>2, <1>3, TypesHold DEF StoreTypes, redis, history
  <2>2. QED
    BY <1>2, <1>3, <2>1, StoreStays, EndKeeps
<1>4. CASE /\ found # None /\ Forget(found.sid)
           /\ req' = [req EXCEPT ![r].at = "revokeGet", ![r].sid = found.sid]
  <2> DEFINE q == [req[r] EXCEPT !.at = "revokeGet", !.sid = found.sid]
  <2>1. found.sid \in Sids
    BY <1>1, <1>4 DEF IInv, TypeOK
  <2>2. q \in Req /\ Backed(q)
    BY <1>1, <2>1, RevokeMoves
  <2>3. req' = [req EXCEPT ![r] = q]
    BY <1>4 DEF IInv, TypeOK
  <2>4. sidCache' \in [Sids -> Entry \cup {None}] /\ StoredIsBounded'
    BY <1>2, <1>4, <2>1, ForgetKeeps
  <2>5. StoreTypes'
    BY <1>2, <2>4, TypesHold DEF StoreTypes, redis, history
  <2>6. QED
    BY <1>2, <2>2, <2>3, <2>4, <2>5, StepKeeps
<1>5. QED
  BY <1>3, <1>4 DEF RevokeByToken

\* The pipeline of revoke only removes.
LEMMA RevokeDelStep ==
  ASSUME IInv, NEW r \in Requests, RevokeDel(r)
  PROVE  IInv'
<1> DEFINE s == req[r].sid
           rec == req[r].rec
<1>1. s \in Sids
  BY Known DEF RevokeDel, Backed
<1>2. /\ End(r) /\ session' = [session EXCEPT ![s] = None]
      /\ index' = IF rec = None THEN index ELSE [index EXCEPT ![rec.hash] = None]
      /\ revokedAt' = [revokedAt EXCEPT ![s] = now]
      /\ raced' \in {raced, raced \cup {s}}
      /\ UNCHANGED <<now, memory, active, drawn, issued, faults, loginAt, staled>>
  BY DEF RevokeDel
<1>3. index' \in [Tokens -> [sid: Sids, ttl: Nat] \cup {None}]
  BY <1>2 DEF IInv, TypeOK
<1>4. StoreTypes'
  BY <1>1, <1>2, <1>3, NowIsNat, TypesHold DEF IInv, StoreTypes, memory
<1>5. StoredIsBounded'
  BY <1>1, <1>2 DEF IInv, TypeOK, StoredIsBounded, Bounded, memory
<1>6. QED
  BY <1>2, <1>4, <1>5, EndKeeps
-----------------------------------------------------------------------------
\* A check that Redis does not answer accepts, every other handler gives up.
LEMMA RedisFailsStep ==
  ASSUME IInv, NEW r \in Requests, RedisFails(r)
  PROVE  IInv'
<1>1. faults' \in 0..MaxFaults
  BY ConstantTypes DEF RedisFails, IInv, TypeOK
<1>2. LoginsStay
  BY HistoryKeepsLogins DEF RedisFails, history
<1>3. CASE req[r].at = "assertGet" /\ Touch(r, req[r].sid, req[r].t, "degraded")
  <2>1. req[r].sid \in Sids /\ req[r].t \in Nat
    BY <1>3, Known DEF Backed, Req
  <2>2. lastTouch' \in [Sids -> Nat \cup {None}]
    BY <1>2, <1>3, <2>1, NowIsNat, TouchMoves
  <2>3. PICK q \in Req : req' = [req EXCEPT ![r] = q] /\ Backed(q)
    BY <1>2, <1>3, <2>1, NowIsNat, TouchMoves
  <2>4. QED
    BY <1>1, <2>2, <2>3, OnlyMoves DEF RedisFails
<1>4. CASE End(r) /\ UNCHANGED lastTouch
  BY <1>1, <1>4, IdleIsBacked, OnlyMoves DEF RedisFails, End, IInv, TypeOK
<1>5. QED
  BY <1>3, <1>4 DEF RedisFails

\* A login makes a record and an entry that both end at its deadline.
LEMMA LoginStep ==
  ASSUME IInv, NEW s \in Sids, Login(s)
  PROVE  IInv'
<1> DEFINE exp == now + TTL(s)
           new == [hash |-> drawn', exp |-> exp, ttl |-> exp]
           entry == [exp |-> exp, at |-> now]
<1>1. now \in Nat /\ exp \in Nat /\ loginAt[s] = None
  BY NowIsNat, ConstantTypes DEF IInv, Login, TTL
<1>2. drawn' \in Tokens /\ drawn' \in 0..NumTokens
  BY ConstantTypes DEF Login, IInv, TypeOK, Tokens
<1>3. /\ session' = [session EXCEPT ![s] = new]
      /\ index' = [index EXCEPT ![drawn'] = [sid |-> s, ttl |-> exp]]
      /\ sidCache' = [sidCache EXCEPT ![s] = entry]
      /\ issued' = [issued EXCEPT ![drawn'] = s]
      /\ loginAt' = [loginAt EXCEPT ![s] = now]
      /\ UNCHANGED <<now, lastTouch, active, req, faults, revokedAt, raced, staled>>
  BY DEF Login, RememberSid
<1>4. new \in Record /\ entry \in Entry
  BY <1>1, <1>2 DEF Record, Entry
<1>5. LoginsStay
  BY <1>1, <1>3 DEF LoginsStay, IInv, TypeOK
<1>6. StoreTypes'
  <2>1. index' \in [Tokens -> [sid: Sids, ttl: Nat] \cup {None}]
    BY <1>1, <1>3 DEF IInv, TypeOK
  <2>2. session' \in [Sids -> Record \cup {None}]
    BY <1>3, <1>4 DEF IInv, TypeOK
  <2>3. sidCache' \in [Sids -> Entry \cup {None}]
    BY <1>3, <1>4 DEF IInv, TypeOK
  <2>4. loginAt' \in [Sids -> Nat \cup {None}]
    BY <1>1, <1>3 DEF IInv, TypeOK
  <2>5. QED
    BY <1>2, <1>3, <2>1, <2>2, <2>3, <2>4, TypesHold DEF StoreTypes
<1>7. RequestsBacked'
  <2> SUFFICES ASSUME NEW r \in Requests PROVE Backed(req[r])'
    BY DEF RequestsBacked
  <2>1. req'[r] = req[r] /\ Backed(req[r])
    BY <1>3, Known
  <2>2. QED
    BY <1>5, <2>1, BackingIsStable
<1>8. TypeOK'
  BY <1>3, <1>6, <1>7 DEF TypeOK, StoreTypes, IInv
<1>9. StoredIsBounded'
  <2> SUFFICES ASSUME NEW p \in Sids
               PROVE  /\ session'[p] # None => Bounded(p, session[p].exp)'
                      /\ sidCache'[p] # None => Bounded(p, sidCache[p].exp)'
    BY DEF StoredIsBounded
  <2>1. CASE p = s
    <3>1. session'[p].exp = exp /\ sidCache'[p].exp = exp /\ loginAt'[p] = now
      BY <1>3, <2>1 DEF IInv, TypeOK
    <3>2. p \in Web => exp = now + WebTTL
      BY <2>1 DEF TTL
    <3>3. QED
      BY <1>1, <3>1, <3>2, ConstantTypes DEF Bounded
  <2>2. CASE p # s
    <3>1. /\ session'[p] = session[p] /\ sidCache'[p] = sidCache[p]
          /\ loginAt'[p] = loginAt[p]
      BY <1>3, <2>2 DEF IInv, TypeOK
    <3>2. QED
      BY <3>1 DEF IInv, StoredIsBounded, Bounded
  <2>3. QED
    BY <2>1, <2>2
<1>10. QED
  BY <1>7, <1>8, <1>9 DEF IInv

\* A step that keeps the requests, the cache and history, and only drops keys.
LEMMA KeysExpire ==
  ASSUME IInv, UNCHANGED <<req, sidCache, history>>, StoreTypes',
         \A s \in Sids : session'[s] \in {session[s], None}
  PROVE  IInv'
<1>1. loginAt' = loginAt
  BY DEF history
<1>2. TypeOK'
  BY DEF IInv, TypeOK, StoreTypes
<1>3. StoredIsBounded'
  BY <1>1 DEF IInv, StoredIsBounded, Bounded
<1>4. RequestsBacked'
  BY <1>1 DEF IInv, RequestsBacked, Backed, Bounded
<1>5. QED
  BY <1>2, <1>3, <1>4 DEF IInv

\* An admin changes only the user row.
LEMMA DeactivateStep ==
  ASSUME IInv, Deactivate
  PROVE  IInv'
<1>1. faults' \in 0..MaxFaults
  BY ConstantTypes DEF Deactivate, IInv, TypeOK
<1>2. StoreTypes'
  BY <1>1, TypesHold DEF Deactivate, StoreTypes, redis, memory, history
<1>3. QED
  BY <1>2, KeysExpire DEF Deactivate, redis, memory

\* The clock moves and keys expire.
LEMMA TickStep ==
  ASSUME IInv, Tick
  PROVE  IInv'
<1>1. /\ session' = [s \in Sids |-> Live(session[s])]
      /\ index' = [h \in Tokens |-> Live(index[h])]
      /\ now' \in 0..MaxNow
      /\ UNCHANGED <<memory, active, drawn, issued, req, faults, history>>
  BY ConstantTypes DEF Tick, IInv, TypeOK
<1>2. \A v : Live(v) \in {v, None}
  BY DEF Live
<1>3. session' \in [Sids -> Record \cup {None}]
  BY <1>1, <1>2 DEF IInv, TypeOK
<1>4. index' \in [Tokens -> [sid: Sids, ttl: Nat] \cup {None}]
  BY <1>1, <1>2 DEF IInv, TypeOK
<1>5. StoreTypes'
  BY <1>1, <1>3, <1>4, TypesHold DEF StoreTypes, memory, history
<1>6. \A s \in Sids : session'[s] \in {session[s], None}
  BY <1>1, <1>2
<1>7. QED
  BY <1>1, <1>5, <1>6, KeysExpire DEF memory

\* Nothing happens.
LEMMA StutterStep ==
  ASSUME IInv, UNCHANGED vars
  PROVE  IInv'
<1>1. StoreTypes'
  BY TypesHold DEF vars, StoreTypes, redis, memory, history
<1>2. QED
  BY <1>1, KeysExpire DEF vars, redis, memory
-----------------------------------------------------------------------------
\* Every step of the service preserves the invariant.
THEOREM NextIInv == IInv /\ [Next]_vars => IInv'
<1> SUFFICES ASSUME IInv, [Next]_vars PROVE IInv'
  OBVIOUS
<1>1. ASSUME NEW s \in Sids, Login(s) PROVE IInv'
  BY <1>1, LoginStep
<1>2. ASSUME NEW r \in Requests, RequestStep(r) PROVE IInv'
  <2>1. ASSUME NEW s \in Sids, ValidateStart(r, s) \/ LogoutBySid(r, s) PROVE IInv'
    BY <2>1, ValidateStartStep, LogoutBySidStep
  <2>2. ASSUME NEW h \in Tokens, RefreshStart(r, h) \/ LogoutByToken(r, h) PROVE IInv'
    BY <2>2, TokenStep
  <2>3. CASE AssertGet(r) \/ AssertFinish(r) \/ TouchGet(r) \/ TouchSet(r)
    BY <2>3, AssertGetStep, AssertFinishStep, TouchGetStep, TouchSetStep
  <2>4. CASE RefreshIndex(r) \/ RefreshRead(r) \/ RefreshWrite(r) \/ RefreshFinish(r)
    BY <2>4, RefreshIndexStep, RefreshReadStep, RefreshWriteStep, RefreshFinishStep
  <2>5. CASE RefreshUnwritten(r)
    BY <2>5, RefreshUnwrittenStep
  <2>6. CASE RevokeByToken(r) \/ RevokeGet(r) \/ RevokeDel(r) \/ RedisFails(r)
    BY <2>6, RevokeByTokenStep, RevokeGetStep, RevokeDelStep, RedisFailsStep
  <2>7. QED
    BY <1>2, <2>1, <2>2, <2>3, <2>4, <2>5, <2>6 DEF RequestStep
<1>3. CASE Deactivate
  BY <1>3, DeactivateStep
<1>4. CASE Tick
  BY <1>4, TickStep
<1>5. CASE UNCHANGED vars
  BY <1>5, StutterStep
<1>6. QED
  BY <1>1, <1>2, <1>3, <1>4, <1>5 DEF Next

\* The invariant holds in every reachable state.
THEOREM Invariant == Spec => []IInv
  BY InitIInv, NextIInv, PTL DEF Spec

\* Every variable has its type, for any sids, requests and lifetimes.
THEOREM TypeCorrect == Spec => []TypeOK
<1>1. IInv => TypeOK
  BY DEF IInv
<1>2. QED
  BY <1>1, Invariant, PTL

\* No check of a web session is accepted at or after the deadline of its login,
\* whatever refreshes, touches, logouts and Redis failures overlap.
THEOREM WebDeadline == Spec => []WebDeadlineHolds
<1>1. IInv => WebDeadlineHolds
  BY DEF IInv, RequestsBacked, Backed, WebDeadlineHolds
<1>2. QED
  BY <1>1, Invariant, PTL
-----------------------------------------------------------------------------
\* Every sid the service works with has logged in.
LoggedIn ==
  /\ \A s \in Sids : revokedAt[s] # None => loginAt[s] # None
  /\ \A h \in Tokens : index[h] # None => loginAt[index[h].sid] # None
  /\ \A r \in Requests :
       req[r].at \in {"idle", "index", "byToken"} \/ loginAt[req[r].sid] # None

\* Nobody can put a revoked session back, unless the removal raced with a writer.
Gone ==
  \A s \in Sids \ (raced \cup staled) :
    revokedAt[s] # None =>
      session[s] = None /\ \A p \in Requests : ~HasWriteToDo(p, s)

GoneInv == IInv /\ LoggedIn /\ Gone

\* A step of r that writes no record, and waits to write only one it found.
LEMMA ReadsKeepGone ==
  ASSUME GoneInv, IInv', NEW r \in Requests,
         \A p \in Requests \ {r} : req'[p] = req[p],
         req'[r].at \in {"idle", "index", "byToken"} \/ loginAt[req'[r].sid] # None,
         req'[r].at \in {"touchSet", "write"} => session[req'[r].sid] # None,
         \A h \in Tokens : index'[h] \in {index[h], None},
         UNCHANGED <<session, history>>
  PROVE  GoneInv'
<1>1. UNCHANGED <<loginAt, revokedAt, raced, staled>>
  BY DEF history
<1>2. LoggedIn'
  BY <1>1 DEF GoneInv, LoggedIn
<1>3. Gone'
  <2> SUFFICES ASSUME NEW s \in Sids \ (raced \cup staled), revokedAt[s] # None,
                      NEW p \in Requests
               PROVE  session[s] = None /\ ~HasWriteToDo(p, s)'
    BY <1>1 DEF Gone, HasWriteToDo
  <2>1. session[s] = None /\ ~HasWriteToDo(p, s)
    BY DEF GoneInv, Gone
  <2>2. CASE p = r
    BY <2>1, <2>2 DEF HasWriteToDo
  <2>3. CASE p # r
    BY <2>1, <2>3 DEF HasWriteToDo
  <2>4. QED
    BY <2>1, <2>2, <2>3
<1>4. QED
  BY <1>2, <1>3 DEF GoneInv

\* A step of r that writes the record it has read, and then waits to write no other.
LEMMA WritesKeepGone ==
  ASSUME GoneInv, IInv', NEW r \in Requests, HasWriteToDo(r, req[r].sid),
         \A p \in Requests \ {r} : req'[p] = req[p],
         req'[r].at = "idle" \/ (req'[r].at = "remember" /\ req'[r].sid = req[r].sid),
         \A s \in Sids \ {req[r].sid} : session'[s] = session[s],
         \A h \in Tokens : index'[h] \in {index[h], None}
                           \/ index'[h].sid = req[r].sid,
         UNCHANGED <<loginAt, revokedAt, raced>>, staled \subseteq staled'
  PROVE  GoneInv'
<1>1. loginAt[req[r].sid] # None
  BY DEF GoneInv, LoggedIn, HasWriteToDo
<1>2. LoggedIn'
  BY <1>1 DEF GoneInv, LoggedIn
<1>3. Gone'
  <2> SUFFICES ASSUME NEW s \in Sids \ (raced \cup staled), revokedAt[s] # None
               PROVE  session'[s] = None /\ \A p \in Requests : ~HasWriteToDo(p, s)'
    BY DEF Gone
  <2>1. session[s] = None /\ \A p \in Requests : ~HasWriteToDo(p, s)
    BY DEF GoneInv, Gone
  <2>2. s # req[r].sid
    BY <2>1
  <2>3. QED
    BY <2>1, <2>2 DEF HasWriteToDo
<1>4. QED
  BY <1>2, <1>3 DEF GoneInv

\* touchActivity leaves the request at its read of the record, or done.
LEMMA TouchLeads ==
  ASSUME TypeOK, NEW r \in Requests, NEW s, NEW t, NEW verdict, Touch(r, s, t, verdict)
  PROVE  /\ \A p \in Requests \ {r} : req'[p] = req[p]
         /\ req'[r].at \in {"idle", "touchGet"} /\ req'[r].sid = s
<1> DEFINE q == [Idle EXCEPT !.sid = s, !.t = t, !.verdict = verdict]
           w == [Idle EXCEPT !.at = "touchGet", !.sid = s, !.t = t, !.touch = now,
                             !.verdict = verdict]
<1>1. q.at = "idle" /\ q.sid = s /\ w.at = "touchGet" /\ w.sid = s
  BY DEF Idle
<1>2. req' = [req EXCEPT ![r] = q] \/ req' = [req EXCEPT ![r] = w]
  BY DEF Touch
<1> HIDE DEF q, w
<1>3. QED
  BY <1>1, <1>2 DEF TypeOK

\* The end of a request leaves it idle.
LEMMA EndLeads ==
  ASSUME TypeOK, NEW r \in Requests, End(r)
  PROVE  (\A p \in Requests \ {r} : req'[p] = req[p]) /\ req'[r].at = "idle"
  BY DEF End, Idle, TypeOK

\* The steps of a request that only read its record keep revoked sessions gone.
LEMMA ReadStepsKeepGone ==
  ASSUME GoneInv, IInv', NEW r \in Requests,
         \/ \E s \in Sids : ValidateStart(r, s) \/ LogoutBySid(r, s)
         \/ \E h \in Tokens : RefreshStart(r, h) \/ LogoutByToken(r, h)
         \/ AssertGet(r) \/ AssertFinish(r) \/ TouchGet(r)
         \/ RefreshIndex(r) \/ RefreshRead(r) \/ RefreshFinish(r)
         \/ RevokeByToken(r) \/ RevokeGet(r) \/ RedisFails(r) \/ RefreshUnwritten(r)
  PROVE  GoneInv'
<1> USE DEF redis, memory
<1>0. TypeOK /\ req[r] \in Req /\ Backed(req[r])
      /\ (req[r].at \in {"idle", "index", "byToken"} \/ loginAt[req[r].sid] # None)
  BY Known DEF GoneInv, IInv, LoggedIn
<1>1. ASSUME NEW s \in Sids, ValidateStart(r, s) PROVE GoneInv'
  <2>1. CASE Touch(r, s, now, "accepted")
    BY <1>0, <1>1, <2>1, TouchLeads, ReadsKeepGone DEF ValidateStart
  <2>2. CASE req' = [req EXCEPT ![r] = [Idle EXCEPT !.at = "assertGet",
                                          !.sid = s, !.t = now]]
    BY <1>0, <1>1, <2>2, ReadsKeepGone DEF ValidateStart, TypeOK, Idle
  <2>3. QED
    BY <1>1, <2>1, <2>2 DEF ValidateStart
<1>2. ASSUME NEW s \in Sids, LogoutBySid(r, s) PROVE GoneInv'
  BY <1>0, <1>2, ReadsKeepGone DEF LogoutBySid, TypeOK, Idle
<1>3. ASSUME NEW h \in Tokens, RefreshStart(r, h) \/ LogoutByToken(r, h) PROVE GoneInv'
  <2>1. PICK at \in {"index", "byToken"} :
          req' = [req EXCEPT ![r] = [Idle EXCEPT !.at = at, !.token = h]]
    BY <1>3 DEF RefreshStart, LogoutByToken
  <2>2. req'[r].at = at /\ \A p \in Requests \ {r} : req'[p] = req[p]
    BY <1>0, <2>1 DEF Idle, TypeOK
  <2>3. QED
    BY <1>3, <2>2, ReadsKeepGone DEF RefreshStart, LogoutByToken
<1>4. CASE AssertGet(r) \/ RevokeGet(r)
  BY <1>0, <1>4, ReadsKeepGone DEF AssertGet, RevokeGet, TypeOK, Req
<1>5. CASE AssertFinish(r)
  <2>1. CASE Touch(r, req[r].sid, req[r].t, "accepted")
    BY <1>0, <1>5, <2>1, TouchLeads, ReadsKeepGone DEF AssertFinish
  <2>2. CASE End(r)
    BY <1>0, <1>5, <2>2, EndLeads, ReadsKeepGone DEF AssertFinish
  <2>3. QED
    BY <1>5, <2>1, <2>2 DEF AssertFinish
<1>6. CASE TouchGet(r)
  <2>1. CASE End(r)
    BY <1>0, <1>6, <2>1, EndLeads, ReadsKeepGone DEF TouchGet
  <2>2. CASE session[req[r].sid] # None
             /\ req' = [req EXCEPT ![r].at = "touchSet", ![r].rec = session[req[r].sid]]
    BY <1>0, <1>6, <2>2, ReadsKeepGone DEF TouchGet, TypeOK, Req
  <2>3. QED
    BY <1>6, <2>1, <2>2 DEF TouchGet
<1>7. CASE RefreshIndex(r) \/ RevokeByToken(r)
  <2>1. CASE End(r)
    BY <1>0, <1>7, <2>1, EndLeads, ReadsKeepGone DEF RefreshIndex, RevokeByToken
  <2>2. ASSUME NEW at \in {"read", "revokeGet"}, index[req[r].token] # None,
               req' = [req EXCEPT ![r].at = at, ![r].sid = index[req[r].token].sid]
        PROVE  GoneInv'
    <3>1. req[r].token \in Tokens
      BY <1>0, <1>7 DEF RefreshIndex, RevokeByToken, Backed
    <3>2. loginAt[index[req[r].token].sid] # None
      BY <2>2, <3>1 DEF GoneInv, LoggedIn
    <3>3. /\ \A p \in Requests \ {r} : req'[p] = req[p]
          /\ req'[r].at = at /\ req'[r].sid = index[req[r].token].sid
      BY <1>0, <2>2 DEF TypeOK, Req
    <3>4. QED
      BY <1>7, <3>2, <3>3, ReadsKeepGone DEF RefreshIndex, RevokeByToken
  <2>3. QED
    BY <1>7, <2>1, <2>2 DEF RefreshIndex, RevokeByToken
<1>8. CASE RefreshRead(r)
  <2>1. CASE End(r) /\ index' = [index EXCEPT ![req[r].token] = None]
    BY <1>0, <1>8, <2>1, EndLeads, ReadsKeepGone DEF RefreshRead, TypeOK
  <2>2. CASE Go(r, "revokeGet") /\ UNCHANGED index
    BY <1>0, <1>8, <2>2, ReadsKeepGone DEF RefreshRead, Go, TypeOK, Req
  <2>3. CASE /\ session[req[r].sid] # None /\ UNCHANGED index
             /\ req' = [req EXCEPT ![r].at = "write", ![r].rec = session[req[r].sid],
                                   ![r].t = now]
    BY <1>0, <1>8, <2>3, ReadsKeepGone DEF RefreshRead, TypeOK, Req
  <2>4. QED
    BY <1>8, <2>1, <2>2, <2>3 DEF RefreshRead
<1>9. CASE RefreshFinish(r)
  <2>1. CASE End(r)
    BY <1>0, <1>9, <2>1, EndLeads, ReadsKeepGone DEF RefreshFinish
  <2>2. CASE Go(r, "revokeGet")
    BY <1>0, <1>9, <2>2, ReadsKeepGone DEF RefreshFinish, Go, TypeOK, Req
  <2>3. QED
    BY <1>9, <2>1, <2>2 DEF RefreshFinish
<1>10. CASE RedisFails(r)
  <2>1. CASE req[r].at = "assertGet" /\ Touch(r, req[r].sid, req[r].t, "degraded")
    BY <1>0, <1>10, <2>1, TouchLeads, ReadsKeepGone DEF RedisFails
  <2>2. CASE End(r)
    BY <1>0, <1>10, <2>2, EndLeads, ReadsKeepGone DEF RedisFails
  <2>3. QED
    BY <1>10, <2>1, <2>2 DEF RedisFails
<1>11. CASE RefreshUnwritten(r)
  <2>1. /\ \A p \in Requests \ {r} : req'[p] = req[p]
        /\ req'[r].at = "remember" /\ req'[r].sid = req[r].sid
    BY <1>0, <1>11 DEF RefreshUnwritten, TypeOK, Req
  <2>2. loginAt[req[r].sid] # None
    BY <1>11 DEF RefreshUnwritten, GoneInv, LoggedIn
  <2>3. QED
    BY <1>11, <2>1, <2>2, ReadsKeepGone DEF RefreshUnwritten, redis
<1>12. QED
  BY <1>1, <1>2, <1>3, <1>4, <1>5, <1>6, <1>7, <1>8, <1>9, <1>10, <1>11

\* The steps that write a record or remove it.
LEMMA WriteStepsKeepGone ==
  ASSUME GoneInv, IInv', NEW r \in Requests,
         TouchSet(r) \/ RefreshWrite(r) \/ RevokeDel(r)
  PROVE  GoneInv'
<1> DEFINE s == req[r].sid
<1>0. TypeOK /\ req[r] \in Req /\ s \in Sids /\ loginAt[s] # None
  BY Known DEF GoneInv, IInv, LoggedIn, Backed, TouchSet, RefreshWrite, RevokeDel
<1>1. CASE TouchSet(r)
  <2>1. /\ HasWriteToDo(r, s) /\ End(r)
        /\ \A p \in Sids \ {s} : session'[p] = session[p]
        /\ index' = index /\ staled \subseteq staled'
    BY <1>0, <1>1 DEF TouchSet, HasWriteToDo, TypeOK
  <2>2. QED
    BY <1>0, <1>1, <2>1, EndLeads, WritesKeepGone DEF TouchSet
<1>2. CASE RefreshWrite(r)
  <2>1. /\ HasWriteToDo(r, s)
        /\ \A p \in Sids \ {s} : session'[p] = session[p]
    BY <1>0, <1>2 DEF RefreshWrite, HasWriteToDo, TypeOK
  <2>2. \A h \in Tokens : index'[h] \in {index[h], None} \/ index'[h].sid = s
    BY <1>0, <1>2 DEF RefreshWrite, TypeOK
  <2>3. /\ \A p \in Requests \ {r} : req'[p] = req[p]
        /\ req'[r].at = "remember" /\ req'[r].sid = s
    BY <1>0, <1>2 DEF RefreshWrite, TypeOK, Req
  <2>4. QED
    BY <1>2, <2>1, <2>2, <2>3, WritesKeepGone DEF RefreshWrite, history
<1>3. CASE RevokeDel(r)
  <2>1. /\ \A p \in Requests \ {r} : req'[p] = req[p]
        /\ req'[r].at = "idle"
    BY <1>0, <1>3, EndLeads DEF RevokeDel
  <2>2. /\ session'[s] = None
        /\ \A p \in Sids \ {s} : session'[p] = session[p] /\ revokedAt'[p] = revokedAt[p]
        /\ \A h \in Tokens : index'[h] \in {index[h], None}
        /\ loginAt' = loginAt /\ staled' = staled
    BY <1>0, <1>3 DEF RevokeDel, TypeOK
  <2>3. /\ raced \subseteq raced'
        /\ s \in raced' \/ \A p \in Requests \ {r} : ~HasWriteToDo(p, s)
    BY <1>3 DEF RevokeDel
  <2>4. LoggedIn'
    BY <1>0, <2>1, <2>2 DEF GoneInv, LoggedIn
  <2>5. Gone'
    <3> SUFFICES ASSUME NEW u \in Sids \ (raced' \cup staled'), revokedAt'[u] # None
                 PROVE  session'[u] = None /\ \A p \in Requests : ~HasWriteToDo(p, u)'
      BY DEF Gone
    <3>1. CASE u = s
      BY <2>1, <2>2, <2>3, <3>1 DEF HasWriteToDo
    <3>2. CASE u # s
      BY <2>1, <2>2, <2>3, <3>2 DEF GoneInv, Gone, HasWriteToDo
    <3>3. QED
      BY <3>1, <3>2
  <2>6. QED
    BY <2>4, <2>5 DEF GoneInv
<1>4. QED
  BY <1>1, <1>2, <1>3

\* Every step keeps revoked sessions gone.
THEOREM NextGoneInv == GoneInv /\ [Next]_vars => GoneInv'
<1> SUFFICES ASSUME GoneInv, [Next]_vars PROVE GoneInv'
  OBVIOUS
<1>0. IInv /\ IInv'
  BY NextIInv DEF GoneInv
<1>1. ASSUME NEW s \in Sids, Login(s) PROVE GoneInv'
  <2>1. /\ loginAt[s] = None /\ now \in Nat
        /\ revokedAt' = revokedAt /\ raced' = raced /\ staled' = staled /\ req' = req
        /\ loginAt'[s] = now
        /\ \A p \in Sids \ {s} : session'[p] = session[p] /\ loginAt'[p] = loginAt[p]
        /\ \A h \in Tokens : index'[h] = index[h] \/ index'[h].sid = s
    BY <1>0, <1>1, NowIsNat DEF Login, IInv, TypeOK
  <2>2. loginAt'[s] # None /\ revokedAt[s] = None
    BY <2>1, ConstantTypes DEF GoneInv, LoggedIn
  <2>3. LoggedIn'
    <3>1. \A p : loginAt[p] # None /\ p \in Sids => loginAt'[p] # None
      BY <2>1, <2>2
    <3>2. \A h \in Tokens : index[h] # None => index[h].sid \in Sids
      BY <1>0 DEF IInv, TypeOK
    <3>3. \A r \in Requests : req[r].at \notin {"idle", "index", "byToken"}
                                => req[r].sid \in Sids
      BY <1>0, Known DEF Backed
    <3>4. QED
      BY <2>1, <2>2, <3>1, <3>2, <3>3 DEF GoneInv, LoggedIn
  <2>4. Gone'
    BY <2>1, <2>2 DEF GoneInv, Gone, HasWriteToDo
  <2>5. QED
    BY <1>0, <2>3, <2>4 DEF GoneInv
<1>2. ASSUME NEW r \in Requests, RequestStep(r) PROVE GoneInv'
  BY <1>0, <1>2, ReadStepsKeepGone, WriteStepsKeepGone DEF RequestStep
<1>3. ASSUME UNCHANGED <<req, history>>,
             \A s \in Sids : session'[s] \in {session[s], None},
             \A h \in Tokens : index'[h] \in {index[h], None}
      PROVE  GoneInv'
  <2>1. LoggedIn'
    BY <1>3 DEF GoneInv, LoggedIn, history
  <2>2. Gone'
    BY <1>3 DEF GoneInv, Gone, HasWriteToDo, history
  <2>3. QED
    BY <1>0, <2>1, <2>2 DEF GoneInv
<1>4. CASE Deactivate
  BY <1>3, <1>4 DEF Deactivate, redis
<1>5. CASE Tick
  <2>1. \A v : Live(v) \in {v, None}
    BY DEF Live
  <2>2. QED
    BY <1>3, <1>5, <2>1 DEF Tick
<1>6. CASE UNCHANGED vars
  BY <1>3, <1>6 DEF vars, redis
<1>7. QED
  BY <1>1, <1>2, <1>4, <1>5, <1>6 DEF Next

\* Before the first login nothing has been revoked.
LEMMA InitGoneInv == Init => GoneInv
  BY InitIInv DEF Init, Idle, GoneInv, LoggedIn, Gone

\* A revoked session stays gone for any number of sids and requests, unless a
\* request had read its record before the revoke and wrote it after.
THEOREM RevokedGone == Spec => []RevokedStaysGone
<1>1. GoneInv => RevokedStaysGone
  BY DEF GoneInv, Gone, RevokedStaysGone
<1>2. QED
  BY <1>1, InitGoneInv, NextGoneInv, PTL DEF Spec
-----------------------------------------------------------------------------
\* When a session was revoked for good: no write was under way, and none has put
\* it back since.
Ended(s) == s \notin raced \cup staled /\ revokedAt[s] # None

\* A check or a refresh q that may still be remembered began before the revoke,
\* and what was accepted began before the cache of that moment ran out.
Timely(q) ==
  /\ q.t <= now /\ q.touch <= now
  /\ (q.at = "assertGot" /\ q.rec # None) \/ q.at = "remember" =>
       (Ended(q.sid) => q.t <= revokedAt[q.sid])
  /\ q.verdict = "accepted" => (Ended(q.sid) => q.t < revokedAt[q.sid] + CacheTTL)

CacheInv ==
  /\ \A s \in Sids : sidCache[s] # None =>
       /\ sidCache[s].at <= now
       /\ Ended(s) => sidCache[s].at <= revokedAt[s]
  /\ \A r \in Requests : Timely(req[r])

\* A refresh token belongs to one sid and was drawn with one deadline. own and
\* due are both for every token drawn so far.
Belongs(own, due, s, rec) ==
  rec.hash <= drawn /\ own[rec.hash] = s /\ due[rec.hash] = rec.exp

Owned(own, due, q) ==
  /\ q.rec # None => Belongs(own, due, q.sid, q.rec)
  /\ q.at \in {"read", "write"} => /\ q.token \in Tokens /\ q.token <= drawn
                                   /\ own[q.token] = q.sid

Ownership(own, due) ==
  /\ \A s \in Sids : session[s] # None => Belongs(own, due, s, session[s])
  /\ \A h \in Tokens : index[h] # None => h <= drawn /\ own[h] = index[h].sid
  /\ \A r \in Requests : Owned(own, due, req[r])

\* The index leads to a session at least until it ends.
Indexed(s) ==
  session[s] # None /\ session[s].exp > now =>
    /\ index[session[s].hash] # None /\ index[session[s].hash].sid = s
    /\ index[session[s].hash].ttl >= session[s].exp

TokenInv ==
  /\ \E own \in [Tokens -> Sids \cup {None}], due \in [Tokens -> Nat] : Ownership(own, due)
  /\ \A s \in Sids \ staled : Indexed(s)

\* A step of r to q that is timely, while the cache stays within the revokes.
LEMMA StaysTimely ==
  ASSUME IInv, CacheInv, NEW r \in Requests, NEW q, req' = [req EXCEPT ![r] = q],
         Timely(q), now' = now, revokedAt' = revokedAt,
         raced \subseteq raced', staled \subseteq staled',
         \A s \in Sids : sidCache'[s] # None =>
           \/ sidCache'[s] = sidCache[s]
           \/ sidCache'[s].at <= now /\ (Ended(s) => sidCache'[s].at <= revokedAt[s])
  PROVE  CacheInv'
<1>1. req'[r] = q /\ \A p \in Requests \ {r} : req'[p] = req[p]
  BY DEF IInv, TypeOK
<1>2. \A s : Ended(s)' => Ended(s) /\ revokedAt'[s] = revokedAt[s]
  BY DEF Ended
<1>3. ASSUME NEW p \in Requests PROVE Timely(req[p])'
  <2>1. Timely(req'[p])
    BY <1>1 DEF CacheInv
  <2>2. QED
    BY <1>2, <2>1 DEF Timely
<1>4. QED
  BY <1>2, <1>3 DEF CacheInv

\* A slot without a request.
LEMMA IdleIsTimely ==
  ASSUME IInv
  PROVE  Timely(Idle)
  BY NowIsNat DEF IInv, Timely, Idle

\* A request ends, whatever it has done to Redis.
LEMMA EndIsTimely ==
  ASSUME IInv, CacheInv, NEW r \in Requests, End(r), now' = now, revokedAt' = revokedAt,
         raced \subseteq raced', staled \subseteq staled',
         \A s \in Sids : sidCache'[s] # None => sidCache'[s] = sidCache[s]
  PROVE  CacheInv'
  BY IdleIsTimely, StaysTimely DEF End

\* What an accepted check leaves is timely when it began before the cache of the
\* revoke ran out.
LEMMA TouchIsTimely ==
  ASSUME IInv, NEW r \in Requests, NEW s \in Sids, NEW t \in Nat, t <= now,
         NEW verdict \in {"accepted", "degraded"}, Touch(r, s, t, verdict),
         verdict = "accepted" => (Ended(s) => t < revokedAt[s] + CacheTTL)
  PROVE  \E q : req' = [req EXCEPT ![r] = q] /\ Timely(q)
<1> DEFINE q == [Idle EXCEPT !.sid = s, !.t = t, !.verdict = verdict]
           w == [Idle EXCEPT !.at = "touchGet", !.sid = s, !.t = t, !.touch = now,
                             !.verdict = verdict]
<1>1. /\ q.at = "idle" /\ q.sid = s /\ q.t = t /\ q.touch = 0 /\ q.verdict = verdict
      /\ w.at = "touchGet" /\ w.sid = s /\ w.t = t /\ w.touch = now /\ w.verdict = verdict
  BY DEF Idle
<1>2. req' = [req EXCEPT ![r] = q] \/ req' = [req EXCEPT ![r] = w]
  BY DEF Touch
<1> HIDE DEF q, w
<1>3. Timely(q) /\ Timely(w)
  BY <1>1, NowIsNat DEF IInv, Timely
<1>4. QED
  BY <1>2, <1>3

\* A check that starts from the cache starts within its lifetime.
LEMMA ValidateStartTimely ==
  ASSUME GoneInv, CacheInv, NEW r \in Requests, NEW s \in Sids, ValidateStart(r, s)
  PROVE  CacheInv'
<1>0. /\ IInv /\ now \in Nat /\ UNCHANGED <<now, sidCache, revokedAt, raced, staled>>
      /\ sidCache[s] \in Entry \cup {None} /\ revokedAt[s] \in Nat \cup {None}
  BY NowIsNat DEF GoneInv, IInv, TypeOK, ValidateStart, history
<1>1. CASE CacheHit(s) /\ Touch(r, s, now, "accepted")
  <2>1. Ended(s) => now < revokedAt[s] + CacheTTL
    BY <1>0, <1>1, TimesAreNat DEF CacheHit, CacheInv, Ended, Entry
  <2>2. PICK q : req' = [req EXCEPT ![r] = q] /\ Timely(q)
    BY <1>0, <1>1, <2>1, TouchIsTimely
  <2>3. QED
    BY <1>0, <2>2, StaysTimely
<1>2. CASE req' = [req EXCEPT ![r] = [Idle EXCEPT !.at = "assertGet",
                                        !.sid = s, !.t = now]]
  <2>1. Timely([Idle EXCEPT !.at = "assertGet", !.sid = s, !.t = now])
    BY <1>0 DEF Timely, Idle
  <2>2. QED
    BY <1>0, <1>2, <2>1, StaysTimely
<1>3. QED
  BY <1>1, <1>2 DEF ValidateStart

\* A request that goes on with the times it had.
LEMMA SameTimes ==
  ASSUME CacheInv, IInv, NEW r \in Requests, NEW q, q.t = req[r].t,
         q.touch = req[r].touch, q.verdict = req[r].verdict, q.sid = req[r].sid,
         (q.at = "assertGot" /\ q.rec # None) \/ q.at = "remember" =>
           (Ended(q.sid) => q.t <= revokedAt[q.sid])
  PROVE  Timely(q)
  BY DEF CacheInv, Timely

\* assertActive reads no record of a session that was ended before.
LEMMA AssertGetTimely ==
  ASSUME GoneInv, CacheInv, NEW r \in Requests, AssertGet(r) \/ RevokeGet(r)
  PROVE  CacheInv'
<1>0. /\ IInv /\ UNCHANGED <<now, sidCache, revokedAt, raced, staled>>
      /\ req[r] \in Req /\ Backed(req[r]) /\ req[r].sid \in Sids
  BY Known DEF GoneInv, AssertGet, RevokeGet, history, memory, Backed
<1>1. PICK at \in {"assertGot", "revokeDel"} :
        req' = [req EXCEPT ![r].at = at, ![r].rec = session[req[r].sid]]
  BY DEF AssertGet, RevokeGet
<1> DEFINE q == [req[r] EXCEPT !.at = at, !.rec = session[req[r].sid]]
<1>2. /\ q.at = at /\ q.rec = session[req[r].sid] /\ q.t = req[r].t
      /\ q.touch = req[r].touch /\ q.verdict = req[r].verdict /\ q.sid = req[r].sid
  BY <1>0 DEF Req
<1>3. req' = [req EXCEPT ![r] = q]
  BY <1>0, <1>1 DEF IInv, TypeOK
<1> HIDE DEF q
<1>4. Ended(q.sid) => q.rec = None
  BY <1>0, <1>2 DEF GoneInv, Gone, Ended
<1>5. Timely(q)
  BY <1>0, <1>2, <1>4, SameTimes
<1>6. QED
  BY <1>0, <1>3, <1>5, StaysTimely

\* What the check remembers and accepts began before the revoke.
LEMMA AssertFinishTimely ==
  ASSUME GoneInv, CacheInv, CacheTTL > 0, NEW r \in Requests, AssertFinish(r)
  PROVE  CacheInv'
<1> DEFINE s == req[r].sid
           rec == req[r].rec
<1>0. /\ IInv /\ UNCHANGED <<now, revokedAt, raced, staled>> /\ req[r].at = "assertGot"
      /\ req[r] \in Req /\ s \in Sids /\ req[r].t \in Nat /\ req[r].t <= now
      /\ revokedAt[s] \in Nat \cup {None}
  BY Known DEF GoneInv, AssertFinish, history, Backed, Req, CacheInv, Timely, IInv, TypeOK
<1>1. CASE /\ rec # None /\ RememberSid(s, rec.exp, req[r].t)
           /\ Touch(r, s, req[r].t, "accepted")
  <2>1. Ended(s) => req[r].t <= revokedAt[s]
    BY <1>0, <1>1 DEF CacheInv, Timely
  <2>2. Ended(s) => req[r].t < revokedAt[s] + CacheTTL
    BY <1>0, <2>1, TimesAreNat DEF Ended
  <2>3. PICK q : req' = [req EXCEPT ![r] = q] /\ Timely(q)
    BY <1>0, <1>1, <2>2, TouchIsTimely
  <2>4. sidCache'[s].at = req[r].t /\ \A p \in Sids \ {s} : sidCache'[p] = sidCache[p]
    BY <1>0, <1>1 DEF RememberSid, IInv, TypeOK
  <2>5. QED
    BY <1>0, <2>1, <2>3, <2>4, StaysTimely
<1>2. CASE Forget(s) /\ End(r)
  <2>1. \A p \in Sids : sidCache'[p] # None => sidCache'[p] = sidCache[p]
    BY <1>0, <1>2 DEF Forget, IInv, TypeOK
  <2>2. QED
    BY <1>0, <1>2, <2>1, EndIsTimely
<1>3. QED
  BY <1>1, <1>2 DEF AssertFinish, Usable

\* The other steps of a request that neither remember nor accept anything: the
\* entries they leave in the cache were there before.
LEMMA OtherStepsTimely ==
  ASSUME GoneInv, CacheInv, NEW r \in Requests,
         \/ \E s \in Sids : LogoutBySid(r, s)
         \/ \E h \in Tokens : RefreshStart(r, h) \/ LogoutByToken(r, h)
         \/ TouchGet(r) \/ RefreshIndex(r) \/ RefreshRead(r) \/ RevokeByToken(r)
  PROVE  CacheInv'
<1>0. /\ IInv /\ now \in Nat /\ UNCHANGED <<now, revokedAt, raced, staled>>
      /\ req[r] \in Req /\ Backed(req[r])
      /\ \A s \in Sids : sidCache'[s] # None => sidCache'[s] = sidCache[s]
  BY Known, NowIsNat DEF GoneInv, IInv, TypeOK, LogoutBySid, RefreshStart, LogoutByToken,
     TouchGet, RefreshIndex, RefreshRead, RevokeByToken, history, memory, Forget
<1>1. CASE End(r)
  BY <1>0, <1>1, EndIsTimely
<1>2. ASSUME NEW q, req' = [req EXCEPT ![r] = q], Timely(q) PROVE CacheInv'
  BY <1>0, <1>2, StaysTimely
<1>3. ASSUME NEW s \in Sids, LogoutBySid(r, s) PROVE CacheInv'
  <2>1. Timely([Idle EXCEPT !.at = "revokeGet", !.sid = s])
    BY <1>0 DEF Timely, Idle
  <2>2. QED
    BY <1>2, <1>3, <2>1 DEF LogoutBySid
<1>4. ASSUME NEW h \in Tokens, RefreshStart(r, h) \/ LogoutByToken(r, h) PROVE CacheInv'
  <2>1. \A at \in {"index", "byToken"} : Timely([Idle EXCEPT !.at = at, !.token = h])
    BY <1>0 DEF Timely, Idle
  <2>2. QED
    BY <1>2, <1>4, <2>1 DEF RefreshStart, LogoutByToken
<1>5. CASE TouchGet(r) /\ ~End(r)
  <2> DEFINE q == [req[r] EXCEPT !.at = "touchSet", !.rec = session[req[r].sid]]
  <2>1. /\ q.at = "touchSet" /\ q.t = req[r].t
        /\ q.touch = req[r].touch /\ q.verdict = req[r].verdict /\ q.sid = req[r].sid
    BY <1>0 DEF Req
  <2>2. req' = [req EXCEPT ![r] = q]
    BY <1>0, <1>5 DEF TouchGet, IInv, TypeOK
  <2> HIDE DEF q
  <2>3. QED
    BY <1>0, <1>2, <2>1, <2>2, SameTimes
<1>6. CASE (RefreshIndex(r) \/ RevokeByToken(r)) /\ ~End(r)
  <2>1. PICK at \in {"read", "revokeGet"} :
          req' = [req EXCEPT ![r].at = at, ![r].sid = index[req[r].token].sid]
    BY <1>6 DEF RefreshIndex, RevokeByToken
  <2> DEFINE q == [req[r] EXCEPT !.at = at, !.sid = index[req[r].token].sid]
  <2>2. q.at = at /\ q.t = req[r].t /\ q.touch = req[r].touch /\ q.verdict = req[r].verdict
    BY <1>0 DEF Req
  <2>3. req' = [req EXCEPT ![r] = q]
    BY <1>0, <2>1 DEF IInv, TypeOK
  <2>4. req[r].verdict = "none"
    BY <1>0, <1>6 DEF Backed, RefreshIndex, RevokeByToken
  <2> HIDE DEF q
  <2>5. Timely(q)
    BY <2>2, <2>4 DEF CacheInv, Timely
  <2>6. QED
    BY <1>2, <2>3, <2>5
<1>7. CASE RefreshRead(r) /\ ~End(r)
  <2>1. \/ Go(r, "revokeGet")
        \/ req' = [req EXCEPT ![r].at = "write", ![r].rec = session[req[r].sid], ![r].t = now]
    BY <1>7 DEF RefreshRead
  <2> DEFINE q == [req[r] EXCEPT !.at = "revokeGet"]
             w == [req[r] EXCEPT !.at = "write", !.rec = session[req[r].sid], !.t = now]
  <2>2. /\ q.at = "revokeGet" /\ q.t = req[r].t /\ q.touch = req[r].touch
        /\ q.verdict = req[r].verdict
        /\ w.at = "write" /\ w.t = now /\ w.touch = req[r].touch /\ w.verdict = req[r].verdict
    BY <1>0 DEF Req
  <2>3. req' = [req EXCEPT ![r] = q] \/ req' = [req EXCEPT ![r] = w]
    BY <1>0, <2>1 DEF IInv, TypeOK, Go
  <2>4. req[r].verdict = "none"
    BY <1>0, <1>7 DEF Backed, RefreshRead
  <2> HIDE DEF q, w
  <2>5. Timely(q) /\ Timely(w)
    BY <1>0, <2>2, <2>4 DEF CacheInv, Timely
  <2>6. QED
    BY <1>2, <2>3, <2>5
<1>8. QED
  BY <1>1, <1>3, <1>4, <1>5, <1>6, <1>7

\* A last-seen write ends its request.
LEMMA TouchSetTimely ==
  ASSUME GoneInv, CacheInv, NEW r \in Requests, TouchSet(r)
  PROVE  CacheInv'
  BY EndIsTimely DEF GoneInv, TouchSet, memory

\* A refresh goes on to remember a session nobody has ended.
LEMMA RefreshWriteTimely ==
  ASSUME GoneInv, CacheInv, NEW r \in Requests,
         RefreshWrite(r) \/ RefreshUnwritten(r)
  PROVE  CacheInv'
<1>0. /\ IInv /\ UNCHANGED <<now, sidCache, revokedAt, raced, staled>>
      /\ req[r] \in Req /\ Backed(req[r]) /\ req[r].at = "write" /\ req[r].sid \in Sids
  BY Known DEF GoneInv, RefreshWrite, RefreshUnwritten, history, memory, Backed
<1>1. PICK rec, token : req' = [req EXCEPT ![r].at = "remember", ![r].rec = rec,
                                           ![r].token = token]
  <2>1. CASE RefreshWrite(r)
    BY <2>1 DEF RefreshWrite
  <2>2. CASE RefreshUnwritten(r)
    <3>1. PICK rec : req' = [req EXCEPT ![r].at = "remember", ![r].token = drawn',
                                        ![r].rec = rec]
      BY <2>2 DEF RefreshUnwritten
    <3>2. req' = [req EXCEPT ![r].at = "remember", ![r].rec = rec, ![r].token = drawn']
      BY <1>0, <3>1 DEF IInv, TypeOK
    <3>3. QED
      BY <3>2
  <2>3. QED
    BY <2>1, <2>2
<1> DEFINE q == [req[r] EXCEPT !.at = "remember", !.rec = rec, !.token = token]
<1>2. /\ q.at = "remember" /\ q.t = req[r].t /\ q.touch = req[r].touch
      /\ q.verdict = req[r].verdict /\ q.sid = req[r].sid
  BY <1>0 DEF Req
<1>3. req' = [req EXCEPT ![r] = q]
  BY <1>0, <1>1 DEF IInv, TypeOK
<1> HIDE DEF q
<1>4. ~Ended(q.sid)
  BY <1>0, <1>2 DEF GoneInv, Gone, Ended, HasWriteToDo
<1>5. Timely(q)
  BY <1>0, <1>2, <1>4, SameTimes
<1>6. QED
  BY <1>0, <1>3, <1>5, StaysTimely

\* What a refresh remembers began before the revoke.
LEMMA RefreshFinishTimely ==
  ASSUME GoneInv, CacheInv, NEW r \in Requests, RefreshFinish(r)
  PROVE  CacheInv'
<1> DEFINE s == req[r].sid
<1>0. /\ IInv /\ UNCHANGED <<now, revokedAt, raced, staled>> /\ req[r].at = "remember"
      /\ req[r] \in Req /\ s \in Sids /\ req[r].t \in Nat /\ req[r].verdict = "none"
  BY Known DEF GoneInv, RefreshFinish, history, Backed, Req
<1>1. req[r].t <= now /\ (Ended(s) => req[r].t <= revokedAt[s])
  BY <1>0 DEF CacheInv, Timely
<1>2. CASE RememberSid(s, req[r].rec.exp, req[r].t) /\ End(r)
  <2>1. sidCache'[s].at = req[r].t /\ \A p \in Sids \ {s} : sidCache'[p] = sidCache[p]
    BY <1>0, <1>2 DEF RememberSid, IInv, TypeOK
  <2>2. QED
    BY <1>0, <1>1, <1>2, <2>1, IdleIsTimely, StaysTimely DEF End
<1>3. CASE Forget(s) /\ Go(r, "revokeGet")
  <2> DEFINE q == [req[r] EXCEPT !.at = "revokeGet"]
  <2>1. /\ q.at = "revokeGet" /\ q.t = req[r].t /\ q.touch = req[r].touch
        /\ q.verdict = "none"
    BY <1>0 DEF Req
  <2>2. req' = [req EXCEPT ![r] = q]
    BY <1>0, <1>3 DEF IInv, TypeOK, Go
  <2>3. \A p \in Sids : sidCache'[p] # None => sidCache'[p] = sidCache[p]
    BY <1>0, <1>3 DEF Forget, IInv, TypeOK
  <2> HIDE DEF q
  <2>4. Timely(q)
    BY <2>1 DEF CacheInv, Timely
  <2>5. QED
    BY <1>0, <2>2, <2>3, <2>4, StaysTimely
<1>4. QED
  BY <1>2, <1>3 DEF RefreshFinish

\* When Redis removes a session, every check of it that is under way, and every
\* entry of the cache, is of now or before.
LEMMA RevokeDelTimely ==
  ASSUME GoneInv, CacheInv, CacheTTL > 0, NEW r \in Requests, RevokeDel(r)
  PROVE  CacheInv'
<1> DEFINE s == req[r].sid
<1>0. /\ IInv /\ TypeOK /\ now \in Nat /\ UNCHANGED <<now, sidCache, staled>> /\ s \in Sids
      /\ revokedAt' = [revokedAt EXCEPT ![s] = now] /\ raced \subseteq raced'
      /\ req' = [req EXCEPT ![r] = Idle]
  BY Known, NowIsNat DEF GoneInv, IInv, RevokeDel, memory, Backed, End
<1>1. /\ revokedAt'[s] = now /\ \A p \in Sids \ {s} : revokedAt'[p] = revokedAt[p]
      /\ req'[r] = Idle /\ \A p \in Requests \ {r} : req'[p] = req[p]
  BY <1>0 DEF TypeOK
<1>2. \A p : Ended(p)' /\ p # s => Ended(p) /\ revokedAt'[p] = revokedAt[p]
  BY <1>0 DEF Ended, TypeOK
<1>3. \A p \in Sids : sidCache'[p] # None =>
        sidCache'[p].at <= now' /\ (Ended(p)' => sidCache'[p].at <= revokedAt'[p])
  BY <1>0, <1>1, <1>2 DEF CacheInv
<1>4. ASSUME NEW p \in Requests PROVE Timely(req[p])'
  <2>1. CASE p = r
    BY <1>0, <1>1, <2>1 DEF Timely, Idle
  <2>2. CASE p # r
    <3>1. req'[p] = req[p] /\ Timely(req[p]) /\ req[p].t \in Nat /\ req[p].touch \in Nat
      BY <1>1, <2>2, Known DEF CacheInv, GoneInv, Req
    <3>2. req[p].t < now + CacheTTL
      BY <1>0, <3>1, TimesAreNat DEF Timely
    <3>3. QED
      BY <1>0, <1>1, <1>2, <3>1, <3>2 DEF Timely
  <2>3. QED
    BY <2>1, <2>2
<1>5. QED
  BY <1>3, <1>4 DEF CacheInv

\* A check accepted without Redis is called degraded.
LEMMA RedisFailsTimely ==
  ASSUME GoneInv, CacheInv, NEW r \in Requests, RedisFails(r)
  PROVE  CacheInv'
<1>0. /\ IInv /\ UNCHANGED <<now, sidCache, revokedAt, raced, staled>>
      /\ req[r] \in Req /\ Backed(req[r])
  BY Known DEF GoneInv, RedisFails, history
<1>1. CASE End(r)
  BY <1>0, <1>1, EndIsTimely
<1>2. CASE req[r].at = "assertGet" /\ Touch(r, req[r].sid, req[r].t, "degraded")
  <2>1. req[r].sid \in Sids /\ req[r].t \in Nat /\ req[r].t <= now
    BY <1>0, <1>2 DEF Backed, Req, CacheInv, Timely
  <2>2. PICK q : req' = [req EXCEPT ![r] = q] /\ Timely(q)
    BY <1>0, <1>2, <2>1, TouchIsTimely
  <2>3. QED
    BY <1>0, <2>2, StaysTimely
<1>3. QED
  BY <1>1, <1>2 DEF RedisFails

\* A login is of a sid nobody has revoked.
LEMMA LoginTimely ==
  ASSUME GoneInv, CacheInv, NEW s \in Sids, Login(s)
  PROVE  CacheInv'
<1>1. /\ IInv /\ now \in Nat /\ UNCHANGED <<now, req, revokedAt, raced, staled>>
      /\ loginAt[s] = None /\ sidCache'[s].at = now
      /\ \A p \in Sids \ {s} : sidCache'[p] = sidCache[p]
  BY NowIsNat DEF GoneInv, IInv, TypeOK, Login, RememberSid
<1>2. revokedAt[s] = None
  BY <1>1 DEF GoneInv, LoggedIn
<1>3. \A p : Ended(p)' = Ended(p)
  BY <1>1 DEF Ended
<1>4. QED
  BY <1>1, <1>2, <1>3 DEF CacheInv, Timely, Ended

\* The clock only moves on.
LEMMA LaterIsTimely ==
  ASSUME GoneInv, CacheInv, now' \in {now, now + 1}, UNCHANGED <<req, sidCache, history>>
  PROVE  CacheInv'
<1>1. /\ now \in Nat /\ \A r \in Requests : req[r] \in Req
      /\ \A s \in Sids : sidCache[s] \in Entry \cup {None}
  BY NowIsNat DEF GoneInv, IInv, TypeOK
<1>2. \A s : Ended(s)' = Ended(s)
  BY DEF Ended, history
<1>3. \A r \in Requests : req[r].t \in Nat /\ req[r].touch \in Nat
  BY <1>1 DEF Req
<1>4. \A s \in Sids : sidCache[s] # None => sidCache[s].at \in Nat
  BY <1>1 DEF Entry
<1>5. \A s \in Sids : sidCache'[s] # None =>
        sidCache'[s].at <= now' /\ (Ended(s)' => sidCache'[s].at <= revokedAt'[s])
  BY <1>1, <1>2, <1>4 DEF CacheInv, history
<1>6. ASSUME NEW r \in Requests PROVE Timely(req[r])'
  BY <1>1, <1>2, <1>3 DEF CacheInv, Timely, history
<1>7. QED
  BY <1>5, <1>6 DEF CacheInv

\* Every step leaves the cache within the revokes.
LEMMA NextTimely ==
  ASSUME GoneInv, CacheInv, CacheTTL > 0, [Next]_vars
  PROVE  CacheInv'
<1>1. ASSUME NEW s \in Sids, Login(s) PROVE CacheInv'
  BY <1>1, LoginTimely
<1>2. ASSUME NEW r \in Requests, RequestStep(r) PROVE CacheInv'
  <2>1. CASE (\E s \in Sids : ValidateStart(r, s)) \/ AssertGet(r) \/ RevokeGet(r)
    BY <2>1, ValidateStartTimely, AssertGetTimely
  <2>2. CASE \/ AssertFinish(r) \/ TouchSet(r) \/ RefreshWrite(r)
             \/ RefreshUnwritten(r) \/ RefreshFinish(r)
    BY <2>2, AssertFinishTimely, TouchSetTimely, RefreshWriteTimely, RefreshFinishTimely
  <2>3. CASE RevokeDel(r) \/ RedisFails(r)
    BY <2>3, RevokeDelTimely, RedisFailsTimely
  <2>4. CASE \/ \E s \in Sids : LogoutBySid(r, s)
             \/ \E h \in Tokens : RefreshStart(r, h) \/ LogoutByToken(r, h)
             \/ TouchGet(r) \/ RefreshIndex(r) \/ RefreshRead(r) \/ RevokeByToken(r)
    BY <2>4, OtherStepsTimely
  <2>5. QED
    BY <1>2, <2>1, <2>2, <2>3, <2>4 DEF RequestStep
<1>3. CASE Deactivate \/ Tick \/ UNCHANGED vars
  BY <1>3, LaterIsTimely DEF Deactivate, Tick, vars, memory
<1>4. QED
  BY <1>1, <1>2, <1>3 DEF Next


\* A check that begins CacheTTL after its session was revoked is refused, for
\* any sids and requests.
THEOREM RevokedWithinTTL == Spec => []RevokedWithinCacheTTL
<1>1. CacheTTL > 0
  BY CacheHolds, TimesAreNat
<1>2. Init => GoneInv /\ CacheInv
  BY InitGoneInv DEF Init, CacheInv, Timely, Idle
<1>3. GoneInv /\ CacheInv /\ [Next]_vars => GoneInv' /\ CacheInv'
  BY <1>1, NextGoneInv, NextTimely
<1>4. GoneInv /\ CacheInv => RevokedWithinCacheTTL
  BY DEF CacheInv, Timely, RevokedWithinCacheTTL, Ended
<1>5. QED
  BY <1>2, <1>3, <1>4, PTL DEF Spec
-----------------------------------------------------------------------------
\* One request moves to q, and Redis stays.
LEMMA OnlyRequestOwned ==
  ASSUME IInv, TokenInv, NEW r \in Requests, NEW q, req' = [req EXCEPT ![r] = q],
         \A own \in [Tokens -> Sids \cup {None}], due \in [Tokens -> Nat] :
           Ownership(own, due) => Owned(own, due, q),
         UNCHANGED <<now, session, index, drawn, staled>>
  PROVE  TokenInv'
<1>1. req'[r] = q /\ \A p \in Requests \ {r} : req'[p] = req[p]
  BY DEF IInv, TypeOK
<1>2. PICK own \in [Tokens -> Sids \cup {None}], due \in [Tokens -> Nat] : Ownership(own, due)
  BY DEF TokenInv
<1>3. ASSUME NEW p \in Requests PROVE Owned(own, due, req[p])'
  <2>1. Owned(own, due, req'[p])
    BY <1>1, <1>2 DEF Ownership
  <2>2. QED
    BY <2>1 DEF Owned, Belongs
<1>4. Ownership(own, due)'
  BY <1>2, <1>3 DEF Ownership, Belongs
<1>5. \A s \in Sids \ staled' : Indexed(s)'
  BY DEF TokenInv, Indexed
<1>6. QED
  BY <1>4, <1>5 DEF TokenInv

\* A request that holds neither record nor token.
LEMMA BareIsOwned ==
  ASSUME NEW own, NEW due, NEW q, q.rec = None, q.at \notin {"read", "write"}
  PROVE  Owned(own, due, q)
  BY DEF Owned

\* So is a slot without a request.
LEMMA IdleIsBare == Idle.rec = None /\ Idle.at = "idle"
  BY DEF Idle

\* touchActivity leaves a request without a record.
LEMMA TouchIsBare ==
  ASSUME NEW r \in Requests, NEW s, NEW t, NEW verdict, Touch(r, s, t, verdict)
  PROVE  \E q : req' = [req EXCEPT ![r] = q] /\ q.rec = None /\ q.at \in {"idle", "touchGet"}
<1> DEFINE q == [Idle EXCEPT !.sid = s, !.t = t, !.verdict = verdict]
           w == [Idle EXCEPT !.at = "touchGet", !.sid = s, !.t = t, !.touch = now,
                             !.verdict = verdict]
<1>1. q.at = "idle" /\ q.rec = None /\ w.at = "touchGet" /\ w.rec = None
  BY DEF Idle
<1>2. req' = [req EXCEPT ![r] = q] \/ req' = [req EXCEPT ![r] = w]
  BY DEF Touch
<1> HIDE DEF q, w
<1>3. QED
  BY <1>1, <1>2

\* The steps that end with a request without a record.
LEMMA BareStepsOwned ==
  ASSUME IInv, TokenInv, NEW r \in Requests,
         \/ \E s \in Sids : ValidateStart(r, s) \/ LogoutBySid(r, s)
         \/ \E h \in Tokens : RefreshStart(r, h) \/ LogoutByToken(r, h)
         \/ AssertFinish(r) \/ RedisFails(r)
  PROVE  TokenInv'
<1>1. UNCHANGED <<now, session, index, drawn, staled>>
  BY DEF ValidateStart, LogoutBySid, RefreshStart, LogoutByToken, AssertFinish, RedisFails,
         redis, history
<1>2. PICK q : req' = [req EXCEPT ![r] = q] /\ q.rec = None /\ q.at \notin {"read", "write"}
  <2>1. ASSUME NEW s \in Sids, ValidateStart(r, s)
        PROVE  \E q : req' = [req EXCEPT ![r] = q] /\ q.rec = None /\ q.at \notin {"read", "write"}
    <3>1. /\ [Idle EXCEPT !.at = "assertGet", !.sid = s, !.t = now].rec = None
          /\ [Idle EXCEPT !.at = "assertGet", !.sid = s, !.t = now].at = "assertGet"
      BY DEF Idle
    <3>2. QED
      BY <2>1, <3>1, TouchIsBare DEF ValidateStart
  <2>2. ASSUME NEW s \in Sids, LogoutBySid(r, s)
        PROVE  \E q : req' = [req EXCEPT ![r] = q] /\ q.rec = None /\ q.at \notin {"read", "write"}
    <3>1. /\ [Idle EXCEPT !.at = "revokeGet", !.sid = s].rec = None
          /\ [Idle EXCEPT !.at = "revokeGet", !.sid = s].at = "revokeGet"
      BY DEF Idle
    <3>2. QED
      BY <2>2, <3>1 DEF LogoutBySid
  <2>3. ASSUME NEW h \in Tokens, RefreshStart(r, h) \/ LogoutByToken(r, h)
        PROVE  \E q : req' = [req EXCEPT ![r] = q] /\ q.rec = None /\ q.at \notin {"read", "write"}
    <3>1. \A at \in {"index", "byToken"} : /\ [Idle EXCEPT !.at = at, !.token = h].rec = None
                                           /\ [Idle EXCEPT !.at = at, !.token = h].at = at
      BY DEF Idle
    <3>2. QED
      BY <2>3, <3>1 DEF RefreshStart, LogoutByToken
  <2>4. CASE End(r)
    BY <2>4, IdleIsBare DEF End
  <2>5. CASE AssertFinish(r)
    BY <2>4, <2>5, TouchIsBare DEF AssertFinish
  <2>6. CASE RedisFails(r)
    BY <2>4, <2>6, TouchIsBare DEF RedisFails
  <2>7. QED
    BY <2>1, <2>2, <2>3, <2>5, <2>6
<1>3. QED
  BY <1>1, <1>2, BareIsOwned, OnlyRequestOwned

\* The steps that read a record read one of their sid.
LEMMA ReadStepsOwned ==
  ASSUME IInv, TokenInv, NEW r \in Requests,
         AssertGet(r) \/ RevokeGet(r) \/ TouchGet(r)
  PROVE  TokenInv'
<1>0. /\ UNCHANGED <<now, session, index, drawn, staled>>
      /\ req[r] \in Req /\ req[r].sid \in Sids
  BY Known DEF AssertGet, RevokeGet, TouchGet, redis, history, Backed
<1>1. CASE End(r)
  BY <1>0, <1>1, IdleIsBare, BareIsOwned, OnlyRequestOwned DEF End
<1>2. CASE ~End(r)
  <2>1. PICK at \in {"assertGot", "revokeDel", "touchSet"} :
          req' = [req EXCEPT ![r].at = at, ![r].rec = session[req[r].sid]]
    BY <1>2 DEF AssertGet, RevokeGet, TouchGet
  <2> DEFINE q == [req[r] EXCEPT !.at = at, !.rec = session[req[r].sid]]
  <2>2. q.at = at /\ q.rec = session[req[r].sid] /\ q.sid = req[r].sid
    BY <1>0 DEF Req
  <2>3. req' = [req EXCEPT ![r] = q]
    BY <2>1 DEF IInv, TypeOK
  <2> HIDE DEF q
  <2>4. \A own \in [Tokens -> Sids \cup {None}], due \in [Tokens -> Nat] :
          Ownership(own, due) => Owned(own, due, q)
    BY <1>0, <2>2 DEF Ownership, Owned
  <2>5. QED
    BY <1>0, <2>3, <2>4, OnlyRequestOwned
<1>3. QED
  BY <1>1, <1>2

\* A request that finds the sid of its token, or goes on to revoke its session.
LEMMA FindStepsOwned ==
  ASSUME IInv, TokenInv, NEW r \in Requests,
         RefreshIndex(r) \/ RevokeByToken(r) \/ RefreshFinish(r)
  PROVE  TokenInv'
<1>0. /\ UNCHANGED <<now, session, index, drawn, staled>>
      /\ req[r] \in Req /\ Backed(req[r])
  BY Known DEF RefreshIndex, RevokeByToken, RefreshFinish, redis, history
<1>1. CASE End(r)
  BY <1>0, <1>1, IdleIsBare, BareIsOwned, OnlyRequestOwned DEF End
<1>2. CASE (RefreshIndex(r) \/ RevokeByToken(r)) /\ ~End(r)
  <2>1. PICK at \in {"read", "revokeGet"} :
          req' = [req EXCEPT ![r].at = at, ![r].sid = index[req[r].token].sid]
    BY <1>2 DEF RefreshIndex, RevokeByToken
  <2> DEFINE q == [req[r] EXCEPT !.at = at, !.sid = index[req[r].token].sid]
  <2>2. /\ q.at = at /\ q.sid = index[req[r].token].sid /\ q.token = req[r].token
        /\ q.rec = req[r].rec
    BY <1>0 DEF Req
  <2>3. req' = [req EXCEPT ![r] = q]
    BY <2>1 DEF IInv, TypeOK
  <2>4. req[r].rec = None /\ req[r].token \in Tokens /\ index[req[r].token] # None
    BY <1>0, <1>2 DEF Backed, RefreshIndex, RevokeByToken
  <2> HIDE DEF q
  <2>5. \A own \in [Tokens -> Sids \cup {None}], due \in [Tokens -> Nat] :
          Ownership(own, due) => Owned(own, due, q)
    BY <2>2, <2>4 DEF Ownership, Owned
  <2>6. QED
    BY <1>0, <2>3, <2>5, OnlyRequestOwned
<1>3. CASE Go(r, "revokeGet")
  <2> DEFINE q == [req[r] EXCEPT !.at = "revokeGet"]
  <2>1. q.at = "revokeGet" /\ q.sid = req[r].sid /\ q.rec = req[r].rec
    BY <1>0 DEF Req
  <2>2. req' = [req EXCEPT ![r] = q]
    BY <1>3 DEF IInv, TypeOK, Go
  <2> HIDE DEF q
  <2>3. \A own \in [Tokens -> Sids \cup {None}], due \in [Tokens -> Nat] :
          Ownership(own, due) => Owned(own, due, q)
    BY <2>1 DEF Ownership, Owned
  <2>4. QED
    BY <1>0, <2>2, <2>3, OnlyRequestOwned
<1>4. QED
  BY <1>1, <1>2, <1>3 DEF RefreshFinish

\* Redis only loses, and never the index of a session that stays.
LEMMA LosesKeep ==
  ASSUME IInv, NEW own \in [Tokens -> Sids \cup {None}], NEW due \in [Tokens -> Nat],
         Ownership(own, due), \A s \in Sids \ staled : Indexed(s),
         NEW r \in Requests, NEW q, req' = [req EXCEPT ![r] = q], Owned(own, due, q),
         UNCHANGED <<now, drawn, staled>>,
         \A s \in Sids : session'[s] \in {session[s], None},
         \A h \in Tokens : index'[h] \in {index[h], None},
         \A s \in Sids : session'[s] # None => index'[session[s].hash] = index[session[s].hash]
  PROVE  TokenInv'
<1>1. req'[r] = q /\ \A p \in Requests \ {r} : req'[p] = req[p]
  BY DEF IInv, TypeOK
<1>2. ASSUME NEW p \in Requests PROVE Owned(own, due, req[p])'
  <2>1. Owned(own, due, req'[p])
    BY <1>1 DEF Ownership
  <2>2. QED
    BY <2>1 DEF Owned, Belongs
<1>3. Ownership(own, due)'
  BY <1>2 DEF Ownership, Belongs
<1>4. \A s \in Sids \ staled' : Indexed(s)'
  BY DEF Indexed
<1>5. QED
  BY <1>3, <1>4 DEF TokenInv

\* The index a refresh drops is of a token whose session is gone.
LEMMA RefreshReadOwned ==
  ASSUME IInv, TokenInv, NEW r \in Requests, RefreshRead(r)
  PROVE  TokenInv'
<1> DEFINE s == req[r].sid
           h == req[r].token
<1>0. /\ UNCHANGED <<now, session, drawn, staled>> /\ req[r].at = "read"
      /\ req[r] \in Req /\ s \in Sids
  BY Known DEF RefreshRead, history, Backed
<1>1. PICK own \in [Tokens -> Sids \cup {None}], due \in [Tokens -> Nat] : Ownership(own, due)
  BY DEF TokenInv
<1>2. h \in Tokens /\ h <= drawn /\ own[h] = s /\ Owned(own, due, req[r])
  BY <1>0, <1>1 DEF Ownership, Owned
<1>3. CASE session[s] = None /\ index' = [index EXCEPT ![h] = None] /\ End(r)
  <2>1. \A p \in Sids : session[p] # None => session[p].hash # h
    BY <1>1, <1>2, <1>3 DEF Ownership, Belongs
  <2>2. \A k \in Tokens : /\ index'[k] \in {index[k], None}
                          /\ k # h => index'[k] = index[k]
    BY <1>3 DEF IInv, TypeOK
  <2>3. \A p \in Sids : session[p] # None => session[p].hash \in Tokens
    BY DEF IInv, TypeOK, Record
  <2>4. Owned(own, due, Idle)
    BY BareIsOwned DEF Idle
  <2>5. QED
    BY <1>0, <1>1, <1>3, <2>1, <2>2, <2>3, <2>4, LosesKeep DEF End, TokenInv
<1>4. CASE UNCHANGED index
  <2> DEFINE q == [req[r] EXCEPT !.at = "revokeGet"]
             w == [req[r] EXCEPT !.at = "write", !.rec = session[s], !.t = now]
  <2>1. /\ q.at = "revokeGet" /\ q.sid = s /\ q.rec = req[r].rec
        /\ w.at = "write" /\ w.sid = s /\ w.rec = session[s] /\ w.token = h
    BY <1>0 DEF Req
  <2>2. \/ req' = [req EXCEPT ![r] = q] \/ req' = [req EXCEPT ![r] = w]
        \/ End(r)
    BY <1>4 DEF RefreshRead, Go, IInv, TypeOK
  <2> HIDE DEF q, w
  <2>3. \A o \in [Tokens -> Sids \cup {None}], d \in [Tokens -> Nat] :
          Ownership(o, d) => Owned(o, d, q) /\ Owned(o, d, w)
    BY <1>0, <2>1 DEF Ownership, Owned
  <2>4. \A o, d : Owned(o, d, Idle)
    BY BareIsOwned DEF Idle
  <2>5. QED
    BY <1>0, <1>4, <2>2, <2>3, <2>4, OnlyRequestOwned DEF End
<1>5. QED
  BY <1>3, <1>4 DEF RefreshRead

\* A revoke drops the session with its own index.
LEMMA RevokeDelOwned ==
  ASSUME IInv, TokenInv, NEW r \in Requests, RevokeDel(r)
  PROVE  TokenInv'
<1> DEFINE s == req[r].sid
           rec == req[r].rec
<1>0. /\ UNCHANGED <<now, drawn, staled>> /\ End(r) /\ s \in Sids
      /\ session' = [session EXCEPT ![s] = None]
      /\ index' = IF rec = None THEN index ELSE [index EXCEPT ![rec.hash] = None]
  BY Known DEF RevokeDel, Backed
<1>1. PICK own \in [Tokens -> Sids \cup {None}], due \in [Tokens -> Nat] : Ownership(own, due)
  BY DEF TokenInv
<1>2. /\ \A p \in Sids \ {s} : session'[p] = session[p]
      /\ session'[s] = None
  BY <1>0 DEF IInv, TypeOK
<1>3. \A p \in Sids : session[p] # None => session[p].hash \in Tokens
  BY DEF IInv, TypeOK, Record
<1>4. rec # None => own[rec.hash] = s
  BY <1>1 DEF Ownership, Owned, Belongs
<1>5. \A p \in Sids \ {s} : session[p] # None /\ rec # None => session[p].hash # rec.hash
  BY <1>1, <1>4 DEF Ownership, Belongs
<1>6. \A k \in Tokens : /\ index'[k] \in {index[k], None}
                        /\ (rec = None \/ k # rec.hash) => index'[k] = index[k]
  BY <1>0 DEF IInv, TypeOK
<1>7. \A p \in Sids : session'[p] # None => index'[session[p].hash] = index[session[p].hash]
  BY <1>2, <1>3, <1>5, <1>6
<1>8. Owned(own, due, Idle)
  BY BareIsOwned DEF Idle
<1>9. \A p \in Sids : session'[p] \in {session[p], None}
  BY <1>2
<1>10. QED
  BY <1>0, <1>1, <1>6, <1>7, <1>8, <1>9, LosesKeep DEF End, TokenInv

\* Only the owner s of the new token n gets a new record, indexed at least until
\* it ends. Another token may leave the index when it belonged to s.
Draws(s, n, new, own) ==
  /\ drawn < n /\ drawn' = n /\ UNCHANGED <<now, staled>>
  /\ new.hash = n /\ session' = [session EXCEPT ![s] = new]
  /\ index'[n] # None /\ index'[n].sid = s /\ index'[n].ttl >= new.exp
  /\ \A k \in Tokens \ {n} : index'[k] = index[k] \/ (index'[k] = None /\ own[k] = s)
  /\ \A p \in Requests :
       \/ req'[p] = req[p]
       \/ req'[p].at = "remember" /\ req'[p].sid = s /\ req'[p].rec = new

\* Such a step gives the new token to s and leaves the others where they were.
LEMMA DrawKeeps ==
  ASSUME IInv, TokenInv, NEW s \in Sids, NEW n \in Tokens, NEW new \in Record,
         NEW own \in [Tokens -> Sids \cup {None}], NEW due \in [Tokens -> Nat],
         Ownership(own, due), Draws(s, n, new, own)
  PROVE  TokenInv'
<1> USE DEF Draws
<1>0. drawn \in Nat /\ (\A h \in Tokens : h \in Nat) /\ new.exp \in Nat
  BY TimesAreNat DEF IInv, TypeOK, Tokens, Record
<1>1. PICK o \in [Tokens -> Sids \cup {None}], d \in [Tokens -> Nat] :
        /\ \A h \in Tokens \ {n} : o[h] = own[h] /\ d[h] = due[h]
        /\ o[n] = s /\ d[n] = new.exp
  <2> DEFINE o == [own EXCEPT ![n] = s]
             d == [due EXCEPT ![n] = new.exp]
  <2>1. /\ o \in [Tokens -> Sids \cup {None}] /\ d \in [Tokens -> Nat]
        /\ \A h \in Tokens \ {n} : o[h] = own[h] /\ d[h] = due[h]
        /\ o[n] = s /\ d[n] = new.exp
    BY <1>0
  <2> HIDE DEF o, d
  <2>2. QED
    BY <2>1, Zenon
<1>2. \A p \in Sids, rec \in Record :
        Belongs(own, due, p, rec) => Belongs(o, d, p, rec)'
  BY <1>0, <1>1 DEF Belongs, Record
<1>3. session'[s] = new /\ \A p \in Sids \ {s} : session'[p] = session[p]
  BY DEF IInv, TypeOK
<1>4. Belongs(o, d, s, new)'
  BY <1>0, <1>1 DEF Belongs
<1>5. \A p \in Sids : session[p] # None => session[p] \in Record /\ session[p].hash <= drawn
  BY DEF IInv, TypeOK, Ownership, Belongs
<1>6. \A p \in Sids : session'[p] # None => Belongs(o, d, p, session[p])'
  BY <1>2, <1>3, <1>4, <1>5 DEF Ownership
<1>7. \A h \in Tokens : index'[h] # None => h <= drawn' /\ o[h] = index'[h].sid
  BY <1>0, <1>1 DEF Ownership
<1>8. ASSUME NEW r \in Requests PROVE Owned(o, d, req[r])'
  <2>1. CASE req'[r] = req[r]
    <3>1. req[r] \in Req /\ Backed(req[r]) /\ Owned(own, due, req[r])
      BY Known DEF Ownership
    <3>2. req[r].rec # None => req[r].rec \in Record /\ req[r].sid \in Sids
      BY <3>1 DEF Req, Backed
    <3>3. QED
      BY <1>0, <1>1, <1>2, <2>1, <3>1, <3>2 DEF Owned
  <2>2. CASE req'[r].at = "remember" /\ req'[r].sid = s /\ req'[r].rec = new
    BY <1>4, <2>2 DEF Owned
  <2>3. QED
    BY <2>1, <2>2
<1>9. ASSUME NEW p \in Sids \ staled' PROVE Indexed(p)'
  <2>1. CASE p = s
    BY <1>3, <2>1 DEF Indexed
  <2>2. CASE p # s /\ session[p] # None
    <3>1. /\ session'[p] = session[p] /\ session[p].hash \in Tokens \ {n}
          /\ session[p].hash <= drawn /\ own[session[p].hash] = p
      BY <1>0, <1>3, <1>5, <2>2 DEF Ownership, Belongs, Record
    <3>2. index'[session[p].hash] = index[session[p].hash]
      BY <2>2, <3>1
    <3>3. Indexed(p)
      BY DEF TokenInv
    <3>4. QED
      BY <3>1, <3>2, <3>3 DEF Indexed
  <2>3. CASE p # s /\ session[p] = None
    BY <1>3, <2>3 DEF Indexed
  <2>4. QED
    BY <2>1, <2>2, <2>3
<1>10. Ownership(o, d)'
  BY <1>6, <1>7, <1>8 DEF Ownership
<1>11. QED
  BY <1>9, <1>10 DEF TokenInv

\* A login indexes its token for as long as its record.
LEMMA LoginOwned ==
  ASSUME IInv, TokenInv, NEW s \in Sids, Login(s)
  PROVE  TokenInv'
<1>1. now \in Nat /\ TTL(s) \in Nat /\ now + TTL(s) \in Nat /\ drawn + 1 \in Tokens
  BY NowIsNat, ConstantTypes, TimesAreNat DEF IInv, TypeOK, TTL, Login, Tokens
<1>2. PICK exp \in Nat, n \in Tokens : exp = now + TTL(s) /\ n = drawn + 1
  BY <1>1
<1>3. PICK new \in Record, entry \in [sid: Sids, ttl: Nat] :
        /\ new.hash = n /\ new.exp = exp /\ entry.sid = s /\ entry.ttl = exp
        /\ session' = [session EXCEPT ![s] = new]
        /\ index' = [index EXCEPT ![n] = entry]
  <2>1. [hash |-> n, exp |-> exp, ttl |-> exp] \in Record
    BY DEF Record
  <2>2. QED
    BY <1>2, <2>1 DEF Login
<1>4. drawn' = n /\ drawn < n /\ UNCHANGED <<now, staled, req>>
  BY <1>1, <1>2, TimesAreNat DEF Login, IInv, TypeOK
<1>5. index'[n] = entry /\ entry # None /\ \A h \in Tokens \ {n} : index'[h] = index[h]
  BY <1>3, NoneIsNoIndexEntry DEF IInv, TypeOK
<1>6. index'[n].ttl >= new.exp
  BY <1>3, <1>5
<1>7. PICK own \in [Tokens -> Sids \cup {None}], due \in [Tokens -> Nat] : Ownership(own, due)
  BY DEF TokenInv
<1>8. Draws(s, n, new, own)
  BY <1>3, <1>4, <1>5, <1>6 DEF Draws
<1>9. QED
  BY <1>7, <1>8, DrawKeeps

\* A refresh indexes the new token for at least as long as its record and drops
\* the one it was asked with.
LEMMA RefreshWriteOwned ==
  ASSUME IInv, CacheInv, TokenInv, NEW r \in Requests, RefreshWrite(r)
  PROVE  TokenInv'
<1>1. PICK s \in Sids, h \in Tokens : s = req[r].sid /\ h = req[r].token
  <2>1. Backed(req[r]) /\ req[r].at = "write"
    BY Known DEF RefreshWrite
  <2>2. req[r].token \in Tokens
    BY <2>1 DEF TokenInv, Ownership, Owned
  <2>3. QED
    BY <2>1, <2>2 DEF Backed
<1>2. /\ req[r] \in Req /\ req[r].at = "write" /\ req[r].t \in Nat /\ now \in Nat
      /\ req[r].t <= now /\ req[r].rec \in Record /\ drawn + 1 \in Tokens /\ drawn \in Nat
  BY Known, NowIsNat, TimesAreNat, SMTT(30)
     DEF RefreshWrite, IInv, TypeOK, Req, CacheInv, Timely, Tokens
<1>3. PICK exp \in Nat, n \in Tokens : exp = NextExp(s, req[r].rec, req[r].t) /\ n = drawn + 1
  BY <1>2, TimesAreNat DEF NextExp, Record
<1>4. PICK ttl \in Nat : ttl = now + AtLeastOne(exp - req[r].t) /\ ttl >= exp
  BY <1>2, <1>3 DEF AtLeastOne
<1>5. PICK new \in Record, entry \in [sid: Sids, ttl: Nat] :
        /\ new = [hash |-> n, exp |-> exp, ttl |-> ttl] /\ new.hash = n /\ new.exp = exp
        /\ entry = [sid |-> s, ttl |-> ttl] /\ entry.sid = s /\ entry.ttl = ttl
  <2>1. [hash |-> n, exp |-> exp, ttl |-> ttl] \in Record
    BY DEF Record
  <2>2. [sid |-> s, ttl |-> ttl] \in [sid: Sids, ttl: Nat]
    OBVIOUS
  <2>3. QED
    BY <2>1, <2>2, Zenon
<1>6. drawn' = n /\ drawn < n /\ UNCHANGED <<now, staled>>
  BY <1>2, <1>3 DEF RefreshWrite, history
<1>7. session' = [session EXCEPT ![s] = new]
  BY <1>1, <1>3, <1>4, <1>5, <1>6 DEF RefreshWrite
<1>8. index' = [index EXCEPT ![h] = None, ![n] = entry]
  BY <1>1, <1>3, <1>4, <1>5, <1>6 DEF RefreshWrite
<1>9. PICK own \in [Tokens -> Sids \cup {None}], due \in [Tokens -> Nat] : Ownership(own, due)
  BY DEF TokenInv
<1>10. own[h] = s /\ h # n
  <2>1. h <= drawn /\ own[h] = s
    BY <1>1, <1>2, <1>9 DEF Ownership, Owned
  <2>2. QED
    BY <1>2, <1>3, <2>1
<1>11. /\ index'[n] = entry /\ index'[h] = None
       /\ \A k \in Tokens \ {n, h} : index'[k] = index[k]
  BY <1>8, <1>10 DEF IInv, TypeOK
<1>12. session'[s] = new
  BY <1>7 DEF IInv, TypeOK
<1> DEFINE q == [req[r] EXCEPT !.at = "remember", !.rec = new, !.token = n]
<1>13. q.at = "remember" /\ q.sid = s /\ q.rec = new
  BY <1>1, <1>2 DEF Req
<1>14. req' = [req EXCEPT ![r] = q]
  <2>1. req' = [req EXCEPT ![r].at = "remember", ![r].rec = new, ![r].token = n]
    BY <1>1, <1>6, <1>12 DEF RefreshWrite
  <2>2. QED
    BY <2>1 DEF IInv, TypeOK
<1> HIDE DEF q
<1>15. req'[r] = q /\ \A p \in Requests \ {r} : req'[p] = req[p]
  BY <1>14 DEF IInv, TypeOK
<1>16. index'[n] # None /\ index'[n].sid = s /\ index'[n].ttl >= new.exp
  BY <1>4, <1>5, <1>11, NoneIsNoIndexEntry
<1>17. \A k \in Tokens \ {n} : index'[k] = index[k] \/ (index'[k] = None /\ own[k] = s)
  BY <1>10, <1>11
<1>18. \A p \in Requests :
         \/ req'[p] = req[p]
         \/ req'[p].at = "remember" /\ req'[p].sid = s /\ req'[p].rec = new
  BY <1>13, <1>15
<1>19. Draws(s, n, new, own)
  BY <1>5, <1>6, <1>7, <1>16, <1>17, <1>18 DEF Draws
<1>20. QED
  BY <1>9, <1>19, DrawKeeps

\* A rotation that was never written gives its token to the same sid.
LEMMA RefreshUnwrittenOwned ==
  ASSUME IInv, CacheInv, TokenInv, NEW r \in Requests, RefreshUnwritten(r)
  PROVE  TokenInv'
<1>1. PICK s \in Sids : s = req[r].sid
  BY Known DEF RefreshUnwritten, Backed
<1>2. /\ req[r] \in Req /\ req[r].t \in Nat /\ now \in Nat
      /\ req[r].rec \in Record /\ drawn + 1 \in Tokens /\ drawn \in Nat
      /\ \A h \in Tokens : h \in Nat
  BY Known, NowIsNat, TimesAreNat, SMTT(30)
     DEF RefreshUnwritten, IInv, TypeOK, Req, Tokens, Backed
<1>3. PICK exp \in Nat, n \in Tokens : exp = NextExp(s, req[r].rec, req[r].t) /\ n = drawn + 1
  BY <1>2, TimesAreNat DEF NextExp, Record
<1>4. PICK new : /\ new.hash = n /\ new.exp = exp
                 /\ req' = [req EXCEPT ![r].at = "remember", ![r].token = n, ![r].rec = new]
  BY <1>1, <1>3 DEF RefreshUnwritten
<1>5. drawn' = n /\ drawn < n /\ UNCHANGED <<now, session, index, staled>>
  BY <1>2, <1>3 DEF RefreshUnwritten, redis, history
<1> DEFINE q == [req[r] EXCEPT !.at = "remember", !.token = n, !.rec = new]
<1>6. q.at = "remember" /\ q.sid = s /\ q.rec = new
  BY <1>1, <1>2 DEF Req
<1>7. req' = [req EXCEPT ![r] = q]
  BY <1>4 DEF IInv, TypeOK
<1> HIDE DEF q
<1>8. req'[r] = q /\ \A p \in Requests \ {r} : req'[p] = req[p]
  BY <1>7 DEF IInv, TypeOK
<1>9. PICK own \in [Tokens -> Sids \cup {None}], due \in [Tokens -> Nat] : Ownership(own, due)
  BY DEF TokenInv
<1>10. PICK o \in [Tokens -> Sids \cup {None}], d \in [Tokens -> Nat] :
         /\ \A h \in Tokens \ {n} : o[h] = own[h] /\ d[h] = due[h]
         /\ o[n] = s /\ d[n] = exp
  <2> DEFINE o == [own EXCEPT ![n] = s]
             d == [due EXCEPT ![n] = exp]
  <2>1. /\ o \in [Tokens -> Sids \cup {None}] /\ d \in [Tokens -> Nat]
        /\ \A h \in Tokens \ {n} : o[h] = own[h] /\ d[h] = due[h]
        /\ o[n] = s /\ d[n] = exp
    OBVIOUS
  <2> HIDE DEF o, d
  <2>2. QED
    BY <2>1, Zenon
<1>11. \A p \in Sids, rec \in Record :
         Belongs(own, due, p, rec) => Belongs(o, d, p, rec)'
  <2> SUFFICES ASSUME NEW p \in Sids, NEW rec \in Record, Belongs(own, due, p, rec)
               PROVE  Belongs(o, d, p, rec)'
    OBVIOUS
  <2>1. rec.hash \in Tokens /\ rec.hash \in Nat /\ rec.hash <= drawn
    BY <1>2 DEF Belongs, Record
  <2>2. rec.hash # n /\ rec.hash <= n
    BY <1>2, <1>3, <1>5, <2>1
  <2>3. o[rec.hash] = own[rec.hash] /\ d[rec.hash] = due[rec.hash]
    BY <1>10, <2>1, <2>2
  <2>4. QED
    BY <1>5, <2>2, <2>3 DEF Belongs
<1>12. \A p \in Sids : session'[p] # None => Belongs(o, d, p, session[p])'
  BY <1>5, <1>9, <1>11 DEF Ownership, IInv, TypeOK
<1>13. \A h \in Tokens : index'[h] # None => h <= drawn' /\ o[h] = index'[h].sid
  BY <1>2, <1>3, <1>5, <1>9, <1>10 DEF Ownership
<1>14. ASSUME NEW p \in Requests PROVE Owned(o, d, req[p])'
  <2>1. CASE p # r
    <3>1. req'[p] = req[p] /\ req[p] \in Req /\ Backed(req[p]) /\ Owned(own, due, req[p])
      BY <1>8, <1>9, <2>1, Known DEF Ownership
    <3>2. req[p].rec # None => req[p].rec \in Record /\ req[p].sid \in Sids
      BY <3>1 DEF Req, Backed
    <3>3. req[p].rec # None => Belongs(o, d, req[p].sid, req[p].rec)'
      BY <1>11, <3>1, <3>2 DEF Owned
    <3>4. ASSUME req[p].at \in {"read", "write"}
          PROVE  /\ req[p].token \in Tokens /\ req[p].token <= drawn'
                 /\ o[req[p].token] = req[p].sid
      <4>1. /\ req[p].token \in Tokens /\ req[p].token <= drawn
            /\ own[req[p].token] = req[p].sid
        BY <3>1, <3>4 DEF Owned
      <4>2. req[p].token \in Nat /\ req[p].token # n
        BY <1>2, <1>3, <1>5, <4>1
      <4>3. QED
        BY <1>2, <1>3, <1>5, <1>10, <4>1, <4>2
    <3>5. QED
      BY <3>1, <3>3, <3>4 DEF Owned, Belongs
  <2>2. CASE p = r
    <3>1. Belongs(o, d, s, new)'
      BY <1>2, <1>3, <1>4, <1>5, <1>10 DEF Belongs
    <3>2. QED
      BY <1>6, <1>8, <2>2, <3>1 DEF Owned
  <2>3. QED
    BY <2>1, <2>2
<1>15. Ownership(o, d)'
  BY <1>12, <1>13, <1>14 DEF Ownership
<1>16. \A p \in Sids \ staled' : Indexed(p)'
  BY <1>5 DEF TokenInv, Indexed
<1>17. QED
  BY <1>15, <1>16 DEF TokenInv

\* A last-seen write that puts back the record of the same token keeps its
\* deadline, any other is noted.
LEMMA TouchSetOwned ==
  ASSUME IInv, TokenInv, NEW r \in Requests, TouchSet(r)
  PROVE  TokenInv'
<1>1. PICK s \in Sids, rec \in Record : s = req[r].sid /\ rec = req[r].rec
  BY Known DEF TouchSet, Backed, Req
<1>2. PICK own \in [Tokens -> Sids \cup {None}], due \in [Tokens -> Nat] : Ownership(own, due)
  BY DEF TokenInv
<1>3. PICK ttl : /\ session' = [session EXCEPT ![s] = [rec EXCEPT !.ttl = ttl]]
                 /\ End(r) /\ UNCHANGED <<now, index, drawn>> /\ staled \subseteq staled'
                 /\ s \in staled' \/ (session[s] # None /\ session[s].hash = rec.hash)
  BY <1>1 DEF TouchSet, memory
<1> DEFINE new == [rec EXCEPT !.ttl = ttl]
<1>4. new.hash = rec.hash /\ new.exp = rec.exp
  BY DEF Record
<1>5. session'[s] = new /\ \A p \in Sids \ {s} : session'[p] = session[p]
  BY <1>3 DEF IInv, TypeOK
<1> HIDE DEF new
<1>6. Belongs(own, due, s, rec) /\ rec # None
  BY <1>1, <1>2, NoneIsNoRecord DEF Ownership, Owned
<1>7. Belongs(own, due, s, new)
  BY <1>4, <1>6 DEF Belongs
<1>8. req'[r] = Idle /\ \A p \in Requests \ {r} : req'[p] = req[p]
  BY <1>3 DEF IInv, TypeOK, End
<1>9. \A p \in Requests : Owned(own, due, req'[p])
  BY <1>2, <1>8, IdleIsBare, BareIsOwned DEF Ownership
<1>10. \A p \in Sids : session'[p] # None => Belongs(own, due, p, session'[p])
  BY <1>2, <1>5, <1>7 DEF Ownership
<1>11. Ownership(own, due)'
  BY <1>2, <1>3, <1>9, <1>10 DEF Ownership, Owned, Belongs
<1>12. ASSUME NEW p \in Sids \ staled' PROVE Indexed(p)'
  <2>1. Indexed(p)
    BY <1>3 DEF TokenInv
  <2>2. CASE p # s
    BY <1>3, <1>5, <2>1, <2>2 DEF Indexed
  <2>3. CASE p = s
    <3>1. session[s] # None /\ session[s].hash = rec.hash /\ session[s].exp = rec.exp
      BY <1>2, <1>3, <1>6, <2>3 DEF Ownership, Belongs
    <3>2. QED
      BY <1>3, <1>4, <1>5, <2>1, <2>3, <3>1 DEF Indexed
  <2>4. QED
    BY <2>2, <2>3
<1>13. QED
  BY <1>11, <1>12 DEF TokenInv

\* A key of the index outlives the record it leads to.
LEMMA TickOwned ==
  ASSUME IInv, TokenInv, Tick
  PROVE  TokenInv'
<1>1. PICK own \in [Tokens -> Sids \cup {None}], due \in [Tokens -> Nat] : Ownership(own, due)
  BY DEF TokenInv
<1>2. /\ now \in Nat /\ now' = now + 1 /\ UNCHANGED <<req, drawn, staled>>
      /\ \A s \in Sids : session'[s] = Live(session[s])
      /\ \A h \in Tokens : index'[h] = Live(index[h])
  BY NowIsNat DEF IInv, Tick, history
<1>3. /\ \A s \in Sids : session'[s] \in {session[s], None}
      /\ \A h \in Tokens : index'[h] \in {index[h], None}
      /\ \A h \in Tokens : index[h] # None /\ index[h].ttl > now + 1 => index'[h] = index[h]
  <2>1. \A h \in Tokens : index[h] # None => index[h].ttl \in Nat
    BY DEF IInv, TypeOK
  <2>2. QED
    BY <1>2, <2>1 DEF Live
<1>4. Ownership(own, due)'
  BY <1>1, <1>2, <1>3 DEF Ownership, Owned, Belongs
<1>5. ASSUME NEW s \in Sids \ staled' PROVE Indexed(s)'
  <2>1. Indexed(s)
    BY <1>2 DEF TokenInv
  <2>2. session[s] # None => session[s].exp \in Nat /\ session[s].hash \in Tokens
    BY DEF IInv, TypeOK, Record
  <2>3. \A h \in Tokens : index[h] # None => index[h].ttl \in Nat
    BY DEF IInv, TypeOK
  <2>4. QED
    BY <1>2, <1>3, <2>1, <2>2, <2>3 DEF Indexed
<1>6. QED
  BY <1>4, <1>5 DEF TokenInv

\* Every step keeps tokens with their sids and sessions in the index.
LEMMA NextOwned ==
  ASSUME IInv, CacheInv, TokenInv, [Next]_vars
  PROVE  TokenInv'
<1>1. ASSUME NEW s \in Sids, Login(s) PROVE TokenInv'
  BY <1>1, LoginOwned
<1>2. ASSUME NEW r \in Requests, RequestStep(r) PROVE TokenInv'
  <2>1. CASE \/ \E s \in Sids : ValidateStart(r, s) \/ LogoutBySid(r, s)
             \/ \E h \in Tokens : RefreshStart(r, h) \/ LogoutByToken(r, h)
             \/ AssertFinish(r) \/ RedisFails(r)
    BY <2>1, BareStepsOwned
  <2>2. CASE AssertGet(r) \/ RevokeGet(r) \/ TouchGet(r)
    BY <2>2, ReadStepsOwned
  <2>3. CASE RefreshIndex(r) \/ RevokeByToken(r) \/ RefreshFinish(r)
    BY <2>3, FindStepsOwned
  <2>4. CASE RefreshRead(r) \/ RevokeDel(r) \/ RefreshWrite(r) \/ TouchSet(r)
    BY <2>4, RefreshReadOwned, RevokeDelOwned, RefreshWriteOwned, TouchSetOwned
  <2>5. CASE RefreshUnwritten(r)
    BY <2>5, RefreshUnwrittenOwned
  <2>6. QED
    BY <1>2, <2>1, <2>2, <2>3, <2>4, <2>5 DEF RequestStep
<1>3. CASE Tick
  BY <1>3, TickOwned
<1>4. CASE Deactivate \/ UNCHANGED vars
  <2>1. UNCHANGED <<now, session, index, req, drawn, staled>>
    BY <1>4 DEF Deactivate, vars, redis, history
  <2>2. QED
    BY <2>1 DEF TokenInv, Ownership, Owned, Belongs, Indexed
<1>5. QED
  BY <1>1, <1>2, <1>3, <1>4 DEF Next

\* The refresh token a record names finds its session until it expires, for any sids,
\* requests and lifetimes, unless a last-seen write put an older record back.
THEOREM CurrentTokenFound == Spec => []CurrentTokenWorks
<1>1. CacheTTL > 0
  BY CacheHolds, TimesAreNat
<1>2. ASSUME Init PROVE GoneInv /\ CacheInv /\ TokenInv
  <2>1. GoneInv /\ CacheInv
    BY <1>2, InitGoneInv DEF Init, CacheInv, Timely, Idle
  <2>2. PICK own \in [Tokens -> Sids \cup {None}], due \in [Tokens -> Nat] : TRUE
    <3>1. /\ [h \in Tokens |-> None] \in [Tokens -> Sids \cup {None}]
          /\ [h \in Tokens |-> 0] \in [Tokens -> Nat]
      OBVIOUS
    <3>2. QED
      BY <3>1
  <2>3. Ownership(own, due)
    BY <1>2, IdleIsBare, BareIsOwned DEF Init, Ownership
  <2>4. QED
    BY <1>2, <2>1, <2>3 DEF Init, TokenInv, Indexed
<1>3. ASSUME GoneInv, CacheInv, TokenInv, [Next]_vars
      PROVE  GoneInv' /\ CacheInv' /\ TokenInv'
  BY <1>1, <1>3, NextGoneInv, NextTimely, NextOwned DEF GoneInv
<1>4. TokenInv => CurrentTokenWorks
  BY DEF TokenInv, Indexed, CurrentTokenWorks
<1>5. QED
  BY <1>2, <1>3, <1>4, PTL DEF Spec
====
