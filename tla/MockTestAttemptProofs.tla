------------------------ MODULE MockTestAttemptProofs ------------------------
(***************************************************************************)
(* Theorems about MockTestAttempt, for any papers, handlers and times: the    *)
(* sessions of a paper are worked through in order, the score of a closed     *)
(* attempt is that of its answers, what is closed stays closed, and the time   *)
(* of an attempt is one its paper allows and, once frozen, the time its        *)
(* timers ran.                                                                *)
(*                                                                          *)
(* A handler decides on the row it has fetched and saves later. The invariant *)
(* speaks of the fetched row: whatever it is, what the handler has made of it *)
(* is sound if it was. As long as no row is saved over a change, the row at   *)
(* the save is the one that was fetched (SaveUnraced), and the invariant      *)
(* carries over to it.                                                        *)
(***************************************************************************)
EXTENDS MockTestAttempt, SequenceTheorems, FiniteSetTheorems, WellFoundedInduction, TLAPS

Open == {"IN_PROGRESS", "PAUSED"}
SessionStatus == {"LOCKED", "IN_PROGRESS", "PAUSED"} \cup Closed
AnySession == [status: SessionStatus, startedAt: Int, consumed: Int]

\* An attempt with all that decides where it stands. Its time and score are sums,
\* and what a sum is of is said elsewhere.
Attempt(d) ==
  /\ d \in [paper: Papers, status: Open \cup Closed, startedAt: Int,
            consumed: {d.consumed}, current: Nat, score: {d.score},
            answers: [Parts(d) -> {"none", "right", "wrong"}],
            sessions: [1..Len(d.paper.sessions) -> AnySession]]
  /\ d.current \in Parts(d)

\* The sessions before the current one are over and those after it are locked.
\* The current one is paused with the paper and over with the paper, which is
\* then in its last session.
InPlace(d) ==
  SessionWise(d) =>
    /\ \A i \in 1..(d.current - 1) : d.sessions[i].status \in Closed
    /\ \A i \in (d.current + 1)..Len(d.sessions) : d.sessions[i].status = "LOCKED"
    /\ d.status = "PAUSED" => d.sessions[d.current].status = "PAUSED"
    /\ d.status = "IN_PROGRESS" => d.sessions[d.current].status # "LOCKED"
    /\ d.status \in Closed => IsLast(d) /\ d.sessions[d.current].status \in Closed

\* A current session that is over in a paper in progress has no time left, so
\* that no handler pauses it.
Timed(d) ==
  SessionWise(d) /\ d.status = "IN_PROGRESS" =>
    LET s == d.sessions[d.current] IN
    \/ s.status = "IN_PROGRESS"
    \/ s.status = "EXPIRED" /\ AllowedTime(d) <= s.consumed + Grace

\* A closed attempt has the score of its answers.
Scored(d) == d.status \in Closed => d.score = Score(d.answers)

KeepsClosed(d, e) ==
  \A i \in 1..Len(d.paper.sessions) :
    d.sessions[i].status \in Closed => e.sessions[i].status \in Closed

\* What a handler has made of a row it has fetched, and is about to save.
Made(d, e, next) ==
  /\ Attempt(e)
  /\ e.paper = d.paper /\ e.answers = d.answers
  /\ Scored(e)
  /\ InPlace(d) => InPlace(e)
  /\ next # "submit" /\ InPlace(d) /\ Timed(d) => Timed(e) /\ KeepsClosed(d, e)
  /\ e.status \in Closed => KeepsClosed(d, e)

\* A handler at rest, before its create, before its second fetch, about to write
\* an answer, and about to save. Only open rows are held.
SlotShape(s) ==
  \/ s.at \in {"idle", "create"}
  \/ s.at = "submit"
  \/ s \in [at: {"answer", "refetch"}, a: {s.a}, read: {s.read}, answer: Answers,
            next: {"end", "refetch"}, t: Int]
  \/ s \in [at: {"save"}, a: {s.a}, read: {s.read}, write: {s.write},
            whole: BOOLEAN, next: {"end", "create", "submit"}]

Sound(s) ==
  /\ s.at \in {"answer", "refetch", "save"} => Attempt(s.read) /\ s.read.status \in Open
  /\ (s.at = "refetch" \/ (s.at = "answer" /\ s.next = "refetch")) => MaySubmit(s.read)
  /\ s.at = "save" => Made(s.read, s.write, s.next)

\* The row a handler works on exists, and is of the paper that was fetched.
Placed(s) ==
  /\ s.at \in {"answer", "refetch", "save", "submit"} => s.a \in Ids
  /\ s.at \in {"answer", "refetch", "save"} => row[s.a].paper = s.read.paper

TypeInv ==
  /\ now \in Nat
  /\ row \in Seq({row[a] : a \in Ids})
  /\ \A a \in Ids : Attempt(row[a])
  /\ DOMAIN slot = Slots
SlotsInv == \A w \in Slots : SlotShape(slot[w]) /\ Sound(slot[w]) /\ Placed(slot[w])
RowsInv ==
  /\ \A a \in Ids \ raced : InPlace(row[a]) /\ Scored(row[a])
  /\ \A a \in Ids \ (raced \cup halfDone) : Timed(row[a])

IInv == TypeInv /\ SlotsInv /\ RowsInv

-----------------------------------------------------------------------------
\* The papers and the grace period have the types the arithmetic needs.
LEMMA ConstantTypes ==
  /\ Grace \in Nat
  /\ \A p \in Papers : p.sessions \in Seq(Nat) /\ p.duration \in Nat
<1>1. Grace \in Nat
  BY BoundsAreNat
<1>2. ASSUME NEW p \in Papers PROVE p.sessions \in Seq(Nat) /\ p.duration \in Nat
  <2>1. p \in [sessions: Seq(Nat \ {0}), duration: Nat \ {0}]
    BY PapersAreTimed
  <2>2. p.sessions \in Seq(Nat \ {0}) /\ p.duration \in Nat
    BY <2>1
  <2>3. QED
    BY <2>2, SeqMonotonic
<1>3. QED
  BY <1>1, <1>2

\* A function on 1..k is a sequence of length k.
LEMMA FunctionIsSeq ==
  ASSUME NEW S, NEW k \in Nat, NEW f \in [1..k -> S]
  PROVE  f \in Seq(S) /\ Len(f) = k /\ DOMAIN f = 1..k
<1>1. f \in Seq(S)
  BY SeqDef
<1>2. Len(f) \in Nat /\ DOMAIN f = 1..Len(f)
  BY <1>1, LenProperties
<1>3. QED
  BY <1>1, <1>2

\* What the shape of an attempt says of its sessions.
LEMMA AttemptShape ==
  ASSUME NEW d, Attempt(d)
  PROVE  LET n == Len(d.paper.sessions) IN
         /\ n \in Nat /\ Len(d.sessions) = n /\ DOMAIN d.sessions = 1..n
         /\ SessionWise(d) <=> n # 0
         /\ Parts(d) = IF n = 0 THEN {1} ELSE 1..n
         /\ d.current \in Nat /\ d.current \in Parts(d)
         /\ \A i \in 1..n : d.sessions[i] \in AnySession
         /\ IsLast(d) <=> (n = 0 \/ d.current = n)
         /\ AllowedTime(d) \in Int
<1> DEFINE n == Len(d.paper.sessions)
<1>1. /\ d.paper \in Papers /\ d.sessions \in [1..n -> AnySession]
      /\ d.current \in Nat /\ d.current \in Parts(d)
  BY DEF Attempt
<1>2. d.paper.sessions \in Seq(Nat) /\ n \in Nat /\ d.paper.duration \in Nat
      /\ \A i \in 1..n : d.paper.sessions[i] \in Nat
  BY <1>1, ConstantTypes
<1>3. d.sessions \in Seq(AnySession) /\ Len(d.sessions) = n /\ DOMAIN d.sessions = 1..n
  <2> HIDE DEF n
  <2>1. QED
    BY <1>1, <1>2, FunctionIsSeq
<1>4. SessionWise(d) <=> n # 0
  BY <1>3, EmptySeq DEF SessionWise
<1>5. d.paper.sessions = <<>> <=> n = 0
  BY <1>2, EmptySeq
<1>6. Parts(d) = IF n = 0 THEN {1} ELSE 1..n
  <2>1. 1..1 = {1}
    OBVIOUS
  <2>2. QED
    BY <1>5, <2>1 DEF Parts, NumParts
<1>7. AllowedTime(d) \in Int
  BY <1>1, <1>2, <1>4, <1>6 DEF AllowedTime, Duration
<1>8. IsLast(d) <=> (n = 0 \/ d.current = n)
  BY <1>3, <1>4 DEF IsLast
<1>9. QED
  BY <1>1, <1>2, <1>3, <1>4, <1>6, <1>7, <1>8

\* The time on a running timer is a number when the paper has sessions.
LEMMA ElapsedIsNumber ==
  ASSUME NEW d, Attempt(d), NEW t \in Int, SessionWise(d)
  PROVE  /\ TimeElapsed(d, t) \in Int
         /\ d.sessions[d.current].status \notin {"IN_PROGRESS"} =>
              TimeElapsed(d, t) = d.sessions[d.current].consumed
<1>1. d.sessions[d.current] \in AnySession
  BY AttemptShape
<1>2. QED
  BY <1>1 DEF TimeElapsed, AnySession

\* The status and the time of the current session are written.
Put(d, s, c) == [d EXCEPT !.sessions[d.current].status = s,
                          !.sessions[d.current].consumed = c]

\* e is d but for the current session and the status, time and score of the paper.
Touches(d, e) ==
  /\ Attempt(e) /\ e.paper = d.paper /\ e.answers = d.answers /\ e.current = d.current
  /\ \A i \in 1..Len(d.paper.sessions) : i # d.current => e.sessions[i] = d.sessions[i]

\* It touches the current session only.
LEMMA PutTouches ==
  ASSUME NEW d, Attempt(d), SessionWise(d), NEW s \in SessionStatus, NEW c \in Int
  PROVE  LET e == Put(d, s, c) IN
         /\ Touches(d, e) /\ e.status = d.status /\ e.score = d.score
         /\ e.startedAt = d.startedAt /\ e.consumed = d.consumed
         /\ e.sessions[d.current].status = s /\ e.sessions[d.current].consumed = c
         /\ e.sessions[d.current].startedAt = d.sessions[d.current].startedAt
<1> DEFINE n == Len(d.paper.sessions)
           x == [d.sessions[d.current] EXCEPT !.status = s, !.consumed = c]
           ss == [d.sessions EXCEPT ![d.current] = x]
<1>1. d.current \in 1..n /\ d.sessions[d.current] \in AnySession
      /\ d.sessions \in [1..n -> AnySession]
  BY AttemptShape DEF Attempt
<1>2. /\ x \in AnySession /\ x.status = s /\ x.consumed = c
      /\ x.startedAt = d.sessions[d.current].startedAt
  BY <1>1 DEF AnySession
<1>3. Put(d, s, c) = [d EXCEPT !.sessions = ss]
  BY <1>1 DEF Put, Attempt, AnySession
<1> HIDE DEF x
<1>4. ss \in [1..n -> AnySession] /\ ss[d.current] = x
      /\ \A i \in 1..n : i # d.current => ss[i] = d.sessions[i]
  BY <1>1, <1>2
<1> HIDE DEF ss
<1>5. LET e == [d EXCEPT !.sessions = ss] IN
      /\ Attempt(e) /\ e.paper = d.paper /\ e.answers = d.answers /\ e.current = d.current
      /\ e.sessions = ss /\ e.status = d.status /\ e.score = d.score
      /\ e.startedAt = d.startedAt /\ e.consumed = d.consumed
  BY <1>4 DEF Attempt, Parts
<1>6. QED
  BY <1>2, <1>3, <1>4, <1>5 DEF Touches

\* The time of the paper is written, and its status and score with it.
SetTime(d, t) == [d EXCEPT !.consumed = t]
Close(d, s, t, sc) == [d EXCEPT !.score = sc, !.status = s, !.consumed = t]

\* A new time leaves the rest.
LEMMA TimeTouches ==
  ASSUME NEW d, Attempt(d), NEW t
  PROVE  LET e == SetTime(d, t) IN
         /\ Touches(d, e) /\ e.status = d.status /\ e.score = d.score
         /\ e.sessions = d.sessions /\ e.startedAt = d.startedAt /\ e.consumed = t
  BY DEF Attempt, Parts, Touches, SetTime

\* A new status, score and time leave the rest.
LEMMA CloseTouches ==
  ASSUME NEW d, Attempt(d), NEW s \in Open \cup Closed, NEW t, NEW sc
  PROVE  LET e == Close(d, s, t, sc) IN
         /\ Touches(d, e) /\ e.status = s /\ e.score = sc /\ e.sessions = d.sessions
         /\ e.startedAt = d.startedAt /\ e.consumed = t
  BY DEF Attempt, Parts, Touches, Close

\* Touching twice touches.
LEMMA TouchesTwice ==
  ASSUME NEW d, NEW e, NEW f, Touches(d, e), Touches(e, f)
  PROVE  Touches(d, f)
  BY DEF Touches

\* A touch leaves the paper with its sessions and its place.
LEMMA TouchesShape ==
  ASSUME NEW d, NEW e, Attempt(d), Touches(d, e)
  PROVE  /\ SessionWise(e) <=> SessionWise(d)
         /\ IsLast(e) <=> IsLast(d)
         /\ AllowedTime(e) = AllowedTime(d)
         /\ Len(e.sessions) = Len(d.sessions)
<1>1. /\ e.paper = d.paper /\ e.current = d.current /\ Attempt(e)
  BY DEF Touches
<1>2. SessionWise(e) <=> SessionWise(d)
  BY <1>1, AttemptShape
<1>3. IsLast(e) <=> IsLast(d)
  BY <1>1, AttemptShape
<1>4. Len(e.sessions) = Len(d.sessions)
  BY <1>1, AttemptShape
<1>5. QED
  BY <1>1, <1>2, <1>3, <1>4 DEF AllowedTime, Duration

\* When a touch is sound: what it makes of the current session and the paper.
LEMMA TouchIsMade ==
  ASSUME NEW d, NEW e, NEW next, Attempt(d), Touches(d, e), d.status \in Open,
         e.status \in Closed => IsLast(d) /\ e.score = Score(d.answers),
         SessionWise(d) =>
           LET s == d.sessions[d.current].status
               r == e.sessions[d.current].status
           IN /\ e.status = "PAUSED" => r = "PAUSED"
              /\ e.status = "IN_PROGRESS" => r # "LOCKED"
              /\ e.status \in Closed => r \in Closed,
         SessionWise(d) /\ next # "submit" /\ InPlace(d) /\ Timed(d) =>
           LET s == d.sessions[d.current].status
               r == e.sessions[d.current]
           IN /\ e.status = "IN_PROGRESS" =>
                   r.status = "IN_PROGRESS"
                   \/ (r.status = "EXPIRED" /\ AllowedTime(d) <= r.consumed + Grace)
              /\ s \in Closed => r.status \in Closed
  PROVE  Made(d, e, next)
<1> DEFINE n == Len(d.paper.sessions)
<1>1. /\ Attempt(e) /\ e.paper = d.paper /\ e.answers = d.answers /\ e.current = d.current
      /\ \A i \in 1..n : i # d.current => e.sessions[i] = d.sessions[i]
  BY DEF Touches
<1>2. /\ SessionWise(e) <=> SessionWise(d)
      /\ IsLast(e) <=> IsLast(d)
      /\ AllowedTime(e) = AllowedTime(d)
      /\ Len(e.sessions) = Len(d.sessions)
  BY TouchesShape
<1>3. n \in Nat /\ Len(d.sessions) = n /\ d.current \in Nat
      /\ (SessionWise(d) => d.current \in 1..n) /\ (SessionWise(d) <=> n # 0)
  BY AttemptShape
<1>4. Scored(e)
  BY <1>1 DEF Scored
<1> HIDE DEF n
<1>5. InPlace(d) => InPlace(e)
  <2> SUFFICES ASSUME InPlace(d), SessionWise(d) PROVE InPlace(e)
    BY <1>2 DEF InPlace
  <2>1. \A i \in 1..(d.current - 1) : e.sessions[i].status \in Closed
    BY <1>1, <1>3 DEF InPlace
  <2>2. \A i \in (d.current + 1)..Len(d.sessions) : e.sessions[i].status = "LOCKED"
    BY <1>1, <1>3 DEF InPlace
  <2>3. QED
    BY <1>1, <1>2, <2>1, <2>2 DEF InPlace
<1>6. next # "submit" /\ InPlace(d) /\ Timed(d) => Timed(e)
  BY <1>1, <1>2 DEF Timed
<1>7. next # "submit" /\ InPlace(d) /\ Timed(d) => KeepsClosed(d, e)
  <2> USE DEF n
  <2>1. QED
    BY <1>1, <1>3 DEF KeepsClosed
<1>8. e.status \in Closed => KeepsClosed(d, e)
  <2> USE DEF n
  <2>1. QED
    BY <1>1, <1>3 DEF KeepsClosed
<1>9. QED
  BY <1>1, <1>4, <1>5, <1>6, <1>7, <1>8 DEF Made

\* Of two times the smaller is a time.
LEMMA SmallerIsInt ==
  ASSUME NEW x \in Int, NEW y \in Int
  PROVE  Smaller(x, y) \in Int /\ (x > y => Smaller(x, y) = y)
  BY DEF Smaller

\* What autoExpireIfNeeded makes of an overdue row.
LEMMA ExpireIsMade ==
  ASSUME NEW d, Attempt(d), NEW t \in Int, NEW next, Overdue(d, t)
  PROVE  Made(d, Expire(d, t), next)
<1> DEFINE b == IF SessionWise(d) THEN ExpireSession(d) ELSE d
           e == Expire(d, t)
<1>1. d.status = "IN_PROGRESS" /\ AllowedTime(d) \in Int /\ Grace \in Nat
  BY AttemptShape, ConstantTypes DEF Overdue
<1>2. /\ Touches(d, b) /\ b.status = d.status
      /\ SessionWise(d) => /\ b.sessions[d.current].status = "EXPIRED"
                           /\ b.sessions[d.current].consumed = AllowedTime(d)
  <2>1. CASE SessionWise(d)
    <3> DEFINE p == Put(d, "EXPIRED", AllowedTime(d))
    <3>1. /\ Touches(d, p) /\ p.status = d.status
          /\ p.sessions[d.current].status = "EXPIRED"
          /\ p.sessions[d.current].consumed = AllowedTime(d)
      BY <1>1, <2>1, PutTouches DEF SessionStatus, Closed
    <3>2. b = SetTime(p, TotalTime(p, AllowedTime(d)))
      BY <2>1 DEF ExpireSession, Put, SetTime
    <3> HIDE DEF p
    <3>3. /\ Touches(p, b) /\ b.status = p.status /\ b.sessions = p.sessions
      BY <3>1, <3>2, TimeTouches DEF Touches
    <3>4. QED
      BY <3>1, <3>3, TouchesTwice
  <2>2. CASE ~SessionWise(d)
    BY <2>2 DEF Touches
  <2>3. QED
    BY <2>1, <2>2
<1>3. e = IF ~IsLast(d) THEN b
          ELSE Close(b, "EXPIRED", TotalTime(b, TimeElapsed(d, t)), Score(d.answers))
  BY DEF Expire, Close
<1> HIDE DEF b, e
<1>4. /\ Touches(d, e) /\ (e.status = IF IsLast(d) THEN "EXPIRED" ELSE "IN_PROGRESS")
      /\ e.sessions = b.sessions
      /\ IsLast(d) => e.score = Score(d.answers)
  <2>1. CASE IsLast(d)
    <3>1. /\ Touches(b, e) /\ e.status = "EXPIRED" /\ e.score = Score(d.answers)
          /\ e.sessions = b.sessions
      <4>1. Attempt(b) /\ "EXPIRED" \in Open \cup Closed
        BY <1>2 DEF Touches, Closed
      <4>2. e = Close(b, "EXPIRED", TotalTime(b, TimeElapsed(d, t)), Score(d.answers))
        BY <1>3, <2>1
      <4>3. QED
        BY <4>1, <4>2, CloseTouches
    <3>2. QED
      BY <1>2, <2>1, <3>1, TouchesTwice
  <2>2. QED
    BY <1>1, <1>2, <1>3, <2>1
<1>5. QED
  <2>1. d.status \in Open
    BY <1>1 DEF Open
  <2>2. e.status \in Closed => IsLast(d) /\ e.score = Score(d.answers)
    BY <1>4 DEF Closed
  <2>3. SessionWise(d) => /\ e.sessions[d.current].status = "EXPIRED"
                          /\ e.sessions[d.current].consumed = AllowedTime(d)
                          /\ e.status # "PAUSED"
    BY <1>2, <1>4
  <2>4. AllowedTime(d) <= AllowedTime(d) + Grace
    BY <1>1
  <2>5. "EXPIRED" \in Closed
    BY DEF Closed
  <2>6. Made(d, e, next)
    BY <1>4, <2>1, <2>2, <2>3, <2>4, <2>5, TouchIsMade
  <2>7. QED
    BY <2>6 DEF e

\* What pauseAttempt makes of a row with time left.
Paused(d, t) ==
  LET e == IF SessionWise(d)
           THEN [d EXCEPT !.status = "PAUSED",
                          !.sessions[d.current].status = "PAUSED",
                          !.sessions[d.current].consumed =
                             Smaller(TimeElapsed(d, t), AllowedTime(d))]
           ELSE [d EXCEPT !.status = "PAUSED"]
  IN [e EXCEPT !.consumed = TotalTime(e, TimeElapsed(d, t))]

\* A pause in terms of what it writes.
LEMMA PausedIs ==
  ASSUME NEW d, Attempt(d), NEW t
  PROVE  LET p == IF SessionWise(d)
                  THEN Put(d, "PAUSED", Smaller(TimeElapsed(d, t), AllowedTime(d))) ELSE d
             q == [p EXCEPT !.status = "PAUSED"]
         IN Paused(d, t) = SetTime(q, TotalTime(q, TimeElapsed(d, t)))
<1> DEFINE c == Smaller(TimeElapsed(d, t), AllowedTime(d))
           p == IF SessionWise(d) THEN Put(d, "PAUSED", c) ELSE d
           q == [p EXCEPT !.status = "PAUSED"]
<1>1. CASE SessionWise(d)
  <2>1. /\ d.current \in 1..Len(d.paper.sessions)
        /\ d.sessions[d.current] \in AnySession
        /\ d.sessions \in [1..Len(d.paper.sessions) -> AnySession]
    BY <1>1, AttemptShape DEF Attempt
  <2> DEFINE ss == [d.sessions EXCEPT ![d.current] =
                      [@ EXCEPT !.status = "PAUSED", !.consumed = c]]
  <2>2. Put(d, "PAUSED", c) = [d EXCEPT !.sessions = ss]
    BY <2>1 DEF Put, Attempt, AnySession
  <2>3. [d EXCEPT !.status = "PAUSED", !.sessions[d.current].status = "PAUSED",
                  !.sessions[d.current].consumed = c]
          = [d EXCEPT !.status = "PAUSED", !.sessions = ss]
    BY <2>1 DEF Attempt, AnySession
  <2> HIDE DEF ss
  <2>4. q = [d EXCEPT !.status = "PAUSED", !.sessions = ss]
    BY <1>1, <2>2 DEF Attempt
  <2>5. QED
    BY <1>1, <2>3, <2>4 DEF Paused, SetTime
<1>2. CASE ~SessionWise(d)
  BY <1>2 DEF Paused, SetTime
<1>3. QED
  BY <1>1, <1>2

\* A pause freezes a session that runs.
LEMMA PausedIsMade ==
  ASSUME NEW d, Attempt(d), NEW t \in Int, NEW next, d.status = "IN_PROGRESS",
         TimeElapsed(d, t) + Grace < AllowedTime(d)
  PROVE  Made(d, Paused(d, t), next)
<1> DEFINE c == Smaller(TimeElapsed(d, t), AllowedTime(d))
           p == IF SessionWise(d) THEN Put(d, "PAUSED", c) ELSE d
           q == [p EXCEPT !.status = "PAUSED"]
           e == Paused(d, t)
<1>1. AllowedTime(d) \in Int /\ Grace \in Nat
  BY AttemptShape, ConstantTypes
<1>2. Touches(d, p) /\ (SessionWise(d) => p.sessions[d.current].status = "PAUSED")
  <2>1. CASE SessionWise(d)
    <3>1. c \in Int
      BY <1>1, <2>1, ElapsedIsNumber, SmallerIsInt
    <3>2. "PAUSED" \in SessionStatus
      BY DEF SessionStatus
    <3> HIDE DEF c
    <3>3. QED
      BY <2>1, <3>1, <3>2, PutTouches
  <2>2. CASE ~SessionWise(d)
    BY <2>2 DEF Touches
  <2>3. QED
    BY <2>1, <2>2
<1>3. e = SetTime(q, TotalTime(q, TimeElapsed(d, t)))
  BY PausedIs
<1> HIDE DEF p, e
<1>4. Touches(p, q) /\ q.status = "PAUSED" /\ q.sessions = p.sessions
  <2>1. Attempt(p)
    BY <1>2 DEF Touches
  <2>2. QED
    BY <2>1 DEF Attempt, Parts, Touches, Open
<1>5. Touches(q, e) /\ e.status = "PAUSED" /\ e.sessions = p.sessions
  <2>1. Attempt(q)
    BY <1>4 DEF Touches
  <2> HIDE DEF q
  <2>2. QED
    BY <1>3, <1>4, <2>1, TimeTouches
<1>6. Touches(d, e)
  BY <1>2, <1>4, <1>5, TouchesTwice
<1>7. ASSUME SessionWise(d), InPlace(d), Timed(d)
      PROVE  d.sessions[d.current].status \notin Closed
  <2>1. d.sessions[d.current].status # "EXPIRED"
           \/ ~(AllowedTime(d) <= d.sessions[d.current].consumed + Grace)
    <3>1. d.sessions[d.current] \in AnySession
      BY <1>7, AttemptShape
    <3>2. d.sessions[d.current].consumed \in Int
      BY <3>1 DEF AnySession
    <3>3. QED
      BY <1>1, <1>7, <3>2, ElapsedIsNumber
  <2>2. QED
    BY <1>7, <2>1 DEF Timed, Closed
<1>8. QED
  <2>1. d.status \in Open /\ e.status \notin Closed
    BY <1>5 DEF Open, Closed
  <2>2. SessionWise(d) => e.sessions[d.current].status = "PAUSED"
    BY <1>2, <1>5
  <2>3. Made(d, e, next)
    BY <1>5, <1>6, <1>7, <2>1, <2>2, TouchIsMade
  <2>4. QED
    BY <2>3 DEF e

\* A resume touches the current session only.
LEMMA ResumedTouches ==
  ASSUME NEW d, Attempt(d), now \in Nat
  PROVE  LET e == Resumed(d) IN
         /\ Touches(d, e) /\ e.status = "IN_PROGRESS"
         /\ SessionWise(d) => e.sessions[d.current].status = "IN_PROGRESS"
<1> DEFINE e == Resumed(d)
           n == Len(d.paper.sessions)
           ss == [d.sessions EXCEPT ![d.current] =
                    [d.sessions[d.current] EXCEPT !.status = "IN_PROGRESS",
                                                  !.startedAt = now]]
           q == [d EXCEPT !.status = "IN_PROGRESS", !.startedAt = now]
<1>1. /\ Touches(d, q) /\ q.status = "IN_PROGRESS"
  <2>1. now \in Int /\ "IN_PROGRESS" \in Open \cup Closed
    BY DEF Open
  <2>2. /\ q \in [paper: Papers, status: Open \cup Closed, startedAt: Int,
                  consumed: {d.consumed}, current: Nat, score: {d.score},
                  answers: [Parts(d) -> {"none", "right", "wrong"}],
                  sessions: [1..Len(d.paper.sessions) -> AnySession]]
        /\ q.paper = d.paper /\ q.answers = d.answers /\ q.current = d.current
        /\ q.sessions = d.sessions /\ q.status = "IN_PROGRESS"
        /\ q.consumed = d.consumed /\ q.score = d.score
    BY <2>1 DEF Attempt
  <2> HIDE DEF q
  <2>3. QED
    BY <2>2 DEF Attempt, Parts, Touches
<1>2. /\ Touches(d, e) /\ e.status = "IN_PROGRESS"
      /\ SessionWise(d) => e.sessions[d.current].status = "IN_PROGRESS"
  <2>1. CASE SessionWise(d)
    <3>1. /\ d.current \in 1..n /\ d.sessions[d.current] \in AnySession
          /\ d.sessions \in [1..n -> AnySession]
      BY <2>1, AttemptShape DEF Attempt
    <3>2. e = [q EXCEPT !.sessions = ss]
      BY <2>1, <3>1 DEF Resumed, Attempt, AnySession
    <3>3. /\ ss \in [1..n -> AnySession] /\ ss[d.current].status = "IN_PROGRESS"
          /\ \A i \in 1..n : i # d.current => ss[i] = d.sessions[i]
      <4> DEFINE x == [d.sessions[d.current] EXCEPT !.status = "IN_PROGRESS",
                                                    !.startedAt = now]
      <4>1. x \in AnySession /\ x.status = "IN_PROGRESS"
        <5>1. "IN_PROGRESS" \in SessionStatus /\ now \in Int
          BY DEF SessionStatus
        <5>2. QED
          BY <3>1, <5>1 DEF AnySession
      <4>2. ss = [d.sessions EXCEPT ![d.current] = x]
        OBVIOUS
      <4> HIDE DEF x, ss
      <4>3. QED
        BY <3>1, <4>1, <4>2
    <3> HIDE DEF ss, q, e
    <3>4. /\ Attempt(e) /\ e.paper = q.paper /\ e.answers = q.answers
          /\ e.current = q.current /\ e.sessions = ss /\ e.status = q.status
      BY <1>1, <3>2, <3>3 DEF Attempt, Parts, Touches
    <3>5. QED
      BY <1>1, <3>3, <3>4 DEF Touches
  <2>2. CASE ~SessionWise(d)
    BY <1>1, <2>2 DEF Resumed
  <2>3. QED
    BY <2>1, <2>2
<1>3. QED
  BY <1>2

\* A resume lets a paused session run again.
LEMMA ResumedIsMade ==
  ASSUME NEW d, Attempt(d), NEW next, now \in Nat, d.status = "PAUSED"
  PROVE  Made(d, Resumed(d), next)
<1> DEFINE e == Resumed(d)
<1>2. /\ Touches(d, e) /\ e.status = "IN_PROGRESS"
      /\ SessionWise(d) => e.sessions[d.current].status = "IN_PROGRESS"
  BY ResumedTouches
<1> HIDE DEF e
<1>3. d.status \in Open /\ e.status \notin Closed
  BY <1>2 DEF Open, Closed
<1>4. ASSUME SessionWise(d), InPlace(d) PROVE d.sessions[d.current].status \notin Closed
  BY <1>4 DEF InPlace, Closed
<1>5. Made(d, e, next)
  BY <1>2, <1>3, <1>4, TouchIsMade
<1>6. QED
  BY <1>5 DEF e

\* A submit closes the paper with its last session.
LEMMA SubmittedIsMade ==
  ASSUME NEW d, Attempt(d), NEW t \in Int, NEW next, MaySubmit(d)
  PROVE  Made(d, Submitted(d, t), next)
<1> DEFINE c == Smaller(TimeElapsed(d, t), AllowedTime(d))
           v == IF \/ TimeElapsed(d, t) > AllowedTime(d)
                   \/ SessionWise(d) /\ d.sessions[d.current].status = "EXPIRED"
                THEN "EXPIRED" ELSE "SUBMITTED"
           p == IF SessionWise(d) THEN Put(d, v, c) ELSE d
           e == Submitted(d, t)
<1>1. e = Close(p, v, TotalTime(p, TimeElapsed(d, t)), Score(d.answers))
  BY DEF Submitted, Put, Close
<1>2. v \in Closed
  BY DEF Closed
<1> HIDE DEF v, e
<1>3. Touches(d, p) /\ (SessionWise(d) => p.sessions[d.current].status = v)
  <2>1. CASE SessionWise(d)
    <3>1. c \in Int
      BY <2>1, AttemptShape, ElapsedIsNumber, SmallerIsInt
    <3>2. v \in SessionStatus
      BY <1>2 DEF SessionStatus
    <3> HIDE DEF c
    <3>3. QED
      BY <2>1, <3>1, <3>2, PutTouches
  <2>2. CASE ~SessionWise(d)
    BY <2>2 DEF Touches
  <2>3. QED
    BY <2>1, <2>2
<1> HIDE DEF p
<1>4. Touches(p, e) /\ e.status = v /\ e.score = Score(d.answers) /\ e.sessions = p.sessions
  <2>1. Attempt(p) /\ v \in Open \cup Closed
    BY <1>2, <1>3 DEF Touches
  <2>2. QED
    BY <1>1, <2>1, CloseTouches
<1>5. Touches(d, e)
  BY <1>3, <1>4, TouchesTwice
<1>6. QED
  <2>1. d.status \in Open /\ IsLast(d) /\ v # "PAUSED" /\ v # "IN_PROGRESS"
    BY <1>2 DEF MaySubmit, Open, Closed
  <2>2. Made(d, e, next)
    BY <1>2, <1>3, <1>4, <1>5, <2>1, TouchIsMade
  <2>3. QED
    BY <2>2 DEF e

\* completeSession closes the current session of a paper in progress.
LEMMA CompletedTouches ==
  ASSUME NEW d, Attempt(d), SessionWise(d), now \in Nat, d.status = "IN_PROGRESS",
         d.sessions[d.current].status # "LOCKED"
  PROVE  LET e == CompletedSession(d) IN
         Touches(d, e) /\ e.status = d.status /\ e.sessions[d.current].status \in Closed
<1> DEFINE s == d.sessions[d.current].status
           c == Smaller(TimeElapsed(d, now), AllowedTime(d))
           v == IF TimeElapsed(d, now) > AllowedTime(d) THEN "EXPIRED" ELSE "SUBMITTED"
           p == Put(d, v, c)
           e == CompletedSession(d)
<1>1. s \in SessionStatus
  <2>1. d.sessions[d.current] \in AnySession
    BY AttemptShape
  <2>2. QED
    BY <2>1 DEF AnySession
<1>2. CASE s \in {"IN_PROGRESS", "PAUSED"}
  <2>1. e = SetTime(p, TotalTime(p, TimeElapsed(d, now)))
    BY <1>2 DEF CompletedSession, Put, SetTime
  <2>2. c \in Int /\ v \in SessionStatus /\ v \in Closed
    BY AttemptShape, ElapsedIsNumber, SmallerIsInt DEF SessionStatus, Closed
  <2> HIDE DEF c, v, e
  <2>3. Touches(d, p) /\ p.status = d.status /\ p.sessions[d.current].status = v
    BY <2>2, PutTouches
  <2> HIDE DEF p
  <2>4. Touches(p, e) /\ e.status = p.status /\ e.sessions = p.sessions
    BY <2>1, <2>3, TimeTouches DEF Touches
  <2>5. Touches(d, e) /\ e.status = d.status /\ e.sessions[d.current].status \in Closed
    BY <2>2, <2>3, <2>4, TouchesTwice
  <2>6. QED
    BY <2>5 DEF e
<1>3. CASE s \notin {"IN_PROGRESS", "PAUSED"}
  <2>1. e = d
    BY <1>3 DEF CompletedSession
  <2>2. s \in Closed
    BY <1>1, <1>3 DEF SessionStatus
  <2>3. QED
    BY <2>1, <2>2 DEF Touches
<1>4. QED
  BY <1>2, <1>3

\* The last session is saved as over, and the paper is submitted by what follows.
LEMMA CompletedIsMade ==
  ASSUME NEW d, Attempt(d), SessionWise(d), now \in Nat, d.status = "IN_PROGRESS",
         d.sessions[d.current].status # "LOCKED"
  PROVE  Made(d, CompletedSession(d), "submit")
<1> DEFINE e == CompletedSession(d)
<1>1. Touches(d, e) /\ e.status = d.status /\ e.sessions[d.current].status \in Closed
  BY CompletedTouches
<1> HIDE DEF e
<1>2. /\ d.status \in Open /\ e.status \notin Closed /\ e.status # "PAUSED"
      /\ e.sessions[d.current].status # "LOCKED"
  BY <1>1 DEF Open, Closed
<1>3. Made(d, e, "submit")
  BY <1>1, <1>2, TouchIsMade
<1>4. QED
  BY <1>3 DEF e

\* Another session is opened behind one that is over.
LEMMA NextIsMade ==
  ASSUME NEW d, Attempt(d), SessionWise(d), now \in Nat, d.status = "IN_PROGRESS",
         d.sessions[d.current].status # "LOCKED", ~IsLast(d), NEW next
  PROVE  Made(d, NextSession(CompletedSession(d)), next)
<1> DEFINE b == CompletedSession(d)
           e == NextSession(b)
           n == Len(d.paper.sessions)
           k == d.current + 1
           new == [status |-> "IN_PROGRESS", startedAt |-> now, consumed |-> 0]
<1>1. Touches(d, b) /\ b.status = d.status /\ b.sessions[d.current].status \in Closed
  BY CompletedTouches
<1>2. /\ n \in Nat /\ Len(d.sessions) = n /\ d.current \in 1..n /\ k \in 1..n /\ k \in Nat
      /\ n # 0 /\ Parts(d) = 1..n
  BY AttemptShape
<1>3. new \in AnySession
  BY DEF AnySession, SessionStatus
<1> HIDE DEF b, new
<1>4. e = [b EXCEPT !.current = k, !.startedAt = now,
                    !.sessions = [b.sessions EXCEPT ![k] = new]]
  <2>1. b.current = d.current /\ Attempt(b)
    BY <1>1 DEF Touches
  <2>2. QED
    BY <2>1 DEF NextSession, Attempt, new
<1> HIDE DEF e, n, k
<1>5. b.paper = d.paper /\ b.answers = d.answers /\ b.sessions \in [1..n -> AnySession]
  BY <1>1 DEF Touches, Attempt, n
<1> DEFINE ss == [b.sessions EXCEPT ![k] = new]
<1>6. /\ ss \in [1..n -> AnySession] /\ ss[k] = new
      /\ \A i \in 1..n : i # k => ss[i] = b.sessions[i]
  BY <1>2, <1>3, <1>5
<1> HIDE DEF ss
<1>7. /\ Attempt(e) /\ e.paper = d.paper /\ e.answers = d.answers /\ e.current = k
      /\ e.sessions = ss /\ e.status = "IN_PROGRESS"
  <2>1. Attempt(b) /\ b.status = "IN_PROGRESS" /\ Parts(b) = Parts(d)
    BY <1>1, <1>5 DEF Touches, Parts
  <2>2. e = [b EXCEPT !.current = k, !.startedAt = now, !.sessions = ss]
    BY <1>4 DEF ss
  <2>3. /\ e \in [paper: Papers, status: Open \cup Closed, startedAt: Int,
                  consumed: {b.consumed}, current: Nat, score: {b.score},
                  answers: [Parts(b) -> {"none", "right", "wrong"}],
                  sessions: [1..n -> AnySession]]
        /\ e.paper = b.paper /\ e.answers = b.answers /\ e.current = k
        /\ e.sessions = ss /\ e.status = "IN_PROGRESS"
        /\ e.consumed = b.consumed /\ e.score = b.score
    <3>1. /\ b \in [paper: Papers, status: Open \cup Closed, startedAt: Int,
                    consumed: {b.consumed}, current: Nat, score: {b.score},
                    answers: [Parts(b) -> {"none", "right", "wrong"}],
                    sessions: [1..n -> AnySession]]
      BY <1>5, <2>1 DEF Attempt, n
    <3>2. now \in Int /\ k \in Nat
      BY <1>2
    <3>3. QED
      BY <1>6, <2>1, <2>2, <3>1, <3>2
  <2>4. Parts(e) = Parts(d) /\ Len(e.paper.sessions) = n
    BY <1>5, <2>3 DEF Parts, n
  <2>5. Attempt(e)
    BY <1>2, <2>1, <2>3, <2>4 DEF Attempt
  <2>6. QED
    BY <1>5, <2>3, <2>5
<1>8. /\ \A i \in 1..n : i # d.current /\ i # k => ss[i] = d.sessions[i]
      /\ ss[d.current].status \in Closed /\ ss[k].status = "IN_PROGRESS"
  <2>1. d.current # k
    BY <1>2 DEF k
  <2>2. \A i \in 1..n : i # d.current => b.sessions[i] = d.sessions[i]
    BY <1>1 DEF Touches, n
  <2>3. new.status = "IN_PROGRESS"
    BY DEF new
  <2>4. QED
    BY <1>1, <1>2, <1>6, <2>1, <2>2, <2>3
<1>9. e.status \notin Closed /\ SessionWise(e) /\ Len(e.sessions) = n
  BY <1>2, <1>7, AttemptShape DEF Closed, n
<1>10. InPlace(d) => InPlace(e)
  <2> SUFFICES ASSUME InPlace(d) PROVE InPlace(e)
    OBVIOUS
  <2>1. \A i \in 1..(k - 1) : ss[i].status \in Closed
    <3> TAKE i \in 1..(k - 1)
    <3>1. i \in 1..n /\ i # k /\ (i = d.current \/ i \in 1..(d.current - 1))
      BY <1>2 DEF k
    <3>2. QED
      BY <1>8, <3>1 DEF InPlace
  <2>2. \A i \in (k + 1)..n : ss[i].status = "LOCKED"
    BY <1>2, <1>8 DEF InPlace, k
  <2>3. QED
    BY <1>7, <1>8, <1>9, <2>1, <2>2 DEF InPlace
<1>11. Timed(e) /\ Scored(e)
  BY <1>7, <1>8, <1>9 DEF Timed, Scored
<1>12. InPlace(d) => KeepsClosed(d, e)
  <2> SUFFICES ASSUME InPlace(d) PROVE KeepsClosed(d, e)
    OBVIOUS
  <2>1. d.sessions[k].status = "LOCKED"
    BY <1>2 DEF InPlace, k
  <2>2. \A i \in 1..n : d.sessions[i].status \in Closed => e.sessions[i].status \in Closed
    BY <1>7, <1>8, <2>1 DEF Closed
  <2>3. QED
    BY <2>2 DEF KeepsClosed, n
<1>13. Made(d, e, next)
  BY <1>7, <1>9, <1>10, <1>11, <1>12 DEF Made
<1>14. QED
  BY <1>13 DEF e, b

-----------------------------------------------------------------------------
\* r is row with x behind it, or with x for its element b.
IsAppended(r, x) ==
  /\ Len(r) = Len(row) + 1 /\ r[Len(row) + 1] = x
  /\ \A a \in Ids : r[a] = row[a]
  /\ r \in Seq({r[a] : a \in 1..Len(r)})
IsWritten(r, b, x) ==
  /\ Len(r) = Len(row) /\ r[b] = x
  /\ \A a \in Ids : a # b => r[a] = row[a]
  /\ r \in Seq({r[a] : a \in 1..Len(r)})

\* Appending and overwriting keep a sequence, whatever its elements are.
LEMMA RowsAreSeq ==
  ASSUME TypeInv
  PROVE  /\ Len(row) \in Nat /\ Ids = 1..Len(row) /\ DOMAIN row = Ids
         /\ \A x : IsAppended(Append(row, x), x)
         /\ \A b \in Ids : \A x : IsWritten([row EXCEPT ![b] = x], b, x)
<1>1. row \in Seq({row[a] : a \in Ids})
  BY DEF TypeInv
<1>2. Len(row) \in Nat /\ DOMAIN row = Ids /\ Ids = 1..Len(row)
  BY <1>1, LenProperties DEF Ids
<1>3. ASSUME NEW k \in Nat, NEW r, NEW S, r \in Seq(S), Len(r) = k
      PROVE  r \in Seq({r[a] : a \in 1..Len(r)})
  <2> DEFINE T == {r[a] : a \in 1..k}
  <2>1. r \in [1..k -> S]
    BY <1>3, LenProperties
  <2>2. r = [a \in 1..k |-> r[a]] /\ \A a \in 1..k : r[a] \in T
    BY <2>1
  <2> HIDE DEF T
  <2>3. r \in [1..k -> T]
    BY <2>2
  <2>4. r \in Seq(T)
    BY <2>3, FunctionIsSeq
  <2>5. QED
    BY <1>3, <2>4 DEF T
<1>4. ASSUME NEW x PROVE IsAppended(Append(row, x), x)
  <2> DEFINE S == {row[a] : a \in Ids} \cup {x}
             r == Append(row, x)
  <2>1. row \in Seq(S) /\ x \in S
    BY <1>1, SeqMonotonic
  <2> HIDE DEF S
  <2>2. /\ r \in Seq(S) /\ Len(r) = Len(row) + 1 /\ r[Len(row) + 1] = x
        /\ \A a \in 1..Len(row) : r[a] = row[a]
    BY <2>1, AppendProperties
  <2> HIDE DEF r
  <2>3. r \in Seq({r[a] : a \in 1..Len(r)})
    BY <1>2, <1>3, <2>2
  <2>4. QED
    BY <1>2, <2>2, <2>3 DEF r, IsAppended
<1>5. ASSUME NEW x, NEW b \in Ids PROVE IsWritten([row EXCEPT ![b] = x], b, x)
  <2> DEFINE S == {row[a] : a \in Ids} \cup {x}
             r == [row EXCEPT ![b] = x]
  <2>1. row \in Seq(S) /\ x \in S /\ b \in 1..Len(row)
    BY <1>1, <1>2, SeqMonotonic
  <2> HIDE DEF S
  <2>2. /\ r \in Seq(S) /\ Len(r) = Len(row)
        /\ \A a \in 1..Len(row) : r[a] = IF a = b THEN x ELSE row[a]
    BY <2>1, ExceptSeq
  <2> HIDE DEF r
  <2>3. r \in Seq({r[a] : a \in 1..Len(r)})
    BY <1>2, <1>3, <2>2
  <2>4. QED
    BY <1>2, <2>1, <2>2, <2>3 DEF r, IsWritten
<1>6. QED
  BY <1>2, <1>4, <1>5

\* A save leaves an attempt, of the same paper.
LEMMA MergeShape ==
  ASSUME NEW c, Attempt(c), NEW d, Attempt(d), NEW e, Attempt(e), NEW whole \in BOOLEAN,
         c.paper = d.paper, e.paper = d.paper
  PROVE  LET m == Merge(d, e, c, whole) IN
         /\ Attempt(m) /\ m.paper = c.paper
         /\ c = d /\ e.answers = d.answers =>
              /\ m.status = e.status /\ m.current = e.current /\ m.score = e.score
              /\ m.answers = e.answers /\ m.sessions = e.sessions
<1> DEFINE n == Len(c.paper.sessions)
           m == Merge(d, e, c, whole)
<1>1. /\ n \in Nat /\ DOMAIN c.sessions = 1..n /\ Parts(d) = Parts(c) /\ Parts(e) = Parts(c)
      /\ \A i \in 1..n : /\ c.sessions[i] \in AnySession
                         /\ d.sessions[i] \in AnySession
                         /\ e.sessions[i] \in AnySession
  <2>1. n \in Nat /\ DOMAIN c.sessions = 1..n /\ \A i \in 1..n : c.sessions[i] \in AnySession
    BY AttemptShape
  <2>2. \A i \in 1..n : d.sessions[i] \in AnySession
    BY AttemptShape
  <2>3. \A i \in 1..n : e.sessions[i] \in AnySession
    BY AttemptShape
  <2>4. QED
    BY <2>1, <2>2, <2>3 DEF Parts
<1>2. \A x, y : Pick(x, y, x) = y /\ \A z : Pick(x, y, z) \in {y, z}
  BY DEF Pick
<1>3. /\ m.sessions \in [1..n -> AnySession]
      /\ c = d => m.sessions = e.sessions
  <2> DEFINE f(i) == [status |-> Pick(d.sessions[i].status, e.sessions[i].status,
                                      c.sessions[i].status),
                      startedAt |-> Pick(d.sessions[i].startedAt, e.sessions[i].startedAt,
                                         c.sessions[i].startedAt),
                      consumed |-> Pick(d.sessions[i].consumed, e.sessions[i].consumed,
                                        c.sessions[i].consumed)]
  <2>1. m.sessions = [i \in 1..n |-> f(i)]
    BY <1>1 DEF Merge
  <2>2. ASSUME NEW i \in 1..n PROVE f(i) \in AnySession /\ (c = d => f(i) = e.sessions[i])
    BY <1>1, <1>2 DEF AnySession
  <2> HIDE DEF f
  <2>3. e.sessions = [i \in 1..n |-> e.sessions[i]]
    BY DEF Attempt
  <2>4. QED
    BY <2>1, <2>2, <2>3
<1>4. /\ m.paper = c.paper /\ m.status = Pick(d.status, e.status, c.status)
      /\ m.startedAt = Pick(d.startedAt, e.startedAt, c.startedAt)
      /\ m.current = Pick(d.current, e.current, c.current)
      /\ m.score = Pick(d.score, e.score, c.score)
      /\ m.answers = IF whole THEN e.answers ELSE c.answers
      /\ m = [paper |-> m.paper, status |-> m.status, startedAt |-> m.startedAt,
              consumed |-> m.consumed, current |-> m.current, score |-> m.score,
              answers |-> m.answers, sessions |-> m.sessions]
  BY DEF Merge
<1> HIDE DEF m
<1>5. /\ m.paper \in Papers /\ m.status \in Open \cup Closed /\ m.startedAt \in Int
      /\ m.current \in Nat /\ m.current \in Parts(c)
      /\ m.answers \in [Parts(c) -> {"none", "right", "wrong"}]
  <2>1. m.status \in {e.status, c.status} /\ m.startedAt \in {e.startedAt, c.startedAt}
        /\ m.current \in {e.current, c.current} /\ m.answers \in {e.answers, c.answers}
    BY <1>2, <1>4
  <2>2. QED
    BY <1>1, <1>4, <2>1 DEF Attempt
<1>6. Attempt(m)
  <2>1. Parts(m) = Parts(c) /\ Len(m.paper.sessions) = n
    BY <1>4 DEF Parts
  <2>2. QED
    BY <1>3, <1>4, <1>5, <2>1 DEF Attempt
<1>7. c = d /\ e.answers = d.answers =>
              /\ m.status = e.status /\ m.current = e.current /\ m.score = e.score
              /\ m.answers = e.answers /\ m.sessions = e.sessions
  BY <1>2, <1>3, <1>4
<1>8. QED
  BY <1>4, <1>6, <1>7 DEF m

\* Where a row stands depends on its paper, status, place and sessions.
LEMMA StandsAlike ==
  ASSUME NEW d, NEW e, Attempt(d), Attempt(e), d.paper = e.paper, d.status = e.status,
         d.current = e.current, d.sessions = e.sessions
  PROVE  (InPlace(d) <=> InPlace(e)) /\ (Timed(d) <=> Timed(e))
<1>1. /\ SessionWise(d) <=> SessionWise(e)
      /\ IsLast(d) <=> IsLast(e)
      /\ AllowedTime(d) = AllowedTime(e)
  BY DEF SessionWise, IsLast, AllowedTime, Duration
<1>2. QED
  BY <1>1 DEF InPlace, Timed

\* A handler with something to save.
LEMMA SavingIsSound ==
  ASSUME NEW a \in Ids, NEW d, NEW e, NEW next \in {"end", "create", "submit"},
         Attempt(d), d.status \in Open, row[a].paper = d.paper, Made(d, e, next)
  PROVE  LET s == Saving(a, d, e, next) IN SlotShape(s) /\ Sound(s) /\ Placed(s)
<1> DEFINE s == Saving(a, d, e, next)
<1>1. /\ s = [at |-> "save", a |-> a, read |-> d, write |-> e, whole |-> FALSE,
              next |-> next]
  BY DEF Saving
<1>2. /\ s.at = "save" /\ s.a = a /\ s.read = d /\ s.write = e /\ s.next = next
      /\ s.whole = FALSE
  BY <1>1
<1>3. SlotShape(s)
  BY <1>1, <1>2 DEF SlotShape
<1> HIDE DEF s
<1>4. Sound(s) /\ Placed(s)
  BY <1>2 DEF Sound, Placed
<1>5. QED
  BY <1>3, <1>4 DEF s

\* A handler that is over, or goes on to create a row.
LEMMA RestIsSound ==
  ASSUME NEW s, s.at \in {"idle", "create"}
  PROVE  SlotShape(s) /\ Sound(s) /\ Placed(s)
  BY DEF SlotShape, Sound, Placed

\* The other handlers keep what they hold while rows keep their papers.
LEMMA SlotsKept ==
  ASSUME IInv, NEW w \in Slots, NEW s, slot' = [slot EXCEPT ![w] = s],
         SlotShape(s), Sound(s), Placed(s)', Len(row') \in Nat, Len(row') >= Len(row),
         \A a \in Ids : row'[a].paper = row[a].paper
  PROVE  SlotsInv' /\ DOMAIN slot' = Slots
<1>1. DOMAIN slot = Slots
  BY DEF IInv, TypeInv
<1>2. slot'[w] = s /\ \A v \in Slots : v # w => slot'[v] = slot[v]
  BY <1>1
<1>3. \A a \in Ids : a \in Ids'
  BY RowsAreSeq DEF IInv, Ids
<1>4. ASSUME NEW v \in Slots PROVE (SlotShape(slot[v]) /\ Sound(slot[v]) /\ Placed(slot[v]))'
  <2>1. CASE v = w
    BY <1>2, <2>1 DEF Placed
  <2>2. CASE v # w
    <3>1. SlotShape(slot[v]) /\ Sound(slot[v]) /\ Placed(slot[v]) /\ slot'[v] = slot[v]
      BY <1>2, <2>2 DEF IInv, SlotsInv
    <3>2. Placed(slot[v])'
      BY <1>3, <3>1 DEF Placed
    <3>3. QED
      BY <3>1, <3>2
  <2>3. QED
    BY <2>1, <2>2
<1>5. QED
  BY <1>1, <1>4 DEF SlotsInv

\* A handler that only decides changes nothing but its slot.
LEMMA EnterKeeps ==
  ASSUME IInv, NEW w \in Slots, NEW s, Enter(w, s), SlotShape(s), Sound(s), Placed(s)
  PROVE  IInv' /\ row' = row
<1>1. /\ slot' = [slot EXCEPT ![w] = s] /\ row' = row /\ now' = now
      /\ raced' = raced /\ halfDone' = halfDone
  BY DEF Enter, history
<1>2. SlotsInv' /\ DOMAIN slot' = Slots
  <2>1. Placed(s)' /\ Len(row') \in Nat /\ Len(row') >= Len(row)
    BY <1>1, RowsAreSeq DEF Placed, Ids, IInv
  <2>2. QED
    BY <1>1, <2>1, SlotsKept
<1>3. TypeInv'
  BY <1>1, <1>2 DEF IInv, TypeInv, Ids
<1>4. RowsInv'
  BY <1>1 DEF IInv, RowsInv, Ids
<1>5. QED
  BY <1>1, <1>2, <1>3, <1>4 DEF IInv

\* The handlers that fetch an open row and make something of it.
LEMMA FetchKeeps ==
  ASSUME IInv, NEW w \in Slots, NEW a \in Ids, NEW e,
         NEW next \in {"end", "create", "submit"}, row[a].status \in Open,
         Made(row[a], e, next), Enter(w, Saving(a, row[a], e, next))
  PROVE  IInv' /\ row' = row
<1>1. Attempt(row[a])
  BY DEF IInv, TypeInv
<1> DEFINE s == Saving(a, row[a], e, next)
<1>2. SlotShape(s) /\ Sound(s) /\ Placed(s)
  BY <1>1, SavingIsSound
<1> HIDE DEF s
<1>3. Enter(w, s)
  BY DEF s
<1>4. QED
  BY <1>2, <1>3, EnterKeeps

\* The steps that fetch.
LEMMA DecidingKeeps ==
  ASSUME IInv, NEW w \in Slots,
         \/ StartCheck(w) \/ CompleteSubmit(w)
         \/ \E a \in Ids : \/ PauseFetch(w, a) \/ ResumeFetch(w, a) \/ ViewFetch(w, a)
                           \/ SubmitFetch(w, a, "idle") \/ CompleteFetch(w, a)
                           \/ \E x \in Answers : AnswerFetch(w, a, x)
                                                 \/ SubmitWithAnswer(w, a, x)
  PROVE  IInv' /\ row' = row
<1>0. /\ now \in Nat /\ now \in Int /\ \A a \in Ids : Attempt(row[a])
      /\ \A n \in {"end", "create", "submit"} : n \in {"end", "create", "submit"}
  BY DEF IInv, TypeInv
<1>1. ASSUME NEW a \in Ids, NEW next \in {"end", "create"}, Overdue(row[a], now),
             Enter(w, Saving(a, row[a], Expire(row[a], now), next))
      PROVE  IInv' /\ row' = row
  <2>1. Made(row[a], Expire(row[a], now), next)
    BY <1>0, <1>1, ExpireIsMade
  <2>2. row[a].status \in Open
    BY <1>1 DEF Overdue, Open
  <2>3. next \in {"end", "create", "submit"}
    BY <1>1
  <2>4. QED
    BY <1>1, <2>1, <2>2, <2>3, FetchKeeps
<1>2. ASSUME StartCheck(w) PROVE IInv' /\ row' = row
  <2>1. CASE Enter(w, [at |-> "create"])
    <3> DEFINE s == [at |-> "create"]
    <3>1. SlotShape(s) /\ Sound(s) /\ Placed(s)
      BY RestIsSound
    <3> HIDE DEF s
    <3>2. Enter(w, s)
      BY <2>1 DEF s
    <3>3. QED
      BY <3>1, <3>2, EnterKeeps
  <2>2. ASSUME NEW a \in Ids, Overdue(row[a], now),
               Enter(w, Saving(a, row[a], Expire(row[a], now),
                           IF FullyExpires(row[a], now) THEN "create" ELSE "end"))
        PROVE  IInv' /\ row' = row
    <3> DEFINE next == IF FullyExpires(row[a], now) THEN "create" ELSE "end"
    <3>1. next \in {"end", "create"}
      OBVIOUS
    <3>2. Enter(w, Saving(a, row[a], Expire(row[a], now), next))
      BY <2>2
    <3> HIDE DEF next
    <3>3. QED
      BY <1>1, <2>2, <3>1, <3>2
  <2>3. QED
    BY <1>2, <2>1, <2>2 DEF StartCheck
<1>3. ASSUME NEW a \in Ids, PauseFetch(w, a) PROVE IInv' /\ row' = row
  <2>1. /\ row[a].status = "IN_PROGRESS"
        /\ TimeElapsed(row[a], now) + Grace < AllowedTime(row[a])
        /\ Enter(w, Saving(a, row[a], Paused(row[a], now), "end"))
    BY <1>3 DEF PauseFetch, Paused
  <2>2. Made(row[a], Paused(row[a], now), "end")
    BY <1>0, <2>1, PausedIsMade
  <2>3. row[a].status \in Open
    BY <2>1 DEF Open
  <2>4. QED
    BY <1>0, <2>1, <2>2, <2>3, FetchKeeps
<1>4. ASSUME NEW a \in Ids, ResumeFetch(w, a) PROVE IInv' /\ row' = row
  <2>1. CASE Overdue(row[a], now) /\ Enter(w, Saving(a, row[a], Expire(row[a], now), "end"))
    BY <1>1, <2>1
  <2>2. CASE row[a].status = "PAUSED" /\ Enter(w, Saving(a, row[a], Resumed(row[a]), "end"))
    <3>1. Made(row[a], Resumed(row[a]), "end")
      BY <1>0, <2>2, ResumedIsMade
    <3>2. row[a].status \in Open
      BY <2>2 DEF Open
    <3>3. QED
      BY <1>0, <2>2, <3>1, <3>2, FetchKeeps
  <2>3. QED
    BY <1>4, <2>1, <2>2 DEF ResumeFetch
<1>5. ASSUME NEW a \in Ids, ViewFetch(w, a) PROVE IInv' /\ row' = row
  BY <1>1, <1>5 DEF ViewFetch
<1>6. ASSUME NEW a \in Ids, NEW at, SubmitFetch(w, a, at) PROVE IInv' /\ row' = row
  <2>1. MaySubmit(row[a]) /\ Enter(w, Saving(a, row[a], Submitted(row[a], now), "end"))
    BY <1>6 DEF SubmitFetch
  <2>2. Made(row[a], Submitted(row[a], now), "end")
    BY <1>0, <2>1, SubmittedIsMade
  <2>3. row[a].status \in Open
    BY <2>1 DEF Open, MaySubmit
  <2>4. QED
    BY <1>0, <2>1, <2>2, <2>3, FetchKeeps
<1>7. ASSUME NEW a \in Ids, CompleteFetch(w, a) PROVE IInv' /\ row' = row
  <2> DEFINE d == row[a]
  <2>1. /\ SessionWise(d) /\ d.status = "IN_PROGRESS" /\ d.status \in Open
        /\ d.sessions[d.current].status # "LOCKED"
        /\ \/ Enter(w, Saving(a, d, CompletedSession(d), "submit"))
           \/ ~IsLast(d) /\ Enter(w, Saving(a, d, NextSession(CompletedSession(d)), "end"))
    BY <1>7 DEF CompleteFetch, Open
  <2>2. CASE Enter(w, Saving(a, d, CompletedSession(d), "submit"))
    <3>1. Made(d, CompletedSession(d), "submit")
      BY <1>0, <2>1, CompletedIsMade
    <3>2. QED
      BY <1>0, <2>1, <2>2, <3>1, FetchKeeps
  <2>3. CASE ~IsLast(d) /\ Enter(w, Saving(a, d, NextSession(CompletedSession(d)), "end"))
    <3>1. Made(d, NextSession(CompletedSession(d)), "end")
      BY <1>0, <2>1, <2>3, NextIsMade
    <3>2. QED
      BY <1>0, <2>1, <2>3, <3>1, FetchKeeps
  <2>4. QED
    BY <2>1, <2>2, <2>3
<1>8. ASSUME NEW a \in Ids, NEW x \in Answers, NEW next \in {"end", "refetch"},
             row[a].status = "IN_PROGRESS", next = "refetch" => MaySubmit(row[a]),
             Enter(w, [at |-> "answer", a |-> a, read |-> row[a], answer |-> x,
                       next |-> next, t |-> now])
      PROVE  IInv' /\ row' = row
  <2> DEFINE s == [at |-> "answer", a |-> a, read |-> row[a], answer |-> x,
                   next |-> next, t |-> now]
  <2>1. /\ s.at = "answer" /\ s.a = a /\ s.read = row[a] /\ s.next = next
        /\ SlotShape(s) /\ Enter(w, s)
    BY <1>0, <1>8 DEF SlotShape
  <2> HIDE DEF s
  <2>2. row[a].status \in Open
    BY <1>8 DEF Open
  <2>3. Sound(s) /\ Placed(s)
    BY <1>0, <1>8, <2>1, <2>2 DEF Sound, Placed
  <2>4. QED
    BY <2>1, <2>3, EnterKeeps
<1>9. ASSUME NEW a \in Ids, NEW x \in Answers,
             AnswerFetch(w, a, x) \/ SubmitWithAnswer(w, a, x)
      PROVE  IInv' /\ row' = row
  <2>1. CASE AnswerFetch(w, a, x)
    <3>1. /\ row[a].status = "IN_PROGRESS"
          /\ Enter(w, [at |-> "answer", a |-> a, read |-> row[a], answer |-> x,
                       next |-> "end", t |-> now])
      BY <2>1 DEF AnswerFetch
    <3>2. "end" \in {"end", "refetch"} /\ "end" # "refetch"
      OBVIOUS
    <3>3. QED
      BY <1>8, <3>1, <3>2
  <2>2. CASE SubmitWithAnswer(w, a, x)
    <3>1. /\ MaySubmit(row[a]) /\ row[a].status = "IN_PROGRESS"
          /\ Enter(w, [at |-> "answer", a |-> a, read |-> row[a], answer |-> x,
                       next |-> "refetch", t |-> now])
      BY <2>2 DEF SubmitWithAnswer, MaySubmit
    <3>2. "refetch" \in {"end", "refetch"}
      OBVIOUS
    <3>3. QED
      BY <1>8, <3>1, <3>2
  <2>3. QED
    BY <1>9, <2>1, <2>2
<1>10. ASSUME CompleteSubmit(w) PROVE IInv' /\ row' = row
  <2>1. slot[w].a \in Ids
    BY <1>10 DEF CompleteSubmit, IInv, SlotsInv, Placed
  <2>2. CASE SubmitFetch(w, slot[w].a, "submit")
    BY <1>6, <2>1, <2>2
  <2>3. CASE Enter(w, Idle)
    <3>1. SlotShape(Idle) /\ Sound(Idle) /\ Placed(Idle)
      BY RestIsSound DEF Idle
    <3>2. QED
      BY <2>3, <3>1, EnterKeeps
  <2>4. QED
    BY <1>10, <2>2, <2>3 DEF CompleteSubmit
<1>11. QED
  BY <1>2, <1>3, <1>4, <1>5, <1>6, <1>7, <1>9, <1>10

\* The steps that write one row: the row keeps its paper and its shape, and what it
\* says stays true unless it is saved over a change.
LEMMA WritingKeeps ==
  ASSUME IInv, NEW w \in Slots, NEW s, NEW b \in Ids, NEW m,
         row' = [row EXCEPT ![b] = m], slot' = [slot EXCEPT ![w] = s], now' = now,
         SlotShape(s), Sound(s), s.at \in {"idle", "create", "submit", "refetch"},
         s.at \in {"submit", "refetch"} => s.a = b,
         s.at = "refetch" => row[b].paper = s.read.paper,
         Attempt(m), m.paper = row[b].paper, raced \subseteq raced',
         \A a \in Ids : a # b => (a \in halfDone <=> a \in halfDone'),
         b \notin raced' => InPlace(m) /\ Scored(m),
         b \notin raced' /\ b \notin halfDone' => Timed(m)
  PROVE  IInv'
<1>1. /\ Len(row') = Len(row) /\ row'[b] = m /\ Len(row) \in Nat
      /\ \A a \in Ids : a # b => row'[a] = row[a]
      /\ row' \in Seq({row'[a] : a \in 1..Len(row')})
      /\ Ids' = Ids /\ Ids = 1..Len(row)
  <2>1. TypeInv
    BY DEF IInv
  <2>2. /\ Len(row) \in Nat /\ Ids = 1..Len(row) /\ IsWritten(row', b, m)
    BY <2>1, RowsAreSeq
  <2>3. QED
    BY <2>2 DEF IsWritten, Ids
<1>2. \A a \in Ids : row'[a].paper = row[a].paper
  BY <1>1
<1>3. Placed(s)'
  BY <1>1 DEF Placed
<1>4. SlotsInv' /\ DOMAIN slot' = Slots
  <2>1. Len(row') \in Nat /\ Len(row') >= Len(row)
    BY <1>1
  <2>2. QED
    BY <1>2, <1>3, <2>1, SlotsKept
<1>5. TypeInv'
  BY <1>1, <1>4 DEF IInv, TypeInv, Ids
<1>6. RowsInv'
  <2>1. ASSUME NEW a \in Ids, a \notin raced' PROVE InPlace(row'[a]) /\ Scored(row'[a])
    BY <1>1, <2>1 DEF IInv, RowsInv
  <2>2. ASSUME NEW a \in Ids, a \notin raced', a \notin halfDone' PROVE Timed(row'[a])
    BY <1>1, <2>2 DEF IInv, RowsInv
  <2>3. QED
    BY <1>1, <2>1, <2>2 DEF RowsInv
<1>7. QED
  BY <1>4, <1>5, <1>6 DEF IInv

\* What a handler that holds a row may rely on.
LEMMA HeldShape ==
  ASSUME IInv, NEW w \in Slots, slot[w].at \in {"answer", "refetch", "save"}
  PROVE  LET s == slot[w] IN
         /\ SlotShape(s) /\ Sound(s)
         /\ s.a \in Ids /\ Attempt(s.read) /\ s.read.status \in Open
         /\ row[s.a].paper = s.read.paper /\ Attempt(row[s.a])
  BY DEF IInv, SlotsInv, Sound, Placed, TypeInv

\* An answer in its place.
Answered(d, k, x) == [d EXCEPT !.answers[k] = x]

\* An answer changes nothing else.
LEMMA AnsweredShape ==
  ASSUME NEW d, Attempt(d), NEW k \in Parts(d), NEW x \in Answers
  PROVE  LET e == Answered(d, k, x) IN
         /\ Attempt(e) /\ e.paper = d.paper /\ e.status = d.status
         /\ e.current = d.current /\ e.sessions = d.sessions
<1> DEFINE as == [d.answers EXCEPT ![k] = x]
<1>1. as \in [Parts(d) -> {"none", "right", "wrong"}]
  BY AnswersAreKnown DEF Attempt
<1>2. Answered(d, k, x) = [d EXCEPT !.answers = as]
  BY DEF Answered, Attempt
<1> HIDE DEF as
<1>3. QED
  BY <1>1, <1>2 DEF Attempt, Parts

\* What the write of an answer leaves of the row and the slot.
LEMMA AnswerWrite ==
  ASSUME IInv, NEW w \in Slots, WriteAnswer(w)
  PROVE  LET s == slot[w]
             m == Answered(row[s.a], s.read.current, s.answer)
         IN /\ row' = [row EXCEPT ![s.a] = m]
            /\ s.a \in Ids /\ Attempt(m) /\ m.paper = row[s.a].paper
            /\ m.status = row[s.a].status /\ m.current = row[s.a].current
            /\ m.sessions = row[s.a].sessions
            /\ s.a \notin raced' => row[s.a] = s.read
            /\ raced \subseteq raced' /\ s.read.status \in Open
<1> DEFINE s == slot[w]
           m == Answered(row[s.a], s.read.current, s.answer)
<1>1. s.at = "answer" /\ s.at \in {"answer", "refetch", "save"}
  BY DEF WriteAnswer
<1>2. /\ SlotShape(s) /\ s.a \in Ids /\ Attempt(s.read) /\ s.read.status \in Open
      /\ row[s.a].paper = s.read.paper /\ Attempt(row[s.a])
  BY <1>1, HeldShape
<1>3. s.answer \in Answers
  BY <1>1, <1>2 DEF SlotShape
<1>4. s.read.current \in Parts(row[s.a])
  BY <1>2 DEF Attempt, Parts
<1>5. row' = [row EXCEPT ![s.a] = m]
  <2>1. DOMAIN row = Ids
    BY RowsAreSeq DEF IInv
  <2>2. row' = [row EXCEPT ![s.a].answers[s.read.current] = s.answer]
    BY DEF WriteAnswer
  <2>3. QED
    BY <2>1, <2>2 DEF Answered
<1>6. raced' = IF row[s.a] = s.read THEN raced ELSE raced \cup {s.a}
  BY DEF WriteAnswer
<1>7. /\ Attempt(m) /\ m.paper = row[s.a].paper
      /\ m.status = row[s.a].status /\ m.current = row[s.a].current
      /\ m.sessions = row[s.a].sessions
  BY <1>2, <1>3, <1>4, AnsweredShape
<1> HIDE DEF m
<1>8. QED
  BY <1>2, <1>5, <1>6, <1>7 DEF m

\* updateOne on the question.
LEMMA WriteAnswerKeeps ==
  ASSUME IInv, NEW w \in Slots, WriteAnswer(w)
  PROVE  IInv'
<1> DEFINE s == slot[w]
           m == Answered(row[s.a], s.read.current, s.answer)
           r == IF s.next = "end" THEN Idle ELSE [s EXCEPT !.at = "refetch"]
<1>1. /\ row' = [row EXCEPT ![s.a] = m]
      /\ s.a \in Ids /\ Attempt(m) /\ m.paper = row[s.a].paper
      /\ m.status = row[s.a].status /\ m.current = row[s.a].current
      /\ m.sessions = row[s.a].sessions
      /\ s.a \notin raced' => row[s.a] = s.read
      /\ raced \subseteq raced' /\ s.read.status \in Open
  BY AnswerWrite
<1>2. /\ s.at = "answer" /\ s.at \in {"answer", "refetch", "save"}
      /\ slot' = [slot EXCEPT ![w] = r] /\ now' = now /\ halfDone' = halfDone
  BY DEF WriteAnswer
<1>3. SlotShape(s) /\ Sound(s) /\ Attempt(row[s.a]) /\ row[s.a].paper = s.read.paper
  BY <1>2, HeldShape
<1>4. /\ SlotShape(r) /\ Sound(r) /\ r.at \in {"idle", "create", "submit", "refetch"}
      /\ r.at \in {"submit", "refetch"} => r.a = s.a
      /\ r.at = "refetch" => r.read = s.read
  <2>1. CASE s.next = "end"
    BY <2>1, RestIsSound DEF Idle
  <2>2. CASE s.next # "end"
    <3>1. s \in [at: {"answer", "refetch"}, a: {s.a}, read: {s.read}, answer: Answers,
                 next: {"end", "refetch"}, t: Int]
      BY <1>2, <1>3 DEF SlotShape
    <3>2. r = [s EXCEPT !.at = "refetch"]
      BY <2>2
    <3> HIDE DEF r, s
    <3>3. /\ r \in [at: {"answer", "refetch"}, a: {s.a}, read: {s.read}, answer: Answers,
                    next: {"end", "refetch"}, t: Int]
          /\ r.at = "refetch" /\ r.a = s.a /\ r.read = s.read /\ r.next = s.next
          /\ s.next = "refetch"
      BY <2>2, <3>1, <3>2
    <3>4. SlotShape(r)
      BY <3>3 DEF SlotShape
    <3>5. Sound(r)
      BY <1>2, <1>3, <3>3 DEF Sound
    <3>6. QED
      BY <3>3, <3>4, <3>5
  <2>3. QED
    BY <2>1, <2>2
<1> HIDE DEF m, r
<1>5. s.a \notin raced' => InPlace(m) /\ Scored(m)
  <2> SUFFICES ASSUME s.a \notin raced' PROVE InPlace(m) /\ Scored(m)
    OBVIOUS
  <2>1. InPlace(row[s.a])
    BY <1>1 DEF IInv, RowsInv
  <2>2. m.status \notin Closed
    BY <1>1 DEF Open, Closed
  <2>3. QED
    BY <1>1, <1>3, <2>1, <2>2, StandsAlike DEF Scored
<1>6. s.a \notin raced' /\ s.a \notin halfDone' => Timed(m)
  <2> SUFFICES ASSUME s.a \notin raced', s.a \notin halfDone' PROVE Timed(m)
    OBVIOUS
  <2>1. Timed(row[s.a])
    BY <1>1, <1>2 DEF IInv, RowsInv
  <2>2. QED
    BY <1>1, <1>3, <2>1, StandsAlike
<1> HIDE DEF s
<1>7. r.at = "refetch" => row[s.a].paper = r.read.paper
  BY <1>3, <1>4
<1>8. QED
  BY <1>1, <1>2, <1>4, <1>5, <1>6, <1>7, WritingKeeps

\* A save over the row that was fetched leaves what the handler has made of it.
LEMMA SaveUnraced ==
  ASSUME IInv, NEW w \in Slots, Save(w)
  PROVE  LET s == slot[w]
             d == s.read
             e == s.write
             m == Merge(d, e, row[s.a], s.whole)
         IN /\ row' = [row EXCEPT ![s.a] = m] /\ s.a \in Ids
            /\ Attempt(m) /\ m.paper = row[s.a].paper
            /\ d.status \in Open /\ Made(d, e, s.next)
            /\ raced \subseteq raced'
            /\ s.a \notin raced' =>
                 /\ row[s.a] = d /\ Scored(m)
                 /\ m.status = e.status /\ m.sessions = e.sessions
                 /\ (InPlace(m) <=> InPlace(e)) /\ (Timed(m) <=> Timed(e))
<1> DEFINE s == slot[w]
           d == s.read
           e == s.write
           m == Merge(d, e, row[s.a], s.whole)
<1>1. /\ s.at = "save" /\ s.at \in {"answer", "refetch", "save"}
      /\ row' = [row EXCEPT ![s.a] = m]
      /\ raced' = IF row[s.a] = d THEN raced ELSE raced \cup {s.a}
  BY DEF Save
<1>2. /\ SlotShape(s) /\ Sound(s) /\ s.a \in Ids /\ Attempt(d) /\ d.status \in Open
      /\ row[s.a].paper = d.paper /\ Attempt(row[s.a])
  BY <1>1, HeldShape
<1>3. s.whole \in BOOLEAN
  BY <1>1, <1>2 DEF SlotShape
<1>4. Made(d, e, s.next)
  BY <1>1, <1>2 DEF Sound
<1>5. Attempt(e) /\ e.paper = d.paper /\ e.answers = d.answers /\ Scored(e)
  BY <1>4 DEF Made
<1> DEFINE c == row[s.a]
<1> HIDE DEF d, e, c
<1>6. /\ Attempt(m) /\ m.paper = c.paper
      /\ c = d => /\ m.status = e.status /\ m.current = e.current /\ m.score = e.score
                  /\ m.answers = e.answers /\ m.sessions = e.sessions
  <2>1. Attempt(c) /\ c.paper = d.paper
    BY <1>2 DEF c
  <2>2. m = Merge(d, e, c, s.whole)
    BY DEF c
  <2>3. QED
    BY <1>2, <1>3, <1>5, <2>1, <2>2, MergeShape
<1> HIDE DEF m
<1>7. ASSUME c = d
      PROVE  Scored(m) /\ (InPlace(m) <=> InPlace(e)) /\ (Timed(m) <=> Timed(e))
  <2>1. m.paper = e.paper
    BY <1>2, <1>5, <1>6 DEF c
  <2>2. QED
    BY <1>5, <1>6, <1>7, <2>1, StandsAlike DEF Scored
<1>8. s.a \notin raced' => c = d
  BY <1>1 DEF c
<1>9. QED
  BY <1>1, <1>2, <1>4, <1>6, <1>7, <1>8 DEF c, d, e, m

\* save().
LEMMA SaveKeeps ==
  ASSUME IInv, NEW w \in Slots, Save(w)
  PROVE  IInv'
<1> DEFINE s == slot[w]
           d == s.read
           e == s.write
           m == Merge(d, e, row[s.a], s.whole)
           r == IF s.next = "create" THEN [at |-> "create"]
                ELSE IF s.next = "submit" THEN [at |-> "submit", a |-> s.a]
                ELSE Idle
<1>1. /\ row' = [row EXCEPT ![s.a] = m] /\ s.a \in Ids
      /\ Attempt(m) /\ m.paper = row[s.a].paper
      /\ d.status \in Open /\ Made(d, e, s.next)
      /\ raced \subseteq raced'
      /\ s.a \notin raced' =>
           /\ row[s.a] = d /\ Scored(m)
           /\ m.status = e.status /\ m.sessions = e.sessions
           /\ (InPlace(m) <=> InPlace(e)) /\ (Timed(m) <=> Timed(e))
  BY SaveUnraced
<1>2. /\ slot' = [slot EXCEPT ![w] = r] /\ now' = now
      /\ halfDone' = IF s.next = "submit" THEN halfDone \cup {s.a}
                     ELSE IF e.status \in Closed THEN halfDone \ {s.a}
                     ELSE halfDone
  BY DEF Save
<1>3. /\ SlotShape(r) /\ Sound(r) /\ r.at \in {"idle", "create", "submit", "refetch"}
      /\ r.at \in {"submit", "refetch"} => r.a = s.a
      /\ r.at # "refetch"
  BY DEF SlotShape, Sound, Idle
<1>4. s.a \notin raced' => InPlace(m) /\ Scored(m)
  <2> SUFFICES ASSUME s.a \notin raced' PROVE InPlace(m)
    BY <1>1
  <2>1. InPlace(d)
    BY <1>1 DEF IInv, RowsInv
  <2>2. QED
    BY <1>1, <2>1 DEF Made
<1>5. s.a \notin raced' /\ s.a \notin halfDone' => Timed(m)
  <2> SUFFICES ASSUME s.a \notin raced', s.a \notin halfDone' PROVE Timed(e)
    BY <1>1
  <2>1. s.next # "submit"
    BY <1>2
  <2>2. CASE s.a \in halfDone
    <3>1. e.status \in Closed
      BY <1>2, <2>2
    <3>2. QED
      BY <3>1 DEF Timed, Closed
  <2>3. CASE s.a \notin halfDone
    <3>1. InPlace(d) /\ Timed(d)
      BY <1>1, <2>3 DEF IInv, RowsInv
    <3>2. QED
      BY <1>1, <2>1, <3>1 DEF Made
  <2>4. QED
    BY <2>2, <2>3
<1>6. \A a \in Ids : a # s.a => (a \in halfDone <=> a \in halfDone')
  BY <1>2
<1> HIDE DEF s, d, e, m, r
<1>7. QED
  BY <1>1, <1>2, <1>3, <1>4, <1>5, <1>6, WritingKeeps

\* The second read of a submit: the answers are those stored now.
LEMMA RefetchKeeps ==
  ASSUME IInv, NEW w \in Slots, SubmitRefetch(w)
  PROVE  IInv' /\ row' = row
<1> DEFINE s == slot[w]
           as == row[s.a].answers
           d == [s.read EXCEPT !.answers = as]
           r == [Saving(s.a, d, Submitted(d, s.t), "end") EXCEPT !.whole = TRUE]
<1>1. /\ s.at = "refetch" /\ s.at \in {"answer", "refetch", "save"}
      /\ slot' = [slot EXCEPT ![w] = r] /\ raced \subseteq raced'
      /\ row' = row /\ now' = now /\ halfDone' = halfDone
  BY DEF SubmitRefetch
<1>2. /\ SlotShape(s) /\ Sound(s) /\ s.a \in Ids /\ Attempt(s.read)
      /\ row[s.a].paper = s.read.paper /\ Attempt(row[s.a])
  BY <1>1, HeldShape
<1>3. s.t \in Int
  BY <1>1, <1>2 DEF SlotShape
<1>4. as \in [Parts(s.read) -> {"none", "right", "wrong"}]
  BY <1>2 DEF Attempt, Parts
<1> HIDE DEF as
<1>5. /\ Attempt(d) /\ d.paper = s.read.paper /\ d.status = s.read.status
      /\ d.current = s.read.current /\ d.sessions = s.read.sessions
  BY <1>2, <1>4 DEF Attempt, Parts
<1> HIDE DEF d
<1>6. MaySubmit(d) /\ d.status \in Open
  <2>1. MaySubmit(s.read)
    BY <1>1, <1>2 DEF Sound
  <2>2. QED
    BY <1>5, <2>1 DEF MaySubmit, IsLast, SessionWise, Open
<1>7. Made(d, Submitted(d, s.t), "end")
  BY <1>3, <1>5, <1>6, SubmittedIsMade
<1>8. SlotShape(r) /\ Sound(r) /\ Placed(r)
  <2> DEFINE e == Submitted(d, s.t)
  <2> HIDE DEF e
  <2> DEFINE q == Saving(s.a, d, e, "end")
             Form == [at: {"save"}, a: {s.a}, read: {d}, write: {e}, whole: BOOLEAN,
                      next: {"end"}]
  <2>1. /\ q \in Form /\ r = [q EXCEPT !.whole = TRUE]
    BY DEF Saving, e
  <2> HIDE DEF q, r
  <2>2. /\ r.at = "save" /\ r.a = s.a /\ r.read = d /\ r.write = e /\ r.next = "end"
        /\ r \in Form
    BY <2>1
  <2>3. SlotShape(r)
    BY <2>2 DEF SlotShape
  <2>4. Sound(r) /\ Placed(r)
    BY <1>2, <1>5, <1>6, <1>7, <2>2 DEF Sound, Placed, e
  <2>5. QED
    BY <2>3, <2>4
<1> HIDE DEF r
<1>9. SlotsInv' /\ DOMAIN slot' = Slots
  <2>1. PICK q : q = r
    OBVIOUS
  <2>2. Len(row) \in Nat
    BY RowsAreSeq DEF IInv
  <2>3. Len(row') \in Nat /\ Len(row') >= Len(row)
    BY <1>1, <2>2
  <2>4. SlotShape(q) /\ Sound(q) /\ Placed(q)' /\ slot' = [slot EXCEPT ![w] = q]
    BY <1>1, <1>8, <2>1 DEF Placed, Ids
  <2>5. \A a \in Ids : row'[a].paper = row[a].paper
    BY <1>1
  <2>6. QED
    BY <2>3, <2>4, <2>5, SlotsKept
<1>10. TypeInv' /\ RowsInv'
  BY <1>1, <1>9 DEF IInv, TypeInv, RowsInv, Ids
<1>11. QED
  BY <1>1, <1>9, <1>10 DEF IInv

\* A new row starts in the first session of its paper.
LEMMA NewRowShape ==
  ASSUME NEW p \in Papers, now \in Nat
  PROVE  LET d == NewRow(p) IN Attempt(d) /\ InPlace(d) /\ Timed(d) /\ Scored(d)
<1> DEFINE d == NewRow(p)
           n == Len(p.sessions)
           first == [status |-> "IN_PROGRESS", startedAt |-> now, consumed |-> 0]
           other == [status |-> "LOCKED", startedAt |-> 0, consumed |-> 0]
           ss == [i \in 1..n |-> IF i = 1 THEN first ELSE other]
<1>1. n \in Nat /\ DOMAIN p.sessions = 1..n /\ (p.sessions = <<>> <=> n = 0)
  BY ConstantTypes, LenProperties, EmptySeq
<1>2. first \in AnySession /\ other \in AnySession
  BY DEF AnySession, SessionStatus
<1>3. /\ d.paper = p /\ d.status = "IN_PROGRESS" /\ d.current = 1 /\ d.startedAt = now
      /\ d.answers = [i \in 1..NumParts(p) |-> "none"]
      /\ d = [paper |-> d.paper, status |-> d.status, startedAt |-> d.startedAt,
              consumed |-> d.consumed, current |-> d.current, score |-> d.score,
              answers |-> d.answers, sessions |-> d.sessions]
  BY DEF NewRow
<1>4. d.sessions = ss
  BY <1>1 DEF NewRow
<1>5. first.status = "IN_PROGRESS" /\ other.status = "LOCKED"
  OBVIOUS
<1> HIDE DEF d, first, other
<1>6. ss \in [1..n -> AnySession]
  BY <1>2
<1>7. 1 \in Parts(d) /\ Parts(d) = 1..NumParts(p)
  BY <1>1, <1>3 DEF Parts, NumParts
<1>8. Attempt(d)
  <2>1. d.answers \in [Parts(d) -> {"none", "right", "wrong"}]
    BY <1>3, <1>7
  <2>2. d.sessions \in [1..Len(d.paper.sessions) -> AnySession]
    BY <1>3, <1>4, <1>6
  <2>3. d.status \in Open \cup Closed /\ d.startedAt \in Int /\ d.current \in Nat
    BY <1>3 DEF Open
  <2>4. d.paper \in Papers /\ d.current \in Parts(d)
    BY <1>3, <1>7
  <2>5. QED
    BY <1>3, <2>1, <2>2, <2>3, <2>4 DEF Attempt
<1>9. Scored(d)
  BY <1>3 DEF Scored, Closed
<1>10. ASSUME SessionWise(d) PROVE InPlace(d) /\ Timed(d)
  <2>1. Len(d.sessions) = n /\ n # 0
    BY <1>3, <1>8, <1>10, AttemptShape
  <2>2. ss[1] = first /\ \A i \in 2..n : ss[i] = other
    BY <1>1, <2>1
  <2>3. QED
    BY <1>3, <1>4, <1>5, <2>1, <2>2 DEF InPlace, Timed, Closed
<1>11. QED
  BY <1>8, <1>9, <1>10 DEF InPlace, Timed, d

\* The create of a row.
LEMMA CreateKeeps ==
  ASSUME IInv, NEW w \in Slots, StartCreate(w)
  PROVE  IInv' /\ \A a \in Ids : row'[a] = row[a]
<1>1. PICK p \in Papers : row' = Append(row, NewRow(p))
  BY DEF StartCreate
<1>2. /\ slot' = [slot EXCEPT ![w] = Idle] /\ now' = now /\ raced' = raced
      /\ halfDone' = halfDone
  BY DEF StartCreate
<1> DEFINE d == NewRow(p)
<1>3. Attempt(d) /\ InPlace(d) /\ Timed(d) /\ Scored(d)
  BY NewRowShape DEF IInv, TypeInv
<1>4. row' = Append(row, d)
  BY <1>1
<1> HIDE DEF d
<1>5. /\ Len(row) \in Nat /\ Ids = 1..Len(row)
      /\ Len(row') = Len(row) + 1 /\ row'[Len(row) + 1] = d
      /\ \A a \in Ids : row'[a] = row[a]
      /\ row' \in Seq({row'[a] : a \in 1..Len(row')})
  <2>1. Len(row) \in Nat /\ Ids = 1..Len(row) /\ IsAppended(row', d)
    BY <1>4, RowsAreSeq DEF IInv
  <2>2. QED
    BY <2>1 DEF IsAppended
<1>6. \A a \in Ids' : (a \in Ids /\ row'[a] = row[a]) \/ row'[a] = d
  BY <1>5 DEF Ids
<1>7. SlotShape(Idle) /\ Sound(Idle) /\ Placed(Idle)'
  BY RestIsSound DEF Idle, Placed
<1>8. SlotsInv' /\ DOMAIN slot' = Slots
  <2>1. Len(row') \in Nat /\ Len(row') >= Len(row)
    BY <1>5
  <2>2. \A a \in Ids : row'[a].paper = row[a].paper
    BY <1>5
  <2>3. QED
    BY <1>2, <1>7, <2>1, <2>2, SlotsKept
<1>9. TypeInv'
  <2>1. now' \in Nat
    BY <1>2 DEF IInv, TypeInv
  <2>2. \A a \in Ids' : Attempt(row'[a])
    BY <1>3, <1>6 DEF IInv, TypeInv
  <2>3. row' \in Seq({row'[a] : a \in Ids'})
    BY <1>5 DEF Ids
  <2>4. QED
    BY <1>8, <2>1, <2>2, <2>3 DEF TypeInv
<1>10. RowsInv'
  <2>1. \A a \in Ids' \ raced' : InPlace(row'[a]) /\ Scored(row'[a])
    BY <1>2, <1>3, <1>6 DEF IInv, RowsInv
  <2>2. \A a \in Ids' \ (raced' \cup halfDone') : Timed(row'[a])
    BY <1>2, <1>3, <1>6 DEF IInv, RowsInv
  <2>3. QED
    BY <2>1, <2>2 DEF RowsInv
<1>11. QED
  BY <1>5, <1>8, <1>9, <1>10 DEF IInv

\* Time passes.
LEMMA TickKeeps ==
  ASSUME IInv, Tick \/ UNCHANGED vars
  PROVE  IInv' /\ row' = row
<1>1. /\ row' = row /\ slot' = slot /\ raced' = raced /\ halfDone' = halfDone
      /\ now' = now \/ now' = now + 1
  BY DEF Tick, vars, history
<1>2. TypeInv'
  BY <1>1 DEF IInv, TypeInv, Ids
<1>3. SlotsInv'
  BY <1>1 DEF IInv, SlotsInv, Placed, Ids
<1>4. RowsInv'
  BY <1>1 DEF IInv, RowsInv, Ids
<1>5. QED
  BY <1>1, <1>2, <1>3, <1>4 DEF IInv

\* A step decides, passes time or creates a row, and then the rows that are there
\* stay as they are, or it writes an answer or saves.
LEMMA StepKinds ==
  ASSUME IInv, [Next]_vars
  PROVE  /\ IInv'
         /\ \/ \A a \in Ids : row'[a] = row[a]
            \/ \E w \in Slots : WriteAnswer(w) \/ Save(w)
<1>1. CASE Tick \/ UNCHANGED vars
  BY <1>1, TickKeeps
<1>2. ASSUME NEW w \in Slots, Handler(w)
      PROVE  /\ IInv'
             /\ (\A a \in Ids : row'[a] = row[a]) \/ WriteAnswer(w) \/ Save(w)
  <2>1. CASE \/ StartCheck(w) \/ CompleteSubmit(w)
             \/ \E a \in Ids : \/ PauseFetch(w, a) \/ ResumeFetch(w, a) \/ ViewFetch(w, a)
                               \/ SubmitFetch(w, a, "idle") \/ CompleteFetch(w, a)
                               \/ \E x \in Answers : AnswerFetch(w, a, x)
                                                     \/ SubmitWithAnswer(w, a, x)
    BY <2>1, DecidingKeeps
  <2>2. CASE StartCreate(w)
    BY <2>2, CreateKeeps
  <2>3. CASE WriteAnswer(w)
    BY <2>3, WriteAnswerKeeps
  <2>4. CASE SubmitRefetch(w)
    BY <2>4, RefetchKeeps
  <2>5. CASE Save(w)
    BY <2>5, SaveKeeps
  <2>6. QED
    BY <1>2, <2>1, <2>2, <2>3, <2>4, <2>5 DEF Handler
<1>3. QED
  BY <1>1, <1>2 DEF Next

\* No row is there at the start and every slot is idle.
LEMMA InitIInv == Init => IInv
<1> SUFFICES ASSUME Init PROVE IInv
  OBVIOUS
<1>1. row = <<>> /\ now = 0 /\ slot = [w \in Slots |-> Idle]
  BY DEF Init
<1>2. Len(row) = 0 /\ row \in Seq({row[a] : a \in Ids})
  BY <1>1, EmptySeq
<1>3. Ids = {}
  BY <1>2 DEF Ids
<1>4. SlotsInv
  BY <1>1, RestIsSound DEF SlotsInv, Idle
<1>5. QED
  BY <1>1, <1>2, <1>3, <1>4 DEF IInv, TypeInv, RowsInv

\* The invariant holds in every reachable state.
THEOREM Invariant == Spec => []IInv
<1>1. IInv /\ [Next]_vars => IInv'
  BY StepKinds
<1>2. QED
  BY InitIInv, <1>1, PTL DEF Spec

\* SessionsInOrder, for any papers and any handlers at once: on a row that no handler
\* has saved over a change, the sessions before the current one are over, those
\* behind it are locked, and a closed paper was worked through to its last session.
THEOREM SessionsAreTakenInOrder == Spec => []SessionsInOrder
<1>1. IInv => SessionsInOrder
  BY DEF IInv, RowsInv, InPlace, SessionsInOrder
<1>2. QED
  BY Invariant, <1>1, PTL

\* ScoreIsOfStoredAnswers: whichever handler closes an attempt, by a submit or because
\* it looks at a row that is overdue, the score it stores is that of the answers
\* stored beside it.
THEOREM ScoresAreOfAnswers == Spec => []ScoreIsOfStoredAnswers
<1>1. IInv => ScoreIsOfStoredAnswers
  BY DEF IInv, RowsInv, Scored, ScoreIsOfStoredAnswers
<1>2. QED
  BY Invariant, <1>1, PTL

\* A row that a step writes keeps what is closed, unless it is saved over a change.
LEMMA WritesKeepClosed ==
  ASSUME IInv, NEW w \in Slots, WriteAnswer(w) \/ Save(w), NEW a \in Ids,
         a \notin raced', a \notin halfDone'
  PROVE  /\ row[a].status \in Closed => row'[a] = row[a]
         /\ \A i \in DOMAIN row[a].sessions :
              row[a].sessions[i].status \in Closed => row'[a].sessions[i].status \in Closed
<1> DEFINE s == slot[w]
           d == s.read
           e == s.write
<1>1. Attempt(row[a]) /\ DOMAIN row[a].sessions = 1..Len(row[a].paper.sessions)
      /\ DOMAIN row = Ids
  <2>1. Attempt(row[a]) /\ DOMAIN row = Ids
    BY RowsAreSeq DEF IInv, TypeInv
  <2>2. QED
    BY <2>1, AttemptShape
<1>2. CASE WriteAnswer(w)
  <2> DEFINE m == Answered(row[s.a], s.read.current, s.answer)
  <2>1. /\ row' = [row EXCEPT ![s.a] = m] /\ s.a \in Ids
        /\ m.sessions = row[s.a].sessions
        /\ s.a \notin raced' => row[s.a] = s.read
        /\ s.read.status \in Open
    BY <1>2, AnswerWrite
  <2> HIDE DEF m
  <2>2. CASE a = s.a
    <3>1. row[a].status \notin Closed /\ row'[a].sessions = row[a].sessions
      BY <1>1, <2>1, <2>2 DEF Open, Closed
    <3>2. QED
      BY <3>1
  <2>3. CASE a # s.a
    BY <1>1, <2>1, <2>3
  <2>4. QED
    BY <2>2, <2>3
<1>3. CASE Save(w)
  <2> DEFINE m == Merge(d, e, row[s.a], s.whole)
  <2>1. /\ row' = [row EXCEPT ![s.a] = m] /\ s.a \in Ids
        /\ d.status \in Open /\ Made(d, e, s.next)
        /\ raced \subseteq raced'
        /\ s.a \notin raced' => row[s.a] = d /\ m.sessions = e.sessions
    BY <1>3, SaveUnraced
  <2>2. halfDone' = IF s.next = "submit" THEN halfDone \cup {s.a}
                    ELSE IF e.status \in Closed THEN halfDone \ {s.a}
                    ELSE halfDone
    BY <1>3 DEF Save
  <2> HIDE DEF m
  <2>3. CASE a = s.a
    <3>1. row[a] = d /\ row'[a] = m /\ m.sessions = e.sessions
      BY <1>1, <2>1, <2>3
    <3>2. d.status \notin Closed
      BY <2>1 DEF Open, Closed
    <3>3. KeepsClosed(d, e)
      <4>1. CASE e.status \in Closed
        BY <2>1, <4>1 DEF Made
      <4>2. CASE e.status \notin Closed
        <5>1. s.next # "submit" /\ a \notin halfDone /\ a \notin raced
          BY <2>1, <2>2, <2>3, <4>2
        <5>2. InPlace(d) /\ Timed(d)
          BY <3>1, <5>1 DEF IInv, RowsInv
        <5>3. QED
          BY <2>1, <5>1, <5>2 DEF Made
      <4>3. QED
        BY <4>1, <4>2
    <3>4. QED
      BY <1>1, <3>1, <3>2, <3>3 DEF KeepsClosed
  <2>4. CASE a # s.a
    BY <1>1, <2>1, <2>4
  <2>5. QED
    BY <2>3, <2>4
<1>4. QED
  BY <1>2, <1>3

\* ClosedStaysClosed: no step of any handler changes a closed attempt or opens a closed
\* session again, short of a save over a change and of the time between the two saves
\* of the last completeSession.
THEOREM ClosedIsFinal == Spec => ClosedStaysClosed
<1> DEFINE Kept == \A a \in Ids \ (raced' \cup halfDone') :
                     /\ row[a].status \in Closed => row'[a] = row[a]
                     /\ \A i \in DOMAIN row[a].sessions :
                          row[a].sessions[i].status \in Closed =>
                            row'[a].sessions[i].status \in Closed
<1>1. IInv /\ [Next]_vars => [Kept]_vars
  <2> SUFFICES ASSUME IInv, [Next]_vars PROVE Kept
    OBVIOUS
  <2>1. CASE \A a \in Ids : row'[a] = row[a]
    BY <2>1
  <2>2. CASE \E w \in Slots : WriteAnswer(w) \/ Save(w)
    BY <2>2, WritesKeepClosed
  <2>3. QED
    BY <2>1, <2>2, StepKinds
<1>2. QED
  BY Invariant, <1>1, PTL DEF Spec, ClosedStaysClosed

-----------------------------------------------------------------------------
(***************************************************************************)
(* Sums. A sum over a finite set is a fold in an order that is not told, so   *)
(* what it adds up to needs an induction over the set. The induction is over  *)
(* the members of a set of naturals, whose least member is a matter of first  *)
(* order.                                                                    *)
(***************************************************************************)
\* A set of naturals that is not empty has a least member.
LEMMA LeastOf ==
  ASSUME NEW T, T \subseteq Nat, T # {}
  PROVE  \E x \in T : \A y \in T : x <= y
<1>1. PICK x \in T : \A y \in T : ~ (<<y, x>> \in OpToRel(<, Nat))
  BY NatLessThanWellFounded, WFMin
<1>2. \A y \in T : ~ (y < x)
  BY <1>1 DEF OpToRel
<1>3. QED
  BY <1>2

\* Induction over the naturals, with the property as the set of those that have it.
LEMMA Induct ==
  ASSUME NEW S, 0 \in S, \A n \in Nat : n \in S => n + 1 \in S
  PROVE  Nat \subseteq S
<1> SUFFICES ASSUME Nat \ S # {} PROVE FALSE
  OBVIOUS
<1>1. PICK x \in Nat \ S : \A y \in Nat \ S : x <= y
  <2> DEFINE T == Nat \ S
  <2>1. T \subseteq Nat /\ T # {}
    OBVIOUS
  <2> HIDE DEF T
  <2>2. \E x \in T : \A y \in T : x <= y
    BY <2>1, LeastOf
  <2>3. QED
    BY <2>2 DEF T
<1>2. x # 0 /\ x - 1 \in Nat /\ x - 1 \in S
  BY <1>1
<1>3. QED
  BY <1>1, <1>2

\* The element a fold takes next.
First(s) == CHOOSE x \in s : TRUE

\* A set without the element that is taken next has one element less.
LEMMA FirstIsTaken ==
  ASSUME NEW S, IsFiniteSet(S), NEW s \in SUBSET S, s # {}
  PROVE  /\ First(s) \in s /\ First(s) \in S /\ s \ {First(s)} \in SUBSET S
         /\ Cardinality(s) \in Nat \ {0}
         /\ Cardinality(s \ {First(s)}) = Cardinality(s) - 1
<1>1. IsFiniteSet(s)
  BY FS_Subset
<1>2. First(s) \in s
  BY DEF First
<1>3. Cardinality(s) \in Nat /\ Cardinality(s) # 0
  BY <1>1, FS_CardinalityType, FS_EmptySet
<1>4. Cardinality(s \ {First(s)}) = Cardinality(s) - 1
  BY <1>1, <1>2, FS_RemoveElement
<1>5. QED
  BY <1>2, <1>3, <1>4

\* Induction over the subsets of a finite set, in the order a fold takes them apart.
LEMMA FoldInduct ==
  ASSUME NEW S, IsFiniteSet(S), NEW F, {} \in F,
         \A s \in SUBSET S : s # {} /\ s \ {First(s)} \in F => s \in F
  PROVE  S \in F
<1> DEFINE N == {k \in Nat : \A s \in SUBSET S : Cardinality(s) = k => s \in F}
<1>1. 0 \in N
  <2> SUFFICES ASSUME NEW s \in SUBSET S, Cardinality(s) = 0 PROVE s \in F
    OBVIOUS
  <2>1. s = {}
    BY FirstIsTaken
  <2>2. QED
    BY <2>1
<1>2. ASSUME NEW k \in Nat, k \in N PROVE k + 1 \in N
  <2> SUFFICES ASSUME NEW s \in SUBSET S, Cardinality(s) = k + 1 PROVE s \in F
    OBVIOUS
  <2>1. s # {}
    <3>1. Cardinality({}) = 0
      BY FS_EmptySet
    <3>2. QED
      BY <3>1
  <2>2. s \ {First(s)} \in SUBSET S /\ Cardinality(s \ {First(s)}) = k
    BY <2>1, FirstIsTaken
  <2>3. s \ {First(s)} \in F
    BY <1>2, <2>2
  <2>4. QED
    BY <2>1, <2>3
<1> HIDE DEF N
<1>3. Nat \subseteq N
  BY <1>1, <1>2, Induct
<1>4. Cardinality(S) \in Nat
  BY FS_CardinalityType
<1>5. QED
  BY <1>3, <1>4 DEF N

\* h sums f over the subsets of S that are in D.
Sums(h, f, D) ==
  /\ h \in [D -> Int]
  /\ \A s \in D : h[s] = IF s = {} THEN 0 ELSE f[First(s)] + h[s \ {First(s)}]

\* There is such a sum.
LEMMA SumsExist ==
  ASSUME NEW S, IsFiniteSet(S), NEW f \in [S -> Int]
  PROVE  \E h : Sums(h, f, SUBSET S)
<1> DEFINE D(k) == {s \in SUBSET S : Cardinality(s) <= k}
           N == {k \in Nat : \E h : Sums(h, f, D(k))}
<1>0. \A s \in SUBSET S : Cardinality(s) \in Nat
  BY FS_Subset, FS_CardinalityType
<1>1. 0 \in N
  <2>1. D(0) = {{}}
    <3>1. {} \in D(0)
      BY FS_EmptySet
    <3>2. ASSUME NEW s \in D(0) PROVE s = {}
      <4>1. s \in SUBSET S /\ Cardinality(s) <= 0
        OBVIOUS
      <4>2. Cardinality(s) \notin Nat \ {0}
        BY <1>0, <4>1
      <4>3. QED
        BY <4>1, <4>2, FirstIsTaken
    <3> HIDE DEF D
    <3>3. QED
      BY <3>1, <3>2
  <2>2. Sums([s \in D(0) |-> 0], f, D(0))
    BY <2>1 DEF Sums
  <2>3. QED
    BY <2>2
<1>2. ASSUME NEW k \in Nat, k \in N PROVE k + 1 \in N
  <2>1. PICK h : Sums(h, f, D(k))
    BY <1>2
  <2> DEFINE g == [s \in D(k + 1) |-> IF s \in D(k) THEN h[s]
                                      ELSE f[First(s)] + h[s \ {First(s)}]]
  <2>2. D(k) \subseteq D(k + 1)
    BY <1>0
  <2>3. ASSUME NEW s \in D(k + 1), s # {}
        PROVE  s \ {First(s)} \in D(k) /\ First(s) \in S
    <3>1. s \in SUBSET S /\ Cardinality(s) <= k + 1
      OBVIOUS
    <3>2. QED
      BY <2>3, <3>1, FirstIsTaken
  <2>4. {} \in D(k) /\ \A s \in D(k) : h[s] \in Int
    BY <2>1, FS_EmptySet DEF Sums
  <2> HIDE DEF D
  <2>5. Sums(g, f, D(k + 1))
    <3>1. ASSUME NEW s \in D(k + 1)
          PROVE  /\ g[s] \in Int
                 /\ g[s] = IF s = {} THEN 0 ELSE f[First(s)] + g[s \ {First(s)}]
      <4>1. CASE s = {}
        BY <2>1, <2>2, <2>4, <4>1 DEF Sums
      <4>2. CASE s # {}
        <5>1. s \ {First(s)} \in D(k) /\ s \ {First(s)} \in D(k + 1) /\ First(s) \in S
          BY <2>2, <2>3, <4>2
        <5>2. g[s \ {First(s)}] = h[s \ {First(s)}] /\ h[s \ {First(s)}] \in Int
          BY <2>4, <5>1
        <5>3. g[s] = f[First(s)] + h[s \ {First(s)}]
          BY <2>1, <4>2 DEF Sums
        <5>4. QED
          BY <4>2, <5>1, <5>2, <5>3
      <4>3. QED
        BY <4>1, <4>2
    <3>2. QED
      BY <3>1 DEF Sums
  <2>6. QED
    BY <2>5
<1> HIDE DEF N
<1>3. Cardinality(S) \in N
  <2>1. Cardinality(S) \in Nat
    BY FS_CardinalityType
  <2>2. Nat \subseteq N
    BY <1>1, <1>2, Induct
  <2>3. QED
    BY <2>1, <2>2
<1>4. D(Cardinality(S)) = SUBSET S
  BY FS_Subset
<1>5. QED
  BY <1>3, <1>4 DEF N

\* SumFunction of the community modules is such a sum.
LEMMA SumIsSum ==
  ASSUME NEW S, IsFiniteSet(S), NEW f \in [S -> Int]
  PROVE  \E h : Sums(h, f, SUBSET S) /\ SumFunction(f) = h[S]
<1> DEFINE t == CHOOSE h : h = [s \in SUBSET S |-> IF s = {} THEN 0
                                   ELSE f[First(s)] + h[s \ {First(s)}]]
<1>1. SumFunction(f) = t[S]
  BY DEF SumFunction, SumFunctionOnSet, FoldFunctionOnSet, MapThenFoldSet, First
<1>2. PICK h : Sums(h, f, SUBSET S)
  BY SumsExist
<1>3. h = [s \in SUBSET S |-> IF s = {} THEN 0 ELSE f[First(s)] + h[s \ {First(s)}]]
  BY <1>2 DEF Sums
<1> DEFINE b == [s \in SUBSET S |-> IF s = {} THEN 0
                                      ELSE f[First(s)] + t[s \ {First(s)}]]
<1>4. t = b
  BY <1>3
<1> HIDE DEF t
<1>5. \A s \in SUBSET S : b[s] = IF s = {} THEN 0 ELSE f[First(s)] + t[s \ {First(s)}]
  OBVIOUS
<1> HIDE DEF b
<1>6. \A s \in SUBSET S : t[s] = IF s = {} THEN 0 ELSE f[First(s)] + t[s \ {First(s)}]
  BY <1>4, <1>5
<1>7. S \in {s \in SUBSET S : h[s] = t[s]}
  <2> DEFINE F == {s \in SUBSET S : h[s] = t[s]}
  <2>1. {} \in F
    BY <1>2, <1>6 DEF Sums
  <2>2. ASSUME NEW s \in SUBSET S, s # {}, s \ {First(s)} \in F PROVE s \in F
    BY <1>2, <1>6, <2>2 DEF Sums
  <2> HIDE DEF F
  <2>3. S \in F
    BY <2>1, <2>2, FoldInduct
  <2>4. QED
    BY <2>3 DEF F
<1>8. QED
  BY <1>1, <1>2, <1>7

\* A sum of integers is one, of naturals a natural.
LEMMA SumType ==
  ASSUME NEW S, IsFiniteSet(S), NEW f \in [S -> Int]
  PROVE  /\ SumFunction(f) \in Int
         /\ (\A i \in S : f[i] >= 0) => SumFunction(f) \in Nat
<1>1. PICK h : Sums(h, f, SUBSET S) /\ SumFunction(f) = h[S]
  BY SumIsSum
<1>2. SumFunction(f) \in Int
  BY <1>1 DEF Sums
<1>3. ASSUME \A i \in S : f[i] >= 0 PROVE SumFunction(f) \in Nat
  <2> DEFINE F == {s \in SUBSET S : h[s] >= 0}
  <2>1. {} \in F
    <3>1. {} \in SUBSET S
      OBVIOUS
    <3>2. h[{}] = 0
      BY <1>1, <3>1 DEF Sums
    <3>3. QED
      BY <3>1, <3>2
  <2>2. ASSUME NEW s \in SUBSET S, s # {}, s \ {First(s)} \in F PROVE s \in F
    <3>1. First(s) \in S /\ s \ {First(s)} \in SUBSET S
      BY <2>2, FirstIsTaken
    <3>2. h[s] = f[First(s)] + h[s \ {First(s)}] /\ h[s \ {First(s)}] \in Int
      BY <1>1, <2>2, <3>1 DEF Sums
    <3>3. QED
      BY <1>3, <2>2, <3>1, <3>2
  <2> HIDE DEF F
  <2>3. S \in F
    BY <2>1, <2>2, FoldInduct
  <2>4. QED
    BY <1>1, <1>2, <2>3 DEF F
<1>4. QED
  BY <1>2, <1>3

\* A sum of smaller numbers is smaller.
LEMMA SumMonotone ==
  ASSUME NEW S, IsFiniteSet(S), NEW f \in [S -> Int], NEW g \in [S -> Int],
         \A i \in S : f[i] <= g[i]
  PROVE  SumFunction(f) <= SumFunction(g)
<1>1. PICK h : Sums(h, f, SUBSET S) /\ SumFunction(f) = h[S]
  BY SumIsSum
<1>2. PICK k : Sums(k, g, SUBSET S) /\ SumFunction(g) = k[S]
  BY SumIsSum
<1> DEFINE F == {s \in SUBSET S : h[s] <= k[s]}
<1>3. {} \in F
  <2>1. {} \in SUBSET S
    OBVIOUS
  <2>2. h[{}] = 0 /\ k[{}] = 0
    BY <1>1, <1>2, <2>1 DEF Sums
  <2>3. QED
    BY <2>1, <2>2
<1>4. ASSUME NEW s \in SUBSET S, s # {}, s \ {First(s)} \in F PROVE s \in F
  <2>1. First(s) \in S /\ s \ {First(s)} \in SUBSET S
    BY <1>4, FirstIsTaken
  <2>2. h[s] = f[First(s)] + h[s \ {First(s)}] /\ h[s \ {First(s)}] \in Int
    BY <1>1, <1>4, <2>1 DEF Sums
  <2>3. k[s] = g[First(s)] + k[s \ {First(s)}] /\ k[s \ {First(s)}] \in Int
    BY <1>2, <1>4, <2>1 DEF Sums
  <2>4. QED
    BY <1>4, <2>1, <2>2, <2>3
<1> HIDE DEF F
<1>5. S \in F
  BY <1>3, <1>4, FoldInduct
<1>6. QED
  BY <1>1, <1>2, <1>5 DEF F

\* Sums of functions that differ in one place differ by what they differ there.
LEMMA SumDiffers ==
  ASSUME NEW S, IsFiniteSet(S), NEW f \in [S -> Int], NEW g \in [S -> Int], NEW c \in S,
         \A i \in S : i # c => f[i] = g[i]
  PROVE  SumFunction(g) = SumFunction(f) + g[c] - f[c]
<1>1. PICK h : Sums(h, f, SUBSET S) /\ SumFunction(f) = h[S]
  BY SumIsSum
<1>2. PICK k : Sums(k, g, SUBSET S) /\ SumFunction(g) = k[S]
  BY SumIsSum
<1> DEFINE d(s) == IF c \in s THEN g[c] - f[c] ELSE 0
           F == {s \in SUBSET S : k[s] = h[s] + d(s)}
<1>3. {} \in F
  <2>1. {} \in SUBSET S
    OBVIOUS
  <2>2. h[{}] = 0 /\ k[{}] = 0
    BY <1>1, <1>2, <2>1 DEF Sums
  <2>3. QED
    BY <2>1, <2>2
<1>4. ASSUME NEW s \in SUBSET S, s # {}, s \ {First(s)} \in F PROVE s \in F
  <2>1. First(s) \in s /\ First(s) \in S /\ s \ {First(s)} \in SUBSET S
    BY <1>4, FirstIsTaken
  <2>2. h[s] = f[First(s)] + h[s \ {First(s)}] /\ h[s \ {First(s)}] \in Int
    BY <1>1, <1>4, <2>1 DEF Sums
  <2>3. k[s] = g[First(s)] + k[s \ {First(s)}] /\ k[s \ {First(s)}] \in Int
    BY <1>2, <1>4, <2>1 DEF Sums
  <2>4. CASE First(s) = c
    BY <1>4, <2>1, <2>2, <2>3, <2>4
  <2>5. CASE First(s) # c
    BY <1>4, <2>1, <2>2, <2>3, <2>5
  <2>6. QED
    BY <2>4, <2>5
<1>5. S \in F
  <2> HIDE DEF F
  <2>1. QED
    BY <1>3, <1>4, FoldInduct
<1>6. k[S] = h[S] + g[c] - f[c] /\ h[S] \in Int
  BY <1>1, <1>5 DEF Sums
<1>7. QED
  BY <1>1, <1>2, <1>6

\* The sum over one place is what is there.
LEMMA SumOfOne ==
  ASSUME NEW f \in [{1} -> Int]
  PROVE  SumFunction(f) = f[1]
<1>1. IsFiniteSet({1})
  BY FS_Singleton
<1>2. PICK h : Sums(h, f, SUBSET {1}) /\ SumFunction(f) = h[{1}]
  BY <1>1, SumIsSum
<1>3. First({1}) = 1 /\ {1} \ {1} = {}
  BY DEF First
<1>4. h[{}] = 0 /\ h[{1}] = f[1] + h[{}]
  BY <1>2, <1>3 DEF Sums
<1>5. f[1] \in Int
  OBVIOUS
<1>6. QED
  BY <1>2, <1>4, <1>5

\* A sum of nothing but zeros.
LEMMA SumOfZeros ==
  ASSUME NEW S, IsFiniteSet(S), NEW f \in [S -> Int], \A i \in S : f[i] = 0
  PROVE  SumFunction(f) = 0
<1>1. PICK h : Sums(h, f, SUBSET S) /\ SumFunction(f) = h[S]
  BY SumIsSum
<1> DEFINE F == {s \in SUBSET S : h[s] = 0}
<1>2. {} \in F
  <2>1. {} \in SUBSET S
    OBVIOUS
  <2>2. QED
    BY <1>1, <2>1 DEF Sums
<1>3. ASSUME NEW s \in SUBSET S, s # {}, s \ {First(s)} \in F PROVE s \in F
  <2>1. First(s) \in S /\ s \ {First(s)} \in SUBSET S
    BY <1>3, FirstIsTaken
  <2>2. h[s] = f[First(s)] + h[s \ {First(s)}]
    BY <1>1, <1>3, <2>1 DEF Sums
  <2>3. f[First(s)] = 0 /\ h[s \ {First(s)}] = 0
    BY <1>3, <2>1
  <2>4. QED
    BY <2>2, <2>3
<1> HIDE DEF F
<1>4. S \in F
  BY <1>2, <1>3, FoldInduct
<1>5. QED
  BY <1>1, <1>4 DEF F

\* Sums of functions that are bounded by two others together.
LEMMA SumAdds ==
  ASSUME NEW S, IsFiniteSet(S), NEW f \in [S -> Int], NEW g \in [S -> Int],
         NEW e \in [S -> Int], \A i \in S : e[i] <= f[i] + g[i]
  PROVE  SumFunction(e) <= SumFunction(f) + SumFunction(g)
<1>1. PICK h : Sums(h, f, SUBSET S) /\ SumFunction(f) = h[S]
  BY SumIsSum
<1>2. PICK k : Sums(k, g, SUBSET S) /\ SumFunction(g) = k[S]
  BY SumIsSum
<1>3. PICK m : Sums(m, e, SUBSET S) /\ SumFunction(e) = m[S]
  BY SumIsSum
<1> DEFINE F == {s \in SUBSET S : m[s] <= h[s] + k[s]}
<1>4. {} \in F
  <2>1. {} \in SUBSET S
    OBVIOUS
  <2>2. h[{}] = 0 /\ k[{}] = 0 /\ m[{}] = 0
    BY <1>1, <1>2, <1>3, <2>1 DEF Sums
  <2>3. QED
    BY <2>1, <2>2
<1>5. ASSUME NEW s \in SUBSET S, s # {}, s \ {First(s)} \in F PROVE s \in F
  <2>1. First(s) \in S /\ s \ {First(s)} \in SUBSET S
    BY <1>5, FirstIsTaken
  <2>2. h[s] = f[First(s)] + h[s \ {First(s)}] /\ h[s \ {First(s)}] \in Int
    BY <1>1, <1>5, <2>1 DEF Sums
  <2>3. k[s] = g[First(s)] + k[s \ {First(s)}] /\ k[s \ {First(s)}] \in Int
    BY <1>2, <1>5, <2>1 DEF Sums
  <2>4. m[s] = e[First(s)] + m[s \ {First(s)}] /\ m[s \ {First(s)}] \in Int
    BY <1>3, <1>5, <2>1 DEF Sums
  <2>5. /\ e[First(s)] <= f[First(s)] + g[First(s)]
        /\ e[First(s)] \in Int /\ f[First(s)] \in Int /\ g[First(s)] \in Int
        /\ m[s \ {First(s)}] <= h[s \ {First(s)}] + k[s \ {First(s)}]
    BY <1>5, <2>1
  <2>6. QED
    BY <1>5, <2>2, <2>3, <2>4, <2>5
<1> HIDE DEF F
<1>6. S \in F
  BY <1>4, <1>5, FoldInduct
<1>7. QED
  BY <1>1, <1>2, <1>3, <1>6 DEF F

\* A sum that grows in one place, by one at most.
LEMMA SumGrows ==
  ASSUME NEW S, IsFiniteSet(S), NEW f \in [S -> Int], NEW g \in [S -> Int], NEW c \in S,
         g[c] <= f[c] + 1, \A i \in S : i # c => g[i] <= f[i]
  PROVE  SumFunction(g) <= SumFunction(f) + 1
<1> DEFINE h == [i \in S |-> IF i = c THEN f[i] + 1 ELSE f[i]]
<1>1. /\ h \in [S -> Int] /\ h[c] = f[c] + 1 /\ f[c] \in Int
      /\ \A i \in S : i # c => f[i] = h[i]
      /\ \A i \in S : g[i] <= h[i]
  OBVIOUS
<1> HIDE DEF h
<1>2. SumFunction(h) = SumFunction(f) + h[c] - f[c]
  BY <1>1, SumDiffers, ZenonT(40)
<1>3. SumFunction(g) <= SumFunction(h)
  BY <1>1, SumMonotone
<1>4. SumFunction(f) \in Int
  BY SumType
<1>5. SumFunction(g) \in Int
  BY SumType
<1>6. QED
  BY <1>1, <1>2, <1>3, <1>4, <1>5

-----------------------------------------------------------------------------
(***************************************************************************)
(* Times. What is stored as a time is a time, of the past and within what     *)
(* the paper allows, in the rows and in what handlers hold, whoever saves     *)
(* over whom.                                                                *)
(***************************************************************************)
\* The times of an attempt: nothing starts after t, and the time of the paper is
\* one the paper allows.
Timely(d, t) ==
  /\ d.startedAt \in Nat /\ d.startedAt <= t
  /\ d.consumed \in Nat /\ d.consumed <= PaperTime(d)
  /\ d.score \in Int
  /\ \A i \in 1..Len(d.paper.sessions) :
       /\ d.sessions[i].startedAt \in Nat /\ d.sessions[i].startedAt <= t
       /\ d.sessions[i].consumed \in Nat

\* A handler holds times of its past.
SlotTimely(s) ==
  /\ s.at \in {"answer", "refetch"} =>
       s.t \in Nat /\ s.t <= now /\ Timely(s.read, s.t)
  /\ s.at = "save" => Timely(s.read, now) /\ Timely(s.write, now)

TimeInv ==
  /\ now \in 0..MaxNow /\ Len(row) \in 0..NumAttempts
  /\ \A a \in Ids : Timely(row[a], now) /\ DOMAIN active[a] = Parts(row[a])
  /\ \A w \in Slots : SlotTimely(slot[w])
  /\ DOMAIN active = Attempts
  /\ blur \in [Attempts -> 0..now]
  /\ raced \subseteq Attempts /\ halfDone \subseteq Attempts

\* The parts of a paper, and what they allow.
LEMMA PaperShape ==
  ASSUME NEW d, Attempt(d)
  PROVE  /\ IsFiniteSet(Parts(d)) /\ d.current \in Parts(d)
         /\ \A i \in Parts(d) : Duration(d, i) \in Nat
         /\ AllowedTime(d) \in Nat /\ PaperTime(d) \in Nat
         /\ ~SessionWise(d) => PaperTime(d) = AllowedTime(d)
<1> DEFINE n == Len(d.paper.sessions)
           g == [i \in Parts(d) |-> Duration(d, i)]
<1>1. /\ n \in Nat /\ (SessionWise(d) <=> n # 0) /\ d.current \in Parts(d)
      /\ Parts(d) = IF n = 0 THEN {1} ELSE 1..n
  BY AttemptShape
<1>2. /\ d.paper.sessions \in Seq(Nat) /\ d.paper.duration \in Nat
      /\ \A i \in 1..n : d.paper.sessions[i] \in Nat
  BY ConstantTypes DEF Attempt
<1>3. \A i \in Parts(d) : Duration(d, i) \in Nat
  BY <1>1, <1>2 DEF Duration
<1>4. IsFiniteSet(Parts(d))
  <2> HIDE DEF n
  <2>1. IsFiniteSet({1})
    BY FS_Singleton
  <2>2. IsFiniteSet(1..n)
    BY <1>1, FS_Interval
  <2>3. QED
    BY <1>1, <2>1, <2>2
<1>5. PaperTime(d) = SumFunction(g)
  BY DEF PaperTime
<1>6. g \in [Parts(d) -> Int] /\ \A i \in Parts(d) : g[i] >= 0 /\ g[i] = Duration(d, i)
  BY <1>3
<1> HIDE DEF g, n
<1>7. PaperTime(d) \in Nat
  BY <1>4, <1>5, <1>6, SumType
<1>8. ASSUME ~SessionWise(d) PROVE PaperTime(d) = AllowedTime(d)
  <2>1. Parts(d) = {1} /\ d.current = 1
    BY <1>1, <1>8
  <2>2. SumFunction(g) = g[1]
    BY <1>6, <2>1, SumOfOne
  <2>3. QED
    BY <1>5, <1>6, <2>1, <2>2 DEF AllowedTime
<1>9. QED
  BY <1>1, <1>3, <1>4, <1>7, <1>8 DEF AllowedTime

\* Attempts of one paper have the same time.
LEMMA PaperTimeAlike ==
  ASSUME NEW d, NEW e, Attempt(d), Attempt(e), e.paper = d.paper
  PROVE  PaperTime(e) = PaperTime(d) /\ Parts(e) = Parts(d)
<1>1. Parts(e) = Parts(d)
  BY DEF Parts
<1>2. SessionWise(e) <=> SessionWise(d)
  BY AttemptShape
<1>3. \A i \in Parts(d) : Duration(e, i) = Duration(d, i)
  BY <1>2 DEF Duration
<1>4. [i \in Parts(e) |-> Duration(e, i)] = [i \in Parts(d) |-> Duration(d, i)]
  BY <1>1, <1>3
<1>5. QED
  BY <1>1, <1>4 DEF PaperTime

\* What is stored as the time of the paper is never more than the paper allows.
LEMMA TotalIsWithin ==
  ASSUME NEW d, Attempt(d), NEW elapsed \in Nat,
         \A i \in 1..Len(d.paper.sessions) : d.sessions[i].consumed \in Nat
  PROVE  TotalTime(d, elapsed) \in Nat /\ TotalTime(d, elapsed) <= PaperTime(d)
<1> DEFINE spent == Smaller(elapsed, AllowedTime(d))
           c == d.current
           f == [i \in Parts(d) |->
                   IF i = c THEN 0 ELSE Smaller(d.sessions[i].consumed, Duration(d, i))]
           h == [i \in Parts(d) |-> IF i = c THEN spent ELSE f[i]]
           g == [i \in Parts(d) |-> Duration(d, i)]
<1>1. /\ IsFiniteSet(Parts(d)) /\ c \in Parts(d) /\ AllowedTime(d) = Duration(d, c)
      /\ \A i \in Parts(d) : Duration(d, i) \in Nat
      /\ AllowedTime(d) \in Nat /\ PaperTime(d) \in Nat
      /\ ~SessionWise(d) => PaperTime(d) = AllowedTime(d)
  BY PaperShape DEF AllowedTime
<1>2. spent \in Nat /\ spent <= AllowedTime(d)
  BY <1>1 DEF Smaller
<1>3. CASE ~SessionWise(d)
  BY <1>1, <1>2, <1>3 DEF TotalTime
<1>4. CASE SessionWise(d)
  <2>1. Parts(d) = 1..Len(d.paper.sessions)
    BY <1>4, AttemptShape
  <2>2. \A i \in Parts(d) : /\ Smaller(d.sessions[i].consumed, Duration(d, i)) \in Nat
                            /\ Smaller(d.sessions[i].consumed, Duration(d, i)) <= Duration(d, i)
    BY <1>1, <2>1 DEF Smaller
  <2>3. TotalTime(d, elapsed) = spent + SumFunction(f) /\ PaperTime(d) = SumFunction(g)
    BY <1>4 DEF TotalTime, PaperTime
  <2>4. /\ f \in [Parts(d) -> Int] /\ (\A i \in Parts(d) : f[i] >= 0) /\ f[c] = 0
        /\ g \in [Parts(d) -> Int] /\ h \in [Parts(d) -> Int] /\ h[c] = spent
        /\ \A i \in Parts(d) : i # c => f[i] = h[i]
        /\ \A i \in Parts(d) : h[i] <= g[i]
    <3> HIDE DEF spent
    <3>1. f \in [Parts(d) -> Int] /\ (\A i \in Parts(d) : f[i] >= 0) /\ f[c] = 0
      BY <1>1, <2>2
    <3>2. g \in [Parts(d) -> Int] /\ h \in [Parts(d) -> Int] /\ h[c] = spent
      BY <1>1, <1>2, <3>1
    <3>3. \A i \in Parts(d) : i # c => f[i] = h[i]
      OBVIOUS
    <3>4. \A i \in Parts(d) : h[i] <= g[i]
      BY <1>1, <1>2, <2>2
    <3>5. QED
      BY <3>1, <3>2, <3>3, <3>4
  <2> HIDE DEF f, g, h, spent, c
  <2>5. SumFunction(h) = SumFunction(f) + h[c] - f[c]
    BY <1>1, <2>4, SumDiffers, ZenonT(40)
  <2>6. SumFunction(h) <= SumFunction(g)
    BY <1>1, <2>4, SumMonotone
  <2>7. SumFunction(f) \in Nat
    BY <1>1, <2>4, SumType
  <2>8. QED
    BY <1>1, <1>2, <2>3, <2>4, <2>5, <2>6, <2>7
<1>5. QED
  BY <1>3, <1>4

\* A score is a number.
LEMMA ScoreIsNumber ==
  ASSUME NEW d, Attempt(d)
  PROVE  Score(d.answers) \in Int
<1> DEFINE f == [i \in Parts(d) |-> Marks(d.answers[i])]
<1>1. DOMAIN d.answers = Parts(d)
  BY DEF Attempt
<1>2. f \in [Parts(d) -> Int]
  BY DEF Marks
<1>3. Score(d.answers) = SumFunction(f)
  BY <1>1 DEF Score
<1> HIDE DEF f
<1>4. QED
  BY <1>2, <1>3, PaperShape, SumType

\* The running timer shows a time.
LEMMA ElapsedIsTime ==
  ASSUME NEW d, Attempt(d), NEW t \in Nat, Timely(d, t)
  PROVE  TimeElapsed(d, t) \in Nat
<1>1. CASE SessionWise(d)
  <2>1. d.current \in 1..Len(d.paper.sessions)
    BY <1>1, AttemptShape
  <2> DEFINE s == d.sessions[d.current]
  <2>2. s.startedAt \in Nat /\ s.startedAt <= t /\ s.consumed \in Nat
    BY <2>1 DEF Timely
  <2>3. TimeElapsed(d, t) \in {s.consumed, s.consumed + t - s.startedAt}
    BY <1>1 DEF TimeElapsed
  <2> HIDE DEF s
  <2>4. QED
    BY <2>2, <2>3
<1>2. CASE ~SessionWise(d)
  BY <1>2 DEF Timely, TimeElapsed
<1>3. QED
  BY <1>1, <1>2

\* Times of the past stay so.
LEMMA LaterTimely ==
  ASSUME NEW d, NEW t \in Nat, NEW u \in Nat, t <= u, Timely(d, t)
  PROVE  Timely(d, u)
  BY DEF Timely

\* An attempt that differs from a timely one in times that are timely.
LEMMA TouchTimely ==
  ASSUME NEW d, NEW e, NEW t \in Nat, Attempt(d), Touches(d, e), Timely(d, t),
         e.startedAt \in {d.startedAt, t}, e.score \in Int,
         e.consumed \in Nat, e.consumed <= PaperTime(d),
         SessionWise(d) =>
           /\ e.sessions[d.current].startedAt \in {d.sessions[d.current].startedAt, t}
           /\ e.sessions[d.current].consumed \in Nat
  PROVE  Timely(e, t)
<1> DEFINE n == Len(d.paper.sessions)
<1>1. /\ Attempt(e) /\ e.paper = d.paper
      /\ \A i \in 1..n : i # d.current => e.sessions[i] = d.sessions[i]
  BY DEF Touches
<1>2. PaperTime(e) = PaperTime(d)
  BY <1>1, PaperTimeAlike
<1>3. d.startedAt \in Nat /\ d.startedAt <= t
      /\ \A i \in 1..n : /\ d.sessions[i].startedAt \in Nat /\ d.sessions[i].startedAt <= t
                         /\ d.sessions[i].consumed \in Nat
  BY DEF Timely
<1>4. \A i \in 1..n : SessionWise(d)
  BY AttemptShape
<1>5. ASSUME NEW i \in 1..n
      PROVE  /\ e.sessions[i].startedAt \in Nat /\ e.sessions[i].startedAt <= t
             /\ e.sessions[i].consumed \in Nat
  <2>1. /\ d.sessions[i].startedAt \in Nat /\ d.sessions[i].startedAt <= t
        /\ d.sessions[i].consumed \in Nat /\ SessionWise(d)
    BY <1>3, <1>4, <1>5
  <2>2. CASE i # d.current
    <3>1. e.sessions[i] = d.sessions[i]
      BY <1>1, <1>5, <2>2
    <3>2. QED
      BY <2>1, <3>1
  <2>3. CASE i = d.current
    <3>1. /\ e.sessions[i].startedAt \in {d.sessions[i].startedAt, t}
          /\ e.sessions[i].consumed \in Nat
      BY <2>1, <2>3
    <3>2. QED
      BY <2>1, <3>1
  <2>4. QED
    BY <2>2, <2>3
<1>6. QED
  BY <1>1, <1>2, <1>3, <1>5 DEF Timely

\* A session with a time in the past, in whatever status.
LEMMA PutTimely ==
  ASSUME NEW d, Attempt(d), SessionWise(d), NEW t \in Nat, Timely(d, t),
         NEW s \in SessionStatus, NEW c \in Nat
  PROVE  LET e == Put(d, s, c) IN
         Attempt(e) /\ Touches(d, e) /\ e.status = d.status /\ Timely(e, t)
<1> DEFINE e == Put(d, s, c)
<1>1. /\ Touches(d, e) /\ e.status = d.status /\ e.score = d.score
      /\ e.startedAt = d.startedAt /\ e.consumed = d.consumed
      /\ e.sessions[d.current].consumed = c
      /\ e.sessions[d.current].startedAt = d.sessions[d.current].startedAt
  BY PutTouches
<1> HIDE DEF e
<1>2. Timely(e, t)
  <2>1. d.score \in Int /\ d.consumed \in Nat /\ d.consumed <= PaperTime(d)
    BY DEF Timely
  <2>2. QED
    BY <1>1, <2>1, TouchTimely
<1>3. QED
  BY <1>1, <1>2 DEF e, Touches

\* The sum that is stored as the time of the paper.
LEMMA SetTimely ==
  ASSUME NEW d, Attempt(d), NEW t \in Nat, Timely(d, t), NEW elapsed \in Nat
  PROVE  LET e == SetTime(d, TotalTime(d, elapsed)) IN
         Attempt(e) /\ Touches(d, e) /\ e.status = d.status /\ Timely(e, t)
<1> DEFINE x == TotalTime(d, elapsed)
           e == SetTime(d, x)
<1>1. /\ d.score \in Int
      /\ \A i \in 1..Len(d.paper.sessions) : d.sessions[i].consumed \in Nat
  BY DEF Timely
<1>2. x \in Nat /\ x <= PaperTime(d)
  BY <1>1, TotalIsWithin
<1> HIDE DEF x
<1>3. /\ Touches(d, e) /\ e.status = d.status /\ e.score = d.score
      /\ e.sessions = d.sessions /\ e.startedAt = d.startedAt /\ e.consumed = x
  BY TimeTouches
<1> HIDE DEF e
<1>4. SessionWise(d) => d.sessions[d.current].consumed \in Nat
  BY <1>1, AttemptShape
<1>5. Timely(e, t)
  BY <1>1, <1>2, <1>3, <1>4, TouchTimely
<1>6. QED
  BY <1>3, <1>5 DEF e, x, Touches

\* A paper that is closed or paused, with its time and its score.
LEMMA CloseTimely ==
  ASSUME NEW d, Attempt(d), NEW t \in Nat, Timely(d, t), NEW elapsed \in Nat,
         NEW s \in Open \cup Closed, NEW sc \in Int
  PROVE  LET e == Close(d, s, TotalTime(d, elapsed), sc) IN
         Attempt(e) /\ Touches(d, e) /\ e.status = s /\ Timely(e, t)
<1> DEFINE x == TotalTime(d, elapsed)
           e == Close(d, s, x, sc)
<1>1. \A i \in 1..Len(d.paper.sessions) : d.sessions[i].consumed \in Nat
  BY DEF Timely
<1>2. x \in Nat /\ x <= PaperTime(d)
  BY <1>1, TotalIsWithin
<1> HIDE DEF x
<1>3. /\ Touches(d, e) /\ e.status = s /\ e.score = sc
      /\ e.sessions = d.sessions /\ e.startedAt = d.startedAt /\ e.consumed = x
  BY CloseTouches
<1> HIDE DEF e
<1>4. SessionWise(d) => d.sessions[d.current].consumed \in Nat
  BY <1>1, AttemptShape
<1>5. Timely(e, t)
  BY <1>2, <1>3, <1>4, TouchTimely
<1>6. QED
  BY <1>3, <1>5 DEF e, x, Touches

\* The status of a paper says nothing of its times.
LEMMA StatusTimely ==
  ASSUME NEW d, Attempt(d), NEW t \in Nat, Timely(d, t), NEW s \in Open \cup Closed
  PROVE  LET e == [d EXCEPT !.status = s] IN Attempt(e) /\ Timely(e, t)
<1> DEFINE e == [d EXCEPT !.status = s]
<1>1. /\ Touches(d, e) /\ e.startedAt = d.startedAt /\ e.score = d.score
      /\ e.consumed = d.consumed /\ e.sessions = d.sessions
  BY DEF Attempt, Touches, Parts
<1> HIDE DEF e
<1>2. /\ d.score \in Int /\ d.consumed \in Nat /\ d.consumed <= PaperTime(d)
      /\ \A i \in 1..Len(d.paper.sessions) : d.sessions[i].consumed \in Nat
  BY DEF Timely
<1>3. SessionWise(d) => d.sessions[d.current].consumed \in Nat
  BY <1>2, AttemptShape
<1>4. Timely(e, t)
  BY <1>1, <1>2, <1>3, TouchTimely
<1>5. QED
  BY <1>1, <1>4 DEF e, Touches

\* Of two times the smaller is a time.
LEMMA SmallerIsTime ==
  ASSUME NEW x \in Nat, NEW y \in Nat
  PROVE  Smaller(x, y) \in Nat
  BY DEF Smaller

\* The times of a row that autoExpireIfNeeded has expired.
LEMMA ExpireTimely ==
  ASSUME NEW d, Attempt(d), NEW t \in Nat, Timely(d, t)
  PROVE  Timely(Expire(d, t), t)
<1> DEFINE p == Put(d, "EXPIRED", AllowedTime(d))
           b == IF SessionWise(d) THEN SetTime(p, TotalTime(p, AllowedTime(d))) ELSE d
<1>1. AllowedTime(d) \in Nat /\ TimeElapsed(d, t) \in Nat /\ Score(d.answers) \in Int
  BY PaperShape, ElapsedIsTime, ScoreIsNumber
<1>2. Expire(d, t) = IF ~IsLast(d) THEN b
                     ELSE Close(b, "EXPIRED", TotalTime(b, TimeElapsed(d, t)),
                                Score(d.answers))
  BY DEF Expire, ExpireSession, Put, SetTime, Close
<1>3. Attempt(b) /\ Timely(b, t)
  <2>1. CASE SessionWise(d)
    <3>1. Attempt(p) /\ Timely(p, t)
      BY <1>1, <2>1, PutTimely DEF SessionStatus, Closed
    <3> HIDE DEF p
    <3>2. QED
      BY <1>1, <2>1, <3>1, SetTimely
  <2>2. QED
    BY <2>1
<1> HIDE DEF b
<1>4. "EXPIRED" \in Open \cup Closed
  BY DEF Closed
<1>5. Timely(Close(b, "EXPIRED", TotalTime(b, TimeElapsed(d, t)), Score(d.answers)), t)
  BY <1>1, <1>3, <1>4, CloseTimely
<1>6. QED
  BY <1>2, <1>3, <1>5

\* The times of a row that is paused.
LEMMA PausedTimely ==
  ASSUME NEW d, Attempt(d), NEW t \in Nat, Timely(d, t)
  PROVE  Timely(Paused(d, t), t)
<1> DEFINE c == Smaller(TimeElapsed(d, t), AllowedTime(d))
           p == IF SessionWise(d) THEN Put(d, "PAUSED", c) ELSE d
           q == [p EXCEPT !.status = "PAUSED"]
<1>1. TimeElapsed(d, t) \in Nat /\ c \in Nat
  BY PaperShape, ElapsedIsTime, SmallerIsTime
<1>2. Paused(d, t) = SetTime(q, TotalTime(q, TimeElapsed(d, t)))
  BY PausedIs
<1> HIDE DEF c
<1>3. Attempt(p) /\ Timely(p, t)
  BY <1>1, PutTimely DEF SessionStatus
<1> HIDE DEF p
<1>4. Attempt(q) /\ Timely(q, t)
  <2>1. "PAUSED" \in Open \cup Closed
    BY DEF Open
  <2>2. QED
    BY <1>3, <2>1, StatusTimely
<1> HIDE DEF q
<1>5. QED
  BY <1>1, <1>2, <1>4, SetTimely

\* The times of a row that is resumed: its clock starts now.
LEMMA ResumedTimely ==
  ASSUME NEW d, Attempt(d), now \in Nat, Timely(d, now), d.status = "PAUSED"
  PROVE  Timely(Resumed(d), now)
<1> DEFINE e == Resumed(d)
           n == Len(d.paper.sessions)
<1>1. Touches(d, e)
  BY ResumedTouches
<1>2. /\ e.startedAt = now /\ e.score = d.score /\ e.consumed = d.consumed
      /\ SessionWise(d) => /\ e.sessions[d.current].startedAt = now
                           /\ e.sessions[d.current].consumed = d.sessions[d.current].consumed
  <2>1. CASE SessionWise(d)
    <3>1. /\ d.current \in 1..n /\ d.sessions[d.current] \in AnySession
          /\ d.sessions \in [1..n -> AnySession]
      BY <2>1, AttemptShape DEF Attempt
    <3>2. QED
      BY <2>1, <3>1 DEF Resumed, Attempt, AnySession
  <2>2. CASE ~SessionWise(d)
    BY <2>2 DEF Resumed, Attempt
  <2>3. QED
    BY <2>1, <2>2
<1> HIDE DEF e
<1>3. /\ d.score \in Int /\ d.consumed \in Nat /\ d.consumed <= PaperTime(d)
      /\ \A i \in 1..n : d.sessions[i].consumed \in Nat
  BY DEF Timely
<1>4. SessionWise(d) => d.sessions[d.current].consumed \in Nat
  BY <1>3, AttemptShape
<1>5. Timely(e, now)
  BY <1>1, <1>2, <1>3, <1>4, TouchTimely
<1>6. QED
  BY <1>5 DEF e

\* The times of a row that is submitted.
LEMMA SubmittedTimely ==
  ASSUME NEW d, Attempt(d), NEW t \in Nat, Timely(d, t)
  PROVE  Timely(Submitted(d, t), t)
<1> DEFINE c == Smaller(TimeElapsed(d, t), AllowedTime(d))
           v == IF \/ TimeElapsed(d, t) > AllowedTime(d)
                   \/ SessionWise(d) /\ d.sessions[d.current].status = "EXPIRED"
                THEN "EXPIRED" ELSE "SUBMITTED"
           p == IF SessionWise(d) THEN Put(d, v, c) ELSE d
<1>1. TimeElapsed(d, t) \in Nat /\ c \in Nat /\ Score(d.answers) \in Int
  BY PaperShape, ElapsedIsTime, SmallerIsTime, ScoreIsNumber
<1>2. Submitted(d, t) = Close(p, v, TotalTime(p, TimeElapsed(d, t)), Score(d.answers))
  BY DEF Submitted, Put, Close
<1>3. v \in SessionStatus /\ v \in Open \cup Closed
  BY DEF SessionStatus, Closed
<1> HIDE DEF c, v
<1>4. Attempt(p) /\ Timely(p, t)
  BY <1>1, <1>3, PutTimely
<1> HIDE DEF p
<1>5. QED
  BY <1>1, <1>2, <1>3, <1>4, CloseTimely

\* The times of a row whose session is completed.
LEMMA CompletedTimely ==
  ASSUME NEW d, Attempt(d), SessionWise(d), now \in Nat, Timely(d, now)
  PROVE  Attempt(CompletedSession(d)) /\ Timely(CompletedSession(d), now)
<1> DEFINE c == Smaller(TimeElapsed(d, now), AllowedTime(d))
           v == IF TimeElapsed(d, now) > AllowedTime(d) THEN "EXPIRED" ELSE "SUBMITTED"
           p == Put(d, v, c)
<1>1. TimeElapsed(d, now) \in Nat /\ c \in Nat
  BY PaperShape, ElapsedIsTime, SmallerIsTime
<1>2. CompletedSession(d) \in {SetTime(p, TotalTime(p, TimeElapsed(d, now))), d}
  BY DEF CompletedSession, Put, SetTime
<1>3. v \in SessionStatus
  BY DEF SessionStatus, Closed
<1> HIDE DEF c, v
<1>4. Attempt(p) /\ Timely(p, now)
  BY <1>1, <1>3, PutTimely
<1> HIDE DEF p
<1>5. LET e == SetTime(p, TotalTime(p, TimeElapsed(d, now))) IN Attempt(e) /\ Timely(e, now)
  BY <1>1, <1>4, SetTimely
<1>6. QED
  BY <1>2, <1>5

\* The times of a row whose next session is open.
LEMMA NextTimely ==
  ASSUME NEW d, Attempt(d), SessionWise(d), now \in Nat, Timely(d, now), ~IsLast(d),
         Attempt(NextSession(d)), NextSession(d).paper = d.paper
  PROVE  Timely(NextSession(d), now)
<1> DEFINE e == NextSession(d)
           n == Len(d.paper.sessions)
           k == d.current + 1
           new == [status |-> "IN_PROGRESS", startedAt |-> now, consumed |-> 0]
           ss == [d.sessions EXCEPT ![k] = new]
<1>1. k \in 1..n /\ d.sessions \in [1..n -> AnySession]
  <2>1. /\ n \in Nat /\ n # 0 /\ Parts(d) = 1..n /\ d.current \in Parts(d)
        /\ d.current # n /\ d.sessions \in [1..n -> AnySession]
    BY AttemptShape DEF Attempt
  <2> HIDE DEF n
  <2>2. QED
    BY <2>1
<1>2. e = [d EXCEPT !.current = k, !.startedAt = now, !.sessions = ss]
  BY DEF NextSession, Attempt
<1>3. new.startedAt = now /\ new.consumed = 0
  OBVIOUS
<1> HIDE DEF new
<1>4. \A i \in 1..n : ss[i] = IF i = k THEN new ELSE d.sessions[i]
  BY <1>1
<1> HIDE DEF k, ss
<1>5. /\ e.startedAt = now /\ e.score = d.score /\ e.consumed = d.consumed
      /\ e.sessions = ss /\ e.paper = d.paper
  BY <1>2 DEF Attempt
<1>6. PaperTime(e) = PaperTime(d)
  BY PaperTimeAlike
<1> HIDE DEF e
<1>7. Timely(e, now)
  BY <1>3, <1>4, <1>5, <1>6 DEF Timely
<1>8. QED
  BY <1>7 DEF e

\* The times of a row that is merged from timely ones.
LEMMA MergeTimely ==
  ASSUME NEW c, Attempt(c), NEW d, Attempt(d), NEW e, Attempt(e), NEW whole \in BOOLEAN,
         c.paper = d.paper, e.paper = d.paper, NEW t \in Nat, Timely(c, t), Timely(e, t)
  PROVE  Timely(Merge(d, e, c, whole), t)
<1> DEFINE n == Len(c.paper.sessions)
           m == Merge(d, e, c, whole)
<1>1. DOMAIN c.sessions = 1..n
  BY AttemptShape
<1>2. \A x, y, z : Pick(x, y, z) \in {y, z}
  BY DEF Pick
<1>3. /\ m.startedAt \in {e.startedAt, c.startedAt}
      /\ m.consumed \in {e.consumed, c.consumed}
      /\ m.score \in {e.score, c.score} /\ m.paper = c.paper
  BY <1>2 DEF Merge
<1>4. ASSUME NEW i \in 1..n
      PROVE  /\ m.sessions[i].startedAt \in {e.sessions[i].startedAt, c.sessions[i].startedAt}
             /\ m.sessions[i].consumed \in {e.sessions[i].consumed, c.sessions[i].consumed}
  BY <1>1, <1>2 DEF Merge
<1>5. Attempt(m)
  BY MergeShape
<1> HIDE DEF m
<1>6. PaperTime(m) = PaperTime(c) /\ PaperTime(e) = PaperTime(c)
  BY <1>3, <1>5, PaperTimeAlike
<1>7. Timely(m, t)
  BY <1>3, <1>4, <1>6 DEF Timely
<1>8. QED
  BY <1>7 DEF m

\* An answer says nothing of times.
LEMMA AnsweredTimely ==
  ASSUME NEW d, Attempt(d), NEW as \in [Parts(d) -> {"none", "right", "wrong"}],
         NEW t \in Nat, Timely(d, t)
  PROVE  LET e == [d EXCEPT !.answers = as] IN Attempt(e) /\ Timely(e, t)
<1> DEFINE e == [d EXCEPT !.answers = as]
<1>1. /\ e.startedAt = d.startedAt /\ e.consumed = d.consumed /\ e.score = d.score
      /\ e.sessions = d.sessions /\ e.paper = d.paper /\ Attempt(e)
  BY DEF Attempt, Parts
<1> HIDE DEF e
<1>2. PaperTime(e) = PaperTime(d)
  BY <1>1, PaperTimeAlike
<1>3. QED
  BY <1>1, <1>2 DEF e, Timely

\* The times of a new row.
LEMMA NewRowTimely ==
  ASSUME NEW p \in Papers, now \in Nat
  PROVE  Timely(NewRow(p), now) /\ Parts(NewRow(p)) = 1..NumParts(p)
<1> DEFINE d == NewRow(p)
           n == Len(p.sessions)
<1>1. Attempt(d)
  BY NewRowShape
<1>2. n \in Nat /\ DOMAIN p.sessions = 1..n
  BY ConstantTypes, LenProperties
<1>3. d.paper = p /\ d.startedAt = now /\ d.consumed = 0 /\ d.score = 0
  BY DEF NewRow
<1>4. \A i \in 1..n : d.sessions[i].startedAt \in {0, now} /\ d.sessions[i].consumed = 0
  BY <1>2 DEF NewRow
<1> HIDE DEF d
<1>5. PaperTime(d) \in Nat
  BY <1>1, PaperShape
<1>6. Timely(d, now) /\ Parts(d) = 1..NumParts(p)
  BY <1>3, <1>4, <1>5 DEF Timely, Parts
<1>7. QED
  BY <1>6 DEF d

\* The slots keep their times while the clock does not go back.
LEMMA SlotTimesKept ==
  ASSUME IInv, TimeInv, NEW w \in Slots, NEW s, slot' = [slot EXCEPT ![w] = s],
         SlotTimely(s), now' = now
  PROVE  \A v \in Slots : SlotTimely(slot[v])'
<1>1. DOMAIN slot = Slots
  BY DEF IInv, TypeInv
<1>2. ASSUME NEW v \in Slots PROVE SlotTimely(slot[v])'
  <2>1. CASE v = w
    BY <1>1, <2>1 DEF SlotTimely
  <2>2. CASE v # w
    <3>1. slot'[v] = slot[v] /\ SlotTimely(slot[v])
      BY <1>1, <2>2 DEF TimeInv
    <3>2. QED
      BY <3>1 DEF SlotTimely
  <2>3. QED
    BY <2>1, <2>2
<1>3. QED
  BY <1>2

\* A handler that only decides.
LEMMA EnterTimes ==
  ASSUME IInv, TimeInv, NEW w \in Slots, NEW s, Enter(w, s), SlotTimely(s)
  PROVE  TimeInv'
<1>1. /\ slot' = [slot EXCEPT ![w] = s] /\ row' = row /\ now' = now
      /\ raced' = raced /\ halfDone' = halfDone /\ active' = active /\ blur' = blur
  BY DEF Enter, history
<1>2. \A v \in Slots : SlotTimely(slot[v])'
  BY <1>1, SlotTimesKept
<1>3. QED
  BY <1>1, <1>2 DEF TimeInv, Ids

\* A handler with something to save.
LEMMA SavingTimes ==
  ASSUME IInv, TimeInv, NEW w \in Slots, NEW a \in Ids, NEW e, NEW next,
         Timely(e, now), Enter(w, Saving(a, row[a], e, next))
  PROVE  TimeInv'
<1> DEFINE s == Saving(a, row[a], e, next)
<1>1. s.at = "save" /\ s.read = row[a] /\ s.write = e
  BY DEF Saving
<1>2. Enter(w, s)
  OBVIOUS
<1>3. Timely(row[a], now)
  BY DEF TimeInv
<1> HIDE DEF s
<1>4. SlotTimely(s)
  BY <1>1, <1>3 DEF SlotTimely
<1>5. QED
  BY <1>2, <1>4, EnterTimes

\* The steps that fetch keep the times.
LEMMA DecidingTimes ==
  ASSUME IInv, TimeInv, NEW w \in Slots,
         \/ StartCheck(w) \/ CompleteSubmit(w)
         \/ \E a \in Ids : \/ PauseFetch(w, a) \/ ResumeFetch(w, a) \/ ViewFetch(w, a)
                           \/ SubmitFetch(w, a, "idle") \/ CompleteFetch(w, a)
                           \/ \E x \in Answers : AnswerFetch(w, a, x)
                                                 \/ SubmitWithAnswer(w, a, x)
  PROVE  TimeInv'
<1>0. now \in Nat /\ \A a \in Ids : Attempt(row[a]) /\ Timely(row[a], now)
  BY DEF IInv, TypeInv, TimeInv
<1>1. ASSUME NEW a \in Ids, NEW next, Enter(w, Saving(a, row[a], Expire(row[a], now), next))
      PROVE  TimeInv'
  <2>1. Timely(Expire(row[a], now), now)
    BY <1>0, ExpireTimely
  <2>2. QED
    BY <1>1, <2>1, SavingTimes
<1>2. ASSUME StartCheck(w) PROVE TimeInv'
  <2>1. CASE Enter(w, [at |-> "create"])
    <3> DEFINE s == [at |-> "create"]
    <3>1. SlotTimely(s)
      BY DEF SlotTimely
    <3> HIDE DEF s
    <3>2. Enter(w, s)
      BY <2>1 DEF s
    <3>3. QED
      BY <3>1, <3>2, EnterTimes
  <2>2. ASSUME NEW a \in Ids,
               Enter(w, Saving(a, row[a], Expire(row[a], now),
                           IF FullyExpires(row[a], now) THEN "create" ELSE "end"))
        PROVE  TimeInv'
    BY <1>1, <2>2
  <2>3. QED
    BY <1>2, <2>1, <2>2 DEF StartCheck
<1>3. ASSUME NEW a \in Ids, PauseFetch(w, a) PROVE TimeInv'
  <2>1. Enter(w, Saving(a, row[a], Paused(row[a], now), "end"))
    BY <1>3 DEF PauseFetch, Paused
  <2>2. Timely(Paused(row[a], now), now)
    BY <1>0, PausedTimely
  <2>3. QED
    BY <2>1, <2>2, SavingTimes
<1>4. ASSUME NEW a \in Ids, ResumeFetch(w, a) PROVE TimeInv'
  <2>1. CASE Overdue(row[a], now) /\ Enter(w, Saving(a, row[a], Expire(row[a], now), "end"))
    BY <1>1, <2>1
  <2>2. CASE row[a].status = "PAUSED" /\ Enter(w, Saving(a, row[a], Resumed(row[a]), "end"))
    <3>1. Timely(Resumed(row[a]), now)
      BY <1>0, <2>2, ResumedTimely
    <3>2. QED
      BY <2>2, <3>1, SavingTimes
  <2>3. QED
    BY <1>4, <2>1, <2>2 DEF ResumeFetch
<1>5. ASSUME NEW a \in Ids, ViewFetch(w, a) PROVE TimeInv'
  BY <1>1, <1>5 DEF ViewFetch
<1>6. ASSUME NEW a \in Ids, NEW at, SubmitFetch(w, a, at) PROVE TimeInv'
  <2>1. Enter(w, Saving(a, row[a], Submitted(row[a], now), "end"))
    BY <1>6 DEF SubmitFetch
  <2>2. Timely(Submitted(row[a], now), now)
    BY <1>0, SubmittedTimely
  <2>3. QED
    BY <2>1, <2>2, SavingTimes
<1>7. ASSUME NEW a \in Ids, CompleteFetch(w, a) PROVE TimeInv'
  <2> DEFINE d == row[a]
             e == CompletedSession(d)
  <2>1. /\ SessionWise(d) /\ d.status = "IN_PROGRESS"
        /\ d.sessions[d.current].status # "LOCKED"
        /\ \/ Enter(w, Saving(a, d, e, "submit"))
           \/ ~IsLast(d) /\ Enter(w, Saving(a, d, NextSession(e), "end"))
    BY <1>7 DEF CompleteFetch
  <2>2. Attempt(e) /\ Timely(e, now)
    BY <1>0, <2>1, CompletedTimely
  <2>3. CASE Enter(w, Saving(a, d, e, "submit"))
    BY <2>2, <2>3, SavingTimes
  <2>4. CASE ~IsLast(d) /\ Enter(w, Saving(a, d, NextSession(e), "end"))
    <3>1. Made(d, NextSession(e), "end") /\ Made(d, e, "submit") /\ Touches(d, e)
      BY <1>0, <2>1, <2>4, NextIsMade, CompletedIsMade, CompletedTouches
    <3>2. /\ Attempt(NextSession(e)) /\ NextSession(e).paper = e.paper
          /\ SessionWise(e) /\ ~IsLast(e)
      BY <1>0, <2>1, <2>4, <3>1, TouchesShape DEF Made
    <3> HIDE DEF e
    <3>3. Timely(NextSession(e), now)
      BY <1>0, <2>2, <3>2, NextTimely
    <3>4. QED
      BY <2>4, <3>3, SavingTimes
  <2>5. QED
    BY <2>1, <2>3, <2>4
<1>8. ASSUME NEW a \in Ids, NEW x, NEW next,
             Enter(w, [at |-> "answer", a |-> a, read |-> row[a], answer |-> x,
                       next |-> next, t |-> now])
      PROVE  TimeInv'
  <2> DEFINE s == [at |-> "answer", a |-> a, read |-> row[a], answer |-> x,
                   next |-> next, t |-> now]
  <2>1. s.at = "answer" /\ s.read = row[a] /\ s.t = now /\ Enter(w, s)
    BY <1>8
  <2> HIDE DEF s
  <2>2. SlotTimely(s)
    BY <1>0, <2>1 DEF SlotTimely
  <2>3. QED
    BY <2>1, <2>2, EnterTimes
<1>9. ASSUME NEW a \in Ids, NEW x \in Answers,
             AnswerFetch(w, a, x) \/ SubmitWithAnswer(w, a, x)
      PROVE  TimeInv'
  BY <1>8, <1>9 DEF AnswerFetch, SubmitWithAnswer
<1>10. ASSUME CompleteSubmit(w) PROVE TimeInv'
  <2>1. slot[w].a \in Ids
    BY <1>10 DEF CompleteSubmit, IInv, SlotsInv, Placed
  <2>2. CASE SubmitFetch(w, slot[w].a, "submit")
    BY <1>6, <2>1, <2>2
  <2>3. CASE Enter(w, Idle)
    <3>1. SlotTimely(Idle)
      BY DEF SlotTimely, Idle
    <3>2. QED
      BY <2>3, <3>1, EnterTimes
  <2>4. QED
    BY <1>10, <2>2, <2>3 DEF CompleteSubmit
<1>11. QED
  BY <1>2, <1>3, <1>4, <1>5, <1>6, <1>7, <1>9, <1>10

\* The steps that write one row keep the times.
LEMMA WritingTimes ==
  ASSUME IInv, TimeInv, NEW w \in Slots, NEW s, NEW b \in Ids, NEW m,
         row' = [row EXCEPT ![b] = m], slot' = [slot EXCEPT ![w] = s],
         UNCHANGED <<now, active, blur>>, SlotTimely(s),
         Timely(m, now), m.paper = row[b].paper,
         raced' \subseteq raced \cup {b}, halfDone' \subseteq halfDone \cup {b}
  PROVE  TimeInv'
<1>1. /\ Len(row') = Len(row) /\ row'[b] = m /\ Len(row) \in Nat
      /\ \A a \in Ids : a # b => row'[a] = row[a]
      /\ Ids' = Ids /\ Ids = 1..Len(row)
  <2>1. Len(row) \in Nat /\ Ids = 1..Len(row) /\ IsWritten(row', b, m)
    BY RowsAreSeq DEF IInv
  <2>2. QED
    BY <2>1 DEF IsWritten, Ids
<1>2. Parts(m) = Parts(row[b])
  BY DEF Parts
<1>3. \A a \in Ids : Timely(row'[a], now) /\ DOMAIN active[a] = Parts(row'[a])
  BY <1>1, <1>2 DEF TimeInv
<1>4. b \in Attempts
  <2>1. Len(row) \in 0..NumAttempts
    BY DEF TimeInv
  <2>2. NumAttempts \in Nat
    BY BoundsAreNat
  <2>3. QED
    BY <1>1, <2>1, <2>2 DEF Attempts
<1>5. \A v \in Slots : SlotTimely(slot[v])'
  BY SlotTimesKept
<1>6. QED
  BY <1>1, <1>3, <1>4, <1>5 DEF TimeInv

\* updateOne on the question.
LEMMA WriteAnswerTimes ==
  ASSUME IInv, TimeInv, NEW w \in Slots, WriteAnswer(w)
  PROVE  TimeInv'
<1> DEFINE s == slot[w]
           m == Answered(row[s.a], s.read.current, s.answer)
           r == IF s.next = "end" THEN Idle ELSE [s EXCEPT !.at = "refetch"]
           as == [row[s.a].answers EXCEPT ![s.read.current] = s.answer]
<1>1. /\ row' = [row EXCEPT ![s.a] = m] /\ s.a \in Ids /\ m.paper = row[s.a].paper
  BY AnswerWrite
<1>2. /\ s.at = "answer" /\ s.at \in {"answer", "refetch", "save"}
      /\ slot' = [slot EXCEPT ![w] = r] /\ UNCHANGED <<now, active, blur, halfDone>>
      /\ raced' \subseteq raced \cup {s.a}
  BY DEF WriteAnswer
<1>3. SlotShape(s) /\ Attempt(s.read) /\ Attempt(row[s.a]) /\ row[s.a].paper = s.read.paper
  BY <1>2, HeldShape
<1>4. SlotTimely(s) /\ Timely(row[s.a], now) /\ now \in Nat
  BY <1>1 DEF TimeInv, IInv, TypeInv
<1>5. Timely(m, now)
  <2>1. s.answer \in {"none", "right", "wrong"}
    BY <1>2, <1>3, AnswersAreKnown DEF SlotShape
  <2>2. as \in [Parts(row[s.a]) -> {"none", "right", "wrong"}]
    BY <1>3, <2>1 DEF Attempt
  <2>3. m = [row[s.a] EXCEPT !.answers = as]
    BY <1>3 DEF Answered, Attempt
  <2> HIDE DEF as, m
  <2>4. QED
    BY <1>3, <1>4, <2>2, <2>3, AnsweredTimely
<1>6. SlotTimely(r)
  <2>1. CASE s.next = "end"
    BY <2>1 DEF SlotTimely, Idle
  <2>2. CASE s.next # "end"
    <3>1. s \in [at: {"answer", "refetch"}, a: {s.a}, read: {s.read}, answer: Answers,
                 next: {"end", "refetch"}, t: Int]
      BY <1>2, <1>3 DEF SlotShape
    <3>2. r = [s EXCEPT !.at = "refetch"]
      BY <2>2
    <3> HIDE DEF r, s
    <3>3. r.at = "refetch" /\ r.read = s.read /\ r.t = s.t
      BY <3>1, <3>2
    <3>4. QED
      BY <1>2, <1>4, <3>3 DEF SlotTimely
  <2>3. QED
    BY <2>1, <2>2
<1> HIDE DEF m, r, s
<1>7. QED
  BY <1>1, <1>2, <1>5, <1>6, WritingTimes

\* save().
LEMMA SaveTimes ==
  ASSUME IInv, TimeInv, NEW w \in Slots, Save(w)
  PROVE  TimeInv'
<1> DEFINE s == slot[w]
           d == s.read
           e == s.write
           m == Merge(d, e, row[s.a], s.whole)
           r == IF s.next = "create" THEN [at |-> "create"]
                ELSE IF s.next = "submit" THEN [at |-> "submit", a |-> s.a]
                ELSE Idle
<1>1. /\ row' = [row EXCEPT ![s.a] = m] /\ s.a \in Ids
      /\ Attempt(m) /\ m.paper = row[s.a].paper /\ Made(d, e, s.next)
  BY SaveUnraced
<1>2. /\ s.at = "save" /\ s.at \in {"answer", "refetch", "save"}
      /\ slot' = [slot EXCEPT ![w] = r] /\ UNCHANGED <<now, active, blur>>
      /\ raced' \subseteq raced \cup {s.a} /\ halfDone' \subseteq halfDone \cup {s.a}
  BY DEF Save
<1>3. /\ SlotShape(s) /\ Attempt(d) /\ Attempt(row[s.a]) /\ row[s.a].paper = d.paper
  BY <1>2, HeldShape
<1>4. s.whole \in BOOLEAN
  BY <1>2, <1>3 DEF SlotShape
<1>5. Timely(e, now) /\ Timely(row[s.a], now) /\ now \in Nat
  BY <1>1, <1>2 DEF TimeInv, SlotTimely, IInv, TypeInv
<1>6. Attempt(e) /\ e.paper = d.paper
  BY <1>1 DEF Made
<1>7. SlotTimely(r)
  BY DEF SlotTimely, Idle
<1>8. Timely(m, now)
  <2> DEFINE c == row[s.a]
  <2> HIDE DEF c, d, e
  <2>1. Attempt(c) /\ c.paper = d.paper /\ Timely(c, now)
    BY <1>3, <1>5 DEF c
  <2>2. m = Merge(d, e, c, s.whole)
    BY DEF c
  <2> HIDE DEF m
  <2>3. QED
    BY <1>3, <1>4, <1>5, <1>6, <2>1, <2>2, MergeTimely DEF d
<1> HIDE DEF s, d, e, m, r
<1>9. QED
  BY <1>1, <1>2, <1>7, <1>8, WritingTimes

\* The second read of a submit.
LEMMA RefetchTimes ==
  ASSUME IInv, TimeInv, NEW w \in Slots, SubmitRefetch(w)
  PROVE  TimeInv'
<1> DEFINE s == slot[w]
           as == row[s.a].answers
           d == [s.read EXCEPT !.answers = as]
           e == Submitted(d, s.t)
           r == [Saving(s.a, d, e, "end") EXCEPT !.whole = TRUE]
<1>1. /\ s.at = "refetch" /\ s.at \in {"answer", "refetch", "save"}
      /\ slot' = [slot EXCEPT ![w] = r] /\ row' = row
      /\ UNCHANGED <<now, active, blur, halfDone>> /\ raced' \subseteq raced \cup {s.a}
  BY DEF SubmitRefetch
<1>2. /\ s.a \in Ids /\ Attempt(s.read)
      /\ row[s.a].paper = s.read.paper /\ Attempt(row[s.a])
  BY <1>1, HeldShape
<1>3. s.t \in Nat /\ s.t <= now /\ Timely(s.read, s.t) /\ now \in Nat
  BY <1>1 DEF TimeInv, SlotTimely, IInv, TypeInv
<1>4. as \in [Parts(s.read) -> {"none", "right", "wrong"}]
  BY <1>2 DEF Attempt, Parts
<1> HIDE DEF as
<1>5. Attempt(d) /\ Timely(d, s.t)
  BY <1>2, <1>3, <1>4, AnsweredTimely
<1> HIDE DEF d
<1>6. Timely(e, s.t)
  BY <1>3, <1>5, SubmittedTimely
<1> HIDE DEF e
<1>7. Timely(d, now) /\ Timely(e, now)
  BY <1>3, <1>5, <1>6, LaterTimely
<1>8. r.at = "save" /\ r.read = d /\ r.write = e
  BY DEF Saving
<1> HIDE DEF r
<1>9. SlotTimely(r)
  BY <1>7, <1>8 DEF SlotTimely
<1>10. \A v \in Slots : SlotTimely(slot[v])'
  <2>1. PICK q : q = r
    OBVIOUS
  <2>2. slot' = [slot EXCEPT ![w] = q] /\ SlotTimely(q) /\ now' = now
    BY <1>1, <1>9, <2>1
  <2>3. QED
    BY <2>2, SlotTimesKept
<1>11. s.a \in Attempts
  <2>1. Len(row) \in 0..NumAttempts /\ Ids = 1..Len(row)
    BY DEF TimeInv, Ids
  <2>2. NumAttempts \in Nat
    BY BoundsAreNat
  <2> HIDE DEF s
  <2>3. QED
    BY <1>2, <2>1, <2>2 DEF Attempts
<1>12. QED
  BY <1>1, <1>10, <1>11 DEF TimeInv, Ids

\* The create of a row.
LEMMA CreateTimes ==
  ASSUME IInv, TimeInv, NEW w \in Slots, StartCreate(w)
  PROVE  TimeInv'
<1>1. PICK p \in Papers :
        /\ row' = Append(row, NewRow(p))
        /\ active' = [active EXCEPT ![Len(row) + 1] = [i \in 1..NumParts(p) |-> 0]]
  BY DEF StartCreate
<1>2. /\ slot' = [slot EXCEPT ![w] = Idle] /\ now' = now /\ raced' = raced
      /\ halfDone' = halfDone /\ blur' = blur /\ Len(row) < NumAttempts
  BY DEF StartCreate
<1> DEFINE d == NewRow(p)
           k == Len(row) + 1
           z == [i \in 1..NumParts(p) |-> 0]
<1>3. Timely(d, now) /\ Parts(d) = 1..NumParts(p)
  BY NewRowTimely DEF IInv, TypeInv
<1>4. row' = Append(row, d) /\ active' = [active EXCEPT ![k] = z] /\ DOMAIN z = Parts(d)
  BY <1>1, <1>3
<1> HIDE DEF d, z
<1>5. /\ Len(row) \in Nat /\ Ids = 1..Len(row) /\ Len(row') = k /\ row'[k] = d
      /\ \A a \in Ids : row'[a] = row[a]
  <2>1. Len(row) \in Nat /\ Ids = 1..Len(row) /\ IsAppended(row', d)
    BY <1>4, RowsAreSeq DEF IInv
  <2>2. QED
    BY <2>1 DEF IsAppended
<1>6. k \in Attempts /\ k \notin Ids /\ Ids' = Ids \cup {k} /\ Len(row') \in 0..NumAttempts
  <2>1. NumAttempts \in Nat
    BY BoundsAreNat
  <2>2. QED
    BY <1>2, <1>5, <2>1 DEF Attempts, Ids
<1> HIDE DEF k
<1>7. /\ active'[k] = z /\ DOMAIN active' = Attempts
      /\ \A a \in Ids : active'[a] = active[a]
  BY <1>4, <1>6 DEF TimeInv
<1>8. \A a \in Ids' : Timely(row'[a], now) /\ DOMAIN active'[a] = Parts(row'[a])
  BY <1>3, <1>4, <1>5, <1>6, <1>7 DEF TimeInv
<1>9. \A v \in Slots : SlotTimely(slot[v])'
  <2>1. SlotTimely(Idle)
    BY DEF SlotTimely, Idle
  <2>2. QED
    BY <1>2, <2>1, SlotTimesKept
<1>10. QED
  BY <1>2, <1>6, <1>7, <1>8, <1>9 DEF TimeInv

\* Time passes.
LEMMA TickTimes ==
  ASSUME IInv, TimeInv, Tick
  PROVE  TimeInv'
<1>1. /\ row' = row /\ slot' = slot /\ raced' = raced /\ halfDone' = halfDone
      /\ now' = now + 1 /\ now < MaxNow
      /\ active' = [a \in Attempts |->
                      [i \in DOMAIN active[a] |->
                         active[a][i] + IF a \in Ids /\ Running(a, i) THEN 1 ELSE 0]]
      /\ blur' = [a \in Attempts |->
                    blur[a] + IF \E w \in Slots : Holds(w, a) THEN 1 ELSE 0]
  BY DEF Tick
<1>2. now \in Nat /\ MaxNow \in Nat /\ now' \in Nat /\ now <= now' /\ now' \in 0..MaxNow
  BY <1>1, BoundsAreNat DEF IInv, TypeInv
<1>3. blur' \in [Attempts -> 0..now']
  <2>1. \A a \in Attempts : blur'[a] \in {blur[a], blur[a] + 1} /\ blur[a] \in 0..now
    BY <1>1 DEF TimeInv
  <2>2. \A a \in Attempts : blur'[a] \in 0..now'
    BY <1>1, <1>2, <2>1
  <2>3. blur' = [a \in Attempts |-> blur'[a]]
    BY <1>1
  <2>4. QED
    BY <2>2, <2>3
<1>4. Ids' = Ids /\ Ids \subseteq Attempts
  <2>1. Len(row) \in 0..NumAttempts /\ Ids = 1..Len(row)
    BY DEF TimeInv, Ids
  <2>2. NumAttempts \in Nat
    BY BoundsAreNat
  <2>3. QED
    BY <1>1, <2>1, <2>2 DEF Attempts, Ids
<1>5. \A a \in Ids : Timely(row[a], now') /\ DOMAIN active'[a] = Parts(row[a])
  <2>1. \A a \in Ids : DOMAIN active'[a] = DOMAIN active[a]
    BY <1>1, <1>4
  <2>2. QED
    BY <1>2, <2>1, LaterTimely DEF TimeInv
<1>6. \A w \in Slots : SlotTimely(slot[w])'
  <2>1. ASSUME NEW w \in Slots PROVE SlotTimely(slot[w])'
    <3> DEFINE s == slot[w]
    <3>1. SlotTimely(s)
      BY DEF TimeInv
    <3>2. s.at = "save" => Timely(s.read, now') /\ Timely(s.write, now')
      BY <1>2, <3>1, LaterTimely DEF SlotTimely
    <3>3. s.at \in {"answer", "refetch"} =>
            s.t \in Nat /\ s.t <= now' /\ Timely(s.read, s.t)
      BY <1>1, <1>2, <3>1 DEF SlotTimely
    <3>4. slot'[w] = slot[w]
      BY <1>1
    <3>5. QED
      BY <3>2, <3>3, <3>4 DEF SlotTimely
  <2>2. QED
    BY <2>1
<1>7. DOMAIN active' = Attempts
  BY <1>1
<1>8. QED
  BY <1>1, <1>2, <1>3, <1>4, <1>5, <1>6, <1>7 DEF TimeInv

\* At the start there is no row.
LEMMA InitTimes == Init => TimeInv
<1> SUFFICES ASSUME Init PROVE TimeInv
  OBVIOUS
<1>1. /\ row = <<>> /\ now = 0 /\ slot = [w \in Slots |-> Idle]
      /\ active = [a \in Attempts |-> [i \in {} |-> 0]] /\ blur = [a \in Attempts |-> 0]
      /\ raced = {} /\ halfDone = {}
  BY DEF Init
<1>2. MaxNow \in Nat /\ NumAttempts \in Nat
  BY BoundsAreNat
<1>3. Len(row) = 0
  BY <1>1, EmptySeq
<1>4. Ids = {}
  BY <1>3 DEF Ids
<1>5. SlotTimely(Idle)
  BY DEF SlotTimely, Idle
<1>6. \A w \in Slots : slot[w] = Idle
  BY <1>1
<1>7. blur \in [Attempts -> 0..now] /\ DOMAIN active = Attempts
  BY <1>1
<1>8. QED
  BY <1>1, <1>2, <1>3, <1>4, <1>5, <1>6, <1>7 DEF TimeInv

\* Every step keeps the times.
LEMMA StepTimes ==
  ASSUME IInv, TimeInv, [Next]_vars
  PROVE  TimeInv'
<1>1. CASE Tick
  BY <1>1, TickTimes
<1>2. CASE UNCHANGED vars
  <2>1. Ids' = Ids /\ UNCHANGED <<now, row, slot, active, blur, raced, halfDone>>
    BY <1>2 DEF vars, history, Ids
  <2>2. \A w \in Slots : SlotTimely(slot[w])'
    BY <2>1 DEF TimeInv, SlotTimely
  <2>3. QED
    BY <2>1, <2>2 DEF TimeInv
<1>3. ASSUME NEW w \in Slots, Handler(w) PROVE TimeInv'
  <2>1. CASE \/ StartCheck(w) \/ CompleteSubmit(w)
             \/ \E a \in Ids : \/ PauseFetch(w, a) \/ ResumeFetch(w, a) \/ ViewFetch(w, a)
                               \/ SubmitFetch(w, a, "idle") \/ CompleteFetch(w, a)
                               \/ \E x \in Answers : AnswerFetch(w, a, x)
                                                     \/ SubmitWithAnswer(w, a, x)
    BY <2>1, DecidingTimes
  <2>2. CASE StartCreate(w)
    BY <2>2, CreateTimes
  <2>3. CASE WriteAnswer(w)
    BY <2>3, WriteAnswerTimes
  <2>4. CASE SubmitRefetch(w)
    BY <2>4, RefetchTimes
  <2>5. CASE Save(w)
    BY <2>5, SaveTimes
  <2>6. QED
    BY <1>3, <2>1, <2>2, <2>3, <2>4, <2>5 DEF Handler
<1>4. QED
  BY <1>1, <1>2, <1>3 DEF Next

\* The times are sound in every reachable state.
LEMMA TimesAreSound == Spec => []TimeInv
<1>1. IInv /\ TimeInv /\ [Next]_vars => TimeInv'
  BY StepTimes
<1>2. QED
  BY InitTimes, Invariant, <1>1, PTL DEF Spec

\* TimeWithinPaper: the time an attempt stores is never more than its sessions allow
\* together, for any papers, and also on a row that handlers have saved over each
\* other: every handler caps what it adds up.
THEOREM TimeStaysWithinPaper == Spec => []TimeWithinPaper
<1>1. TimeInv => TimeWithinPaper
  BY DEF TimeInv, Timely, TimeWithinPaper
<1>2. QED
  BY TimesAreSound, <1>1, PTL

\* An attempt with its times is a row.
LEMMA IsRowOf ==
  ASSUME NEW d, NEW t, Attempt(d), Timely(d, t)
  PROVE  IsRow(d)
<1> DEFINE n == Len(d.paper.sessions)
<1>1. /\ d.paper \in Papers /\ d.status \in Open \cup Closed /\ d.current \in Parts(d)
      /\ d.answers \in [Parts(d) -> {"none", "right", "wrong"}]
      /\ d.sessions \in [1..n -> AnySession]
  BY DEF Attempt
<1>2. DOMAIN d.paper.sessions = 1..n
  BY <1>1, ConstantTypes, LenProperties
<1>3. ASSUME NEW i \in 1..n PROVE d.sessions[i] \in SessionRow
  <2>1. d.sessions[i].startedAt \in Nat /\ d.sessions[i].consumed \in Nat
    BY DEF Timely
  <2>2. d.sessions[i] \in AnySession
    BY <1>1
  <2>3. QED
    BY <2>1, <2>2 DEF AnySession, SessionRow, SessionStatus, Times
<1>4. d.sessions \in [1..n -> SessionRow]
  BY <1>1, <1>3
<1>5. {d.startedAt, d.consumed} \subseteq Nat /\ d.score \in Int
  BY DEF Timely
<1>6. QED
  BY <1>1, <1>2, <1>4, <1>5 DEF IsRow, Open, Times

\* TypeOK: rows, and what handlers have read and will write, are of their type for any
\* papers: no clock runs backwards, so no stored time is negative.
THEOREM TypeCorrect == Spec => []TypeOK
<1>1. IInv /\ TimeInv => TypeOK
  <2> SUFFICES ASSUME IInv, TimeInv PROVE TypeOK
    OBVIOUS
  <2>1. \A a \in Ids : IsRow(row[a]) /\ DOMAIN active[a] = Parts(row[a])
    BY IsRowOf DEF IInv, TypeInv, TimeInv
  <2>2. ASSUME NEW w \in Slots
        PROVE  /\ slot[w].at \in {"idle", "create", "answer", "refetch", "save", "submit"}
               /\ slot[w].at \in {"answer", "refetch", "save", "submit"} => slot[w].a \in Ids
               /\ slot[w].at \in {"answer", "refetch", "save"} => IsRow(slot[w].read)
               /\ slot[w].at = "save" => IsRow(slot[w].write)
    <3> DEFINE s == slot[w]
    <3>1. SlotShape(s) /\ Sound(s) /\ Placed(s) /\ SlotTimely(s)
      BY DEF IInv, SlotsInv, TimeInv
    <3> HIDE DEF s
    <3>2. s.at \in {"idle", "create", "answer", "refetch", "save", "submit"}
      BY <3>1 DEF SlotShape
    <3>3. s.at \in {"answer", "refetch", "save"} => IsRow(s.read)
      BY <3>1, IsRowOf DEF Sound, SlotTimely
    <3>4. s.at = "save" => IsRow(s.write)
      BY <3>1, IsRowOf DEF Sound, SlotTimely, Made
    <3>5. QED
      BY <3>1, <3>2, <3>3, <3>4 DEF s, Placed
  <2>3. \A a \in Attempts : blur[a] \in 0..MaxNow
    <3>1. MaxNow \in Nat /\ now \in 0..MaxNow
      BY BoundsAreNat DEF TimeInv
    <3>2. \A a \in Attempts : blur[a] \in 0..now
      BY DEF TimeInv
    <3>3. QED
      BY <3>1, <3>2
  <2>4. QED
    BY <2>1, <2>2, <2>3 DEF TypeOK, TimeInv
<1>2. QED
  BY Invariant, TimesAreSound, <1>1, PTL

-----------------------------------------------------------------------------
(***************************************************************************)
(* The account of the paper time. For every part of a row, what its record    *)
(* would charge now is compared with the ticks it was running. A handler that  *)
(* holds a row is late by the ticks that pass until it saves, and these are    *)
(* the ticks of blur: what is charged too much, and what too little, adds up   *)
(* to no more than blur over all parts. This holds of the row in store and of  *)
(* every row a handler is about to save, whenever that may be.                 *)
(***************************************************************************)
Runs(d, i) ==
  /\ d.status = "IN_PROGRESS"
  /\ SessionWise(d) => d.current = i /\ d.sessions[i].status = "IN_PROGRESS"
Consumed(d, i) == IF SessionWise(d) THEN d.sessions[i].consumed ELSE d.consumed
StartOf(d, i) == IF SessionWise(d) THEN d.sessions[i].startedAt ELSE d.startedAt

\* What the record charges part i at instant t.
Spent(d, i, t) == IF Runs(d, i) THEN Consumed(d, i) + t - StartOf(d, i) ELSE Consumed(d, i)

\* What x is above or below y. A part that was frozen when it was used up counts
\* as its length, so what it ran on is not held against it.
Positive(n) == IF n > 0 THEN n ELSE 0
Full(d, i, t) == ~Runs(d, i) /\ Spent(d, i, t) >= Duration(d, i)
More(d, i, t, y) ==
  IF Full(d, i, t) THEN Positive(Duration(d, i) - y) ELSE Positive(Spent(d, i, t) - y)
Less(d, i, t, y) == IF Full(d, i, t) THEN 0 ELSE Positive(y - Spent(d, i, t))

\* ran holds the ticks each part was running, b what the account may be wrong by.
Kept(d, t, ran, b) ==
  /\ SumFunction([i \in Parts(d) |-> More(d, i, t, ran[i])]) <= b
  /\ SumFunction([i \in Parts(d) |-> Less(d, i, t, ran[i])]) <= b

\* A frozen paper stores the sum of its parts, a paused one has time left, and a
\* session that is not open yet has used none.
Capped(d) == [i \in Parts(d) |-> Smaller(Consumed(d, i), Duration(d, i))]
Unopened(d) == \A i \in 1..Len(d.paper.sessions) : i > d.current => d.sessions[i].consumed = 0
Booked(d) ==
  /\ d.status # "IN_PROGRESS" => d.consumed = SumFunction(Capped(d))
  /\ d.status = "PAUSED" => Consumed(d, d.current) < AllowedTime(d)
  /\ Unopened(d)

\* A record made at t of another one charges no more and no less for any past.
Honest(d, e, t) ==
  /\ Booked(d) => Booked(e)
  /\ \A ran \in [Parts(d) -> Nat] : \A b \in Int :
       Booked(d) /\ Kept(d, t, ran, b) => Kept(e, t, ran, b)

\* A handler that holds a row, or will by the end of its request, keeps the account.
Counted(s) ==
  /\ s.at = "save" /\ s.a \notin raced =>
       Booked(s.write) /\ Kept(s.write, now, active[s.a], blur[s.a])
  /\ (s.at = "refetch" \/ (s.at = "answer" /\ s.next = "refetch")) /\ s.a \notin raced =>
       LET e == Submitted(s.read, s.t) IN Booked(e) /\ Kept(e, now, active[s.a], blur[s.a])

ClockInv ==
  /\ \A a \in Ids : active[a] \in [Parts(row[a]) -> Nat]
  /\ \A a \in Ids \ raced : Booked(row[a]) /\ Kept(row[a], now, active[a], blur[a])
  /\ \A w \in Slots : Counted(slot[w])

\* The account of a part is in numbers.
LEMMA PartIsNumber ==
  ASSUME NEW d, Attempt(d), NEW t \in Nat, Timely(d, t)
  PROVE  \A i \in Parts(d) :
           /\ Consumed(d, i) \in Nat /\ StartOf(d, i) \in Nat /\ StartOf(d, i) <= t
           /\ Spent(d, i, t) \in Nat /\ Duration(d, i) \in Nat
           /\ SessionWise(d) => i \in 1..Len(d.paper.sessions)
           /\ ~SessionWise(d) => i = d.current
           /\ \A y \in Nat : More(d, i, t, y) \in Nat /\ Less(d, i, t, y) \in Nat
<1> SUFFICES ASSUME NEW i \in Parts(d)
             PROVE /\ Consumed(d, i) \in Nat /\ StartOf(d, i) \in Nat /\ StartOf(d, i) <= t
                   /\ Spent(d, i, t) \in Nat /\ Duration(d, i) \in Nat
                   /\ SessionWise(d) => i \in 1..Len(d.paper.sessions)
                   /\ ~SessionWise(d) => i = d.current
                   /\ \A y \in Nat : More(d, i, t, y) \in Nat /\ Less(d, i, t, y) \in Nat
  OBVIOUS
<1>1. /\ SessionWise(d) => i \in 1..Len(d.paper.sessions)
      /\ ~SessionWise(d) => i = d.current
  BY AttemptShape
<1>2. Duration(d, i) \in Nat
  BY PaperShape
<1>3. Consumed(d, i) \in Nat /\ StartOf(d, i) \in Nat /\ StartOf(d, i) <= t
  BY <1>1 DEF Consumed, StartOf, Timely
<1>4. Spent(d, i, t) \in Nat
  BY <1>3 DEF Spent
<1>5. ASSUME NEW y \in Nat PROVE More(d, i, t, y) \in Nat /\ Less(d, i, t, y) \in Nat
  BY <1>2, <1>4 DEF More, Less, Positive
<1>6. QED
  BY <1>1, <1>2, <1>3, <1>4, <1>5

\* Both sums of the account are of numbers.
LEMMA AccountTypes ==
  ASSUME NEW d, Attempt(d), NEW t \in Nat, Timely(d, t), NEW ran \in [Parts(d) -> Nat]
  PROVE  /\ IsFiniteSet(Parts(d))
         /\ [i \in Parts(d) |-> More(d, i, t, ran[i])] \in [Parts(d) -> Int]
         /\ [i \in Parts(d) |-> Less(d, i, t, ran[i])] \in [Parts(d) -> Int]
<1>1. \A i \in Parts(d) : More(d, i, t, ran[i]) \in Int /\ Less(d, i, t, ran[i]) \in Int
  BY PartIsNumber
<1>2. QED
  BY <1>1, PaperShape

\* A record that is wrong by no more in any part keeps the account.
LEMMA KeptByParts ==
  ASSUME NEW d, NEW e, Attempt(d), Attempt(e), e.paper = d.paper,
         NEW t \in Nat, NEW u \in Nat, Timely(d, t), Timely(e, u),
         NEW ran \in [Parts(d) -> Nat], NEW new \in [Parts(d) -> Nat],
         NEW b \in Int, Kept(d, t, ran, b),
         \A i \in Parts(d) : /\ More(e, i, u, new[i]) <= More(d, i, t, ran[i])
                             /\ Less(e, i, u, new[i]) <= Less(d, i, t, ran[i])
  PROVE  Kept(e, u, new, b)
<1> DEFINE f == [i \in Parts(d) |-> More(d, i, t, ran[i])]
           g == [i \in Parts(d) |-> Less(d, i, t, ran[i])]
           h == [i \in Parts(e) |-> More(e, i, u, new[i])]
           k == [i \in Parts(e) |-> Less(e, i, u, new[i])]
<1>1. Parts(e) = Parts(d)
  BY DEF Parts
<1>2. /\ IsFiniteSet(Parts(d)) /\ f \in [Parts(d) -> Int] /\ g \in [Parts(d) -> Int]
  BY AccountTypes
<1>3. h \in [Parts(d) -> Int] /\ k \in [Parts(d) -> Int]
  BY <1>1, AccountTypes
<1>4. \A i \in Parts(d) : h[i] <= f[i] /\ k[i] <= g[i]
  BY <1>1
<1>5. SumFunction(f) <= b /\ SumFunction(g) <= b
  BY DEF Kept
<1>6. Kept(e, u, new, b) <=> SumFunction(h) <= b /\ SumFunction(k) <= b
  BY DEF Kept
<1> HIDE DEF f, g, h, k
<1>7. SumFunction(h) <= SumFunction(f)
  BY <1>2, <1>3, <1>4, SumMonotone
<1>8. SumFunction(k) <= SumFunction(g)
  BY <1>2, <1>3, <1>4, SumMonotone
<1>9. SumFunction(h) \in Int /\ SumFunction(f) \in Int
  BY <1>2, <1>3, SumType
<1>10. SumFunction(k) \in Int /\ SumFunction(g) \in Int
  BY <1>2, <1>3, SumType
<1>11. QED
  BY <1>5, <1>6, <1>7, <1>8, <1>9, <1>10

\* What a handler may do to part i at t: it leaves what is charged, and starts the
\* clock only of a part with time left, or it closes a part that is used up.
Settles(d, e, i, t) ==
  \/ /\ Spent(e, i, t) = Spent(d, i, t)
     /\ Runs(e, i) => Runs(d, i) \/ Spent(d, i, t) < Duration(d, i)
  \/ /\ ~Runs(e, i) /\ Spent(e, i, t) = Duration(d, i)
     /\ Spent(d, i, t) >= Duration(d, i)

\* Then the account of the part gets no worse.
LEMMA PartSettles ==
  ASSUME NEW d, NEW e, Attempt(d), Attempt(e), e.paper = d.paper,
         NEW t \in Nat, Timely(d, t), Timely(e, t),
         NEW i \in Parts(d), Settles(d, e, i, t), NEW y \in Nat
  PROVE  More(e, i, t, y) <= More(d, i, t, y) /\ Less(e, i, t, y) <= Less(d, i, t, y)
<1>1. Spent(d, i, t) \in Nat /\ Duration(d, i) \in Nat
  BY PartIsNumber
<1>2. Duration(e, i) = Duration(d, i)
  <2>1. SessionWise(e) <=> SessionWise(d)
    BY AttemptShape
  <2>2. QED
    BY <2>1 DEF Duration
<1> DEFINE x == Spent(d, i, t)
           z == Spent(e, i, t)
           D == Duration(d, i)
<1>3. \/ z = x /\ (Runs(e, i) => Runs(d, i) \/ x < D)
      \/ ~Runs(e, i) /\ z = D /\ x >= D
  BY DEF Settles
<1>4. /\ More(d, i, t, y) = IF ~Runs(d, i) /\ x >= D THEN Positive(D - y) ELSE Positive(x - y)
      /\ Less(d, i, t, y) = IF ~Runs(d, i) /\ x >= D THEN 0 ELSE Positive(y - x)
      /\ More(e, i, t, y) = IF ~Runs(e, i) /\ z >= D THEN Positive(D - y) ELSE Positive(z - y)
      /\ Less(e, i, t, y) = IF ~Runs(e, i) /\ z >= D THEN 0 ELSE Positive(y - z)
  BY <1>2 DEF More, Less, Full
<1>5. x \in Nat /\ D \in Nat /\ z \in Nat
  BY <1>1, <1>3
<1> HIDE DEF x, z, D
<1>6. CASE Runs(e, i)
  BY <1>3, <1>4, <1>5, <1>6 DEF Positive
<1>7. CASE ~Runs(e, i)
  BY <1>3, <1>4, <1>5, <1>7 DEF Positive
<1>8. QED
  BY <1>6, <1>7

\* A record that settles every part is honest.
LEMMA SettledIsHonest ==
  ASSUME NEW d, NEW e, Attempt(d), Attempt(e), e.paper = d.paper,
         NEW t \in Nat, Timely(d, t), Timely(e, t),
         Booked(d) => Booked(e) /\ \A i \in Parts(d) : Settles(d, e, i, t)
  PROVE  Honest(d, e, t)
<1>1. ASSUME NEW ran \in [Parts(d) -> Nat], NEW b \in Int, Booked(d), Kept(d, t, ran, b)
      PROVE  Kept(e, t, ran, b)
  <2>1. \A i \in Parts(d) : /\ More(e, i, t, ran[i]) <= More(d, i, t, ran[i])
                            /\ Less(e, i, t, ran[i]) <= Less(d, i, t, ran[i])
    BY <1>1, PartSettles
  <2>2. QED
    BY <1>1, <2>1, KeptByParts
<1>2. QED
  BY <1>1 DEF Honest

\* Two honest changes are one.
LEMMA HonestTwice ==
  ASSUME NEW d, NEW e, NEW f, NEW t, e.paper = d.paper,
         Honest(d, e, t), Honest(e, f, t)
  PROVE  Honest(d, f, t)
<1>1. Parts(e) = Parts(d)
  BY DEF Parts
<1>2. QED
  BY <1>1 DEF Honest

\* The running timer is what the current part is charged.
LEMMA ElapsedIsSpent ==
  ASSUME NEW d, Attempt(d), NEW t, d.status \in Open
  PROVE  TimeElapsed(d, t) = Spent(d, d.current, t)
<1>1. d.status = "IN_PROGRESS" \/ d.status = "PAUSED"
  BY DEF Open
<1>2. QED
  BY <1>1 DEF TimeElapsed, Spent, Runs, Consumed, StartOf

\* A touch settles the parts it does not touch.
LEMMA TouchSettles ==
  ASSUME NEW d, NEW e, Attempt(d), Touches(d, e), NEW t \in Nat, Timely(d, t),
         Settles(d, e, d.current, t)
  PROVE  \A i \in Parts(d) : Settles(d, e, i, t)
<1> SUFFICES ASSUME NEW i \in Parts(d), i # d.current PROVE Settles(d, e, i, t)
  OBVIOUS
<1>1. /\ e.paper = d.paper /\ e.current = d.current /\ Attempt(e)
      /\ \A k \in 1..Len(d.paper.sessions) : k # d.current => e.sessions[k] = d.sessions[k]
  BY DEF Touches
<1>2. SessionWise(d) /\ i \in 1..Len(d.paper.sessions)
  BY PartIsNumber
<1>3. SessionWise(e) <=> SessionWise(d)
  BY <1>1, AttemptShape
<1>4. ~Runs(d, i) /\ ~Runs(e, i)
  BY <1>1, <1>2, <1>3 DEF Runs
<1>5. Spent(e, i, t) = Spent(d, i, t)
  BY <1>1, <1>2, <1>3, <1>4 DEF Spent, Consumed
<1>6. QED
  BY <1>4, <1>5 DEF Settles

\* A touch opens no session.
LEMMA TouchUnopened ==
  ASSUME NEW d, NEW e, Attempt(d), Touches(d, e), Unopened(d)
  PROVE  Unopened(e)
<1>1. /\ e.paper = d.paper /\ e.current = d.current /\ d.current \in Nat
      /\ \A k \in 1..Len(d.paper.sessions) : k # d.current => e.sessions[k] = d.sessions[k]
  BY AttemptShape DEF Touches
<1>2. QED
  BY <1>1 DEF Unopened

\* What is stored as the time of the paper is the sum of its parts, when what the
\* current session has used is what its timer shows.
LEMMA TotalIsCapped ==
  ASSUME NEW q, Attempt(q), NEW t \in Nat, Timely(q, t), NEW elapsed \in Nat,
         SessionWise(q) => Smaller(q.sessions[q.current].consumed, AllowedTime(q))
                             = Smaller(elapsed, AllowedTime(q)),
         NEW e, Attempt(e), e.paper = q.paper, e.current = q.current,
         e.sessions = q.sessions, e.consumed = TotalTime(q, elapsed)
  PROVE  e.consumed = SumFunction(Capped(e))
<1> DEFINE spent == Smaller(elapsed, AllowedTime(q))
           c == q.current
           f == [i \in Parts(q) |->
                   IF i = c THEN 0 ELSE Smaller(q.sessions[i].consumed, Duration(q, i))]
<1>1. /\ IsFiniteSet(Parts(q)) /\ c \in Parts(q) /\ AllowedTime(q) = Duration(q, c)
      /\ \A i \in Parts(q) : Duration(q, i) \in Nat
  BY PaperShape DEF AllowedTime
<1>2. Parts(e) = Parts(q) /\ (SessionWise(e) <=> SessionWise(q))
  BY AttemptShape DEF Parts
<1>3. \A i \in Parts(q) : Duration(e, i) = Duration(q, i)
  BY <1>2 DEF Duration
<1>4. spent \in Nat /\ Smaller(spent, AllowedTime(q)) = spent
  BY <1>1 DEF Smaller
<1>5. CASE ~SessionWise(q)
  <2>1. e.consumed = spent
    BY <1>5 DEF TotalTime
  <2>2. Parts(q) = {1} /\ c = 1
    BY <1>5, AttemptShape
  <2>3. Capped(e) = [i \in {1} |-> spent]
    BY <1>1, <1>2, <1>3, <1>4, <1>5, <2>1, <2>2 DEF Capped, Consumed
  <2> HIDE DEF spent
  <2>4. [i \in {1} |-> spent] \in [{1} -> Int] /\ [i \in {1} |-> spent][1] = spent
    BY <1>4
  <2>5. QED
    BY <2>1, <2>3, <2>4, SumOfOne
<1>6. CASE SessionWise(q)
  <2>1. e.consumed = spent + SumFunction(f)
    BY <1>6 DEF TotalTime
  <2>2. \A i \in Parts(q) : q.sessions[i].consumed \in Nat
    BY <1>6, PartIsNumber DEF Timely
  <2>3. \A i \in Parts(q) : Smaller(q.sessions[i].consumed, Duration(q, i)) \in Nat
    BY <1>1, <2>2 DEF Smaller
  <2> DEFINE h == Capped(e)
  <2>4. h = [i \in Parts(q) |-> Smaller(q.sessions[i].consumed, Duration(q, i))]
    BY <1>2, <1>3, <1>6 DEF Capped, Consumed
  <2> HIDE DEF h
  <2>5. /\ f \in [Parts(q) -> Int] /\ f[c] = 0
        /\ h \in [Parts(q) -> Int] /\ h[c] = spent
        /\ \A i \in Parts(q) : i # c => f[i] = h[i]
    <3> HIDE DEF spent
    <3>1. f \in [Parts(q) -> Int] /\ f[c] = 0
      BY <1>1, <2>3
    <3>2. h \in [Parts(q) -> Int]
      BY <2>3, <2>4
    <3>3. h[c] = spent
      BY <1>1, <1>6, <2>4 DEF spent
    <3>4. \A i \in Parts(q) : i # c => f[i] = h[i]
      BY <2>4
    <3>5. QED
      BY <3>1, <3>2, <3>3, <3>4
  <2> HIDE DEF f, spent, c
  <2>6. SumFunction(h) = SumFunction(f) + h[c] - f[c]
    BY <1>1, <2>5, SumDiffers, ZenonT(40)
  <2>7. SumFunction(f) \in Int
    BY <1>1, <2>5, SumType
  <2>8. QED
    BY <1>4, <2>1, <2>5, <2>6, <2>7 DEF h
<1>7. QED
  BY <1>5, <1>6

\* A handler that stops the timer of the current part at t, and writes what it shows,
\* each part up to its length, keeps the account.
LEMMA StoppedIsHonest ==
  ASSUME NEW d, Attempt(d), NEW t \in Nat, Timely(d, t), d.status \in Open,
         NEW q, Touches(d, q), Timely(q, t), NEW e, Touches(q, e), Timely(e, t),
         e.sessions = q.sessions,
         SessionWise(d) =>
           q.sessions[d.current].consumed = Smaller(TimeElapsed(d, t), AllowedTime(d)),
         \/ e.consumed = TotalTime(q, TimeElapsed(d, t))
         \/ SessionWise(d) /\ e.status = "IN_PROGRESS",
         \/ e.status # "IN_PROGRESS"
         \/ SessionWise(d) /\ e.sessions[d.current].status # "IN_PROGRESS",
         e.status = "PAUSED" => TimeElapsed(d, t) < AllowedTime(d)
  PROVE  Honest(d, e, t)
<1> DEFINE c == d.current
           x == TimeElapsed(d, t)
<1>1. /\ Touches(d, e) /\ Attempt(q) /\ Attempt(e) /\ e.paper = d.paper /\ q.paper = d.paper
      /\ e.current = c /\ q.current = c
  BY TouchesTwice DEF Touches
<1>2. /\ SessionWise(e) <=> SessionWise(d)
      /\ AllowedTime(e) = AllowedTime(d)
  BY <1>1, TouchesShape
<1>3. /\ SessionWise(q) <=> SessionWise(d)
      /\ AllowedTime(q) = AllowedTime(d)
  BY <1>1, TouchesShape
<1>4. /\ c \in Parts(d) /\ Duration(d, c) = AllowedTime(d) /\ AllowedTime(d) \in Nat
      /\ x \in Nat /\ x = Spent(d, c, t)
  BY PaperShape, ElapsedIsTime, ElapsedIsSpent DEF AllowedTime
<1> HIDE DEF x
<1>5. Consumed(e, c) = Smaller(x, AllowedTime(d))
  <2>1. CASE SessionWise(d)
    BY <1>1, <1>2, <2>1 DEF Consumed, x
  <2>2. CASE ~SessionWise(d)
    BY <1>2, <1>3, <2>2 DEF Consumed, TotalTime, x
  <2>3. QED
    BY <2>1, <2>2
<1>6. ~Runs(e, c)
  BY <1>1, <1>2 DEF Runs
<1>7. Settles(d, e, c, t)
  <2>1. Spent(e, c, t) = Smaller(x, AllowedTime(d))
    BY <1>5, <1>6 DEF Spent
  <2>2. CASE x < AllowedTime(d)
    <3>1. Spent(e, c, t) = Spent(d, c, t)
      BY <1>4, <2>1, <2>2 DEF Smaller
    <3>2. QED
      BY <1>6, <3>1 DEF Settles
  <2>3. CASE x >= AllowedTime(d)
    <3>1. Spent(e, c, t) = Duration(d, c) /\ Spent(d, c, t) >= Duration(d, c)
      BY <1>4, <2>1, <2>3 DEF Smaller
    <3>2. QED
      BY <1>6, <3>1 DEF Settles
  <2>4. QED
    BY <1>4, <2>2, <2>3
<1>8. ASSUME e.status # "IN_PROGRESS" PROVE e.consumed = SumFunction(Capped(e))
  <2>1. e.consumed = TotalTime(q, x)
    BY <1>8 DEF x
  <2>2. SessionWise(q) =>
          Smaller(q.sessions[q.current].consumed, AllowedTime(q)) = Smaller(x, AllowedTime(q))
    BY <1>1, <1>3, <1>4 DEF Smaller, x
  <2>3. e.paper = q.paper /\ e.current = q.current
    BY <1>1
  <2>4. QED
    BY <1>1, <1>4, <2>1, <2>2, <2>3, TotalIsCapped
<1>9. e.status = "PAUSED" => Consumed(e, e.current) < AllowedTime(e)
  BY <1>1, <1>2, <1>4, <1>5 DEF Smaller, x
<1>10. Booked(d) => Booked(e)
  <2>1. Unopened(d) => Unopened(e)
    BY <1>1, TouchUnopened
  <2>2. QED
    BY <1>8, <1>9, <2>1 DEF Booked
<1>11. \A i \in Parts(d) : Settles(d, e, i, t)
  BY <1>1, <1>7, TouchSettles
<1>12. QED
  BY <1>1, <1>10, <1>11, SettledIsHonest

\* autoExpireIfNeeded keeps the account.
LEMMA ExpireIsHonest ==
  ASSUME NEW d, Attempt(d), NEW t \in Nat, Timely(d, t), Overdue(d, t)
  PROVE  Honest(d, Expire(d, t), t)
<1> DEFINE p == Put(d, "EXPIRED", AllowedTime(d))
           b == IF SessionWise(d) THEN SetTime(p, TotalTime(p, AllowedTime(d))) ELSE d
           e == Expire(d, t)
<1>1. /\ AllowedTime(d) \in Nat /\ TimeElapsed(d, t) \in Nat /\ Score(d.answers) \in Int
      /\ d.status = "IN_PROGRESS" /\ TimeElapsed(d, t) > AllowedTime(d)
  BY PaperShape, ElapsedIsTime, ScoreIsNumber DEF Overdue
<1>2. e = IF ~IsLast(d) THEN b
          ELSE Close(b, "EXPIRED", TotalTime(b, TimeElapsed(d, t)), Score(d.answers))
  BY DEF Expire, ExpireSession, Put, SetTime, Close
<1>3. /\ Attempt(b) /\ Timely(b, t) /\ Touches(d, b) /\ b.status = d.status
      /\ SessionWise(d) => /\ b.sessions[d.current].status = "EXPIRED"
                           /\ b.sessions[d.current].consumed = AllowedTime(d)
  <2>1. CASE SessionWise(d)
    <3>1. /\ Attempt(p) /\ Timely(p, t) /\ Touches(d, p) /\ p.status = d.status
      BY <1>1, <2>1, PutTimely DEF SessionStatus, Closed
    <3>2. /\ p.sessions[d.current].status = "EXPIRED"
          /\ p.sessions[d.current].consumed = AllowedTime(d)
      BY <1>1, <2>1, PutTouches DEF SessionStatus, Closed
    <3> HIDE DEF p
    <3>3. Attempt(b) /\ Timely(b, t) /\ Touches(p, b) /\ b.status = p.status
      BY <1>1, <2>1, <3>1, SetTimely
    <3>4. b.sessions = p.sessions
      BY <2>1, <3>1, TimeTouches
    <3>5. QED
      BY <3>1, <3>2, <3>3, <3>4, TouchesTwice
  <2>2. CASE ~SessionWise(d)
    BY <2>2 DEF Touches
  <2>3. QED
    BY <2>1, <2>2
<1> HIDE DEF b, e
<1>4. SessionWise(d) =>
        b.sessions[d.current].consumed = Smaller(TimeElapsed(d, t), AllowedTime(d))
  BY <1>1, <1>3 DEF Smaller
<1>5. CASE IsLast(d)
  <2>1. "EXPIRED" \in Open \cup Closed
    BY DEF Closed
  <2>2. e = Close(b, "EXPIRED", TotalTime(b, TimeElapsed(d, t)), Score(d.answers))
    BY <1>2, <1>5
  <2>3. /\ Touches(b, e) /\ e.status = "EXPIRED" /\ e.sessions = b.sessions
        /\ e.consumed = TotalTime(b, TimeElapsed(d, t)) /\ Timely(e, t)
    BY <1>1, <1>3, <2>1, <2>2, CloseTouches, CloseTimely
  <2>4. e.status # "IN_PROGRESS" /\ e.status # "PAUSED" /\ d.status \in Open
    BY <1>1, <2>3 DEF Open
  <2>5. Honest(d, e, t)
    BY <1>3, <1>4, <2>3, <2>4, StoppedIsHonest
  <2>6. QED
    BY <2>5 DEF e
<1>6. CASE ~IsLast(d)
  <2>1. SessionWise(d) /\ e = b
    BY <1>2, <1>6 DEF IsLast
  <2>2. /\ Touches(b, e) /\ Timely(e, t) /\ e.sessions = b.sessions
        /\ e.status = "IN_PROGRESS" /\ e.status # "PAUSED" /\ d.status \in Open
        /\ e.sessions[d.current].status # "IN_PROGRESS"
    BY <1>1, <1>3, <2>1 DEF Touches, Open
  <2>3. Honest(d, e, t)
    BY <1>3, <1>4, <2>1, <2>2, StoppedIsHonest
  <2>4. QED
    BY <2>3 DEF e
<1>7. QED
  BY <1>5, <1>6

\* pauseAttempt keeps the account.
LEMMA PausedIsHonest ==
  ASSUME NEW d, Attempt(d), NEW t \in Nat, Timely(d, t), d.status = "IN_PROGRESS",
         TimeElapsed(d, t) + Grace < AllowedTime(d)
  PROVE  Honest(d, Paused(d, t), t)
<1> DEFINE c == Smaller(TimeElapsed(d, t), AllowedTime(d))
           p == IF SessionWise(d) THEN Put(d, "PAUSED", c) ELSE d
           q == [p EXCEPT !.status = "PAUSED"]
           e == Paused(d, t)
<1>1. TimeElapsed(d, t) \in Nat /\ c \in Nat /\ AllowedTime(d) \in Nat /\ Grace \in Nat
  BY PaperShape, ElapsedIsTime, SmallerIsTime, ConstantTypes
<1>2. e = SetTime(q, TotalTime(q, TimeElapsed(d, t)))
  BY PausedIs
<1> HIDE DEF e
<1>3. /\ Attempt(p) /\ Timely(p, t) /\ Touches(d, p)
      /\ SessionWise(d) => p.sessions[d.current].consumed = c
  <2> HIDE DEF c
  <2>1. CASE SessionWise(d)
    <3>1. "PAUSED" \in SessionStatus
      BY DEF SessionStatus
    <3>2. QED
      BY <1>1, <2>1, <3>1, PutTimely, PutTouches
  <2>2. CASE ~SessionWise(d)
    BY <2>2 DEF Touches
  <2>3. QED
    BY <2>1, <2>2
<1> HIDE DEF p
<1>4. /\ Attempt(q) /\ Timely(q, t) /\ Touches(p, q) /\ q.status = "PAUSED"
      /\ q.sessions = p.sessions
  <2>1. "PAUSED" \in Open \cup Closed
    BY DEF Open
  <2>2. Attempt(q) /\ Timely(q, t)
    BY <1>3, <2>1, StatusTimely
  <2>3. Touches(p, q) /\ q.status = "PAUSED" /\ q.sessions = p.sessions
    BY <1>3, <2>1 DEF Attempt, Parts, Touches
  <2>4. QED
    BY <2>2, <2>3
<1> HIDE DEF q
<1>5. /\ Touches(q, e) /\ e.status = "PAUSED" /\ e.sessions = q.sessions
      /\ e.consumed = TotalTime(q, TimeElapsed(d, t)) /\ Timely(e, t)
  BY <1>1, <1>2, <1>4, TimeTouches, SetTimely
<1>6. Touches(d, q) /\ d.status \in Open /\ e.status # "IN_PROGRESS"
  BY <1>3, <1>4, <1>5, TouchesTwice DEF Open
<1>7. TimeElapsed(d, t) < AllowedTime(d)
  BY <1>1
<1>8. SessionWise(d) => q.sessions[d.current].consumed = Smaller(TimeElapsed(d, t), AllowedTime(d))
  BY <1>3, <1>4
<1>9. Honest(d, e, t)
  BY <1>4, <1>5, <1>6, <1>7, <1>8, StoppedIsHonest
<1>10. QED
  BY <1>9 DEF e

\* submitAttempt keeps the account.
LEMMA SubmittedIsHonest ==
  ASSUME NEW d, Attempt(d), NEW t \in Nat, Timely(d, t), d.status = "IN_PROGRESS"
  PROVE  Honest(d, Submitted(d, t), t)
<1> DEFINE c == Smaller(TimeElapsed(d, t), AllowedTime(d))
           v == IF \/ TimeElapsed(d, t) > AllowedTime(d)
                   \/ SessionWise(d) /\ d.sessions[d.current].status = "EXPIRED"
                THEN "EXPIRED" ELSE "SUBMITTED"
           q == IF SessionWise(d) THEN Put(d, v, c) ELSE d
           e == Submitted(d, t)
<1>1. TimeElapsed(d, t) \in Nat /\ c \in Nat /\ Score(d.answers) \in Int
  BY PaperShape, ElapsedIsTime, SmallerIsTime, ScoreIsNumber
<1>2. e = Close(q, v, TotalTime(q, TimeElapsed(d, t)), Score(d.answers))
  BY DEF Submitted, Put, Close
<1>3. v \in SessionStatus /\ v \in Open \cup Closed /\ v # "IN_PROGRESS" /\ v # "PAUSED"
  BY DEF SessionStatus, Closed
<1> HIDE DEF v, e
<1>4. /\ Attempt(q) /\ Timely(q, t) /\ Touches(d, q)
      /\ SessionWise(d) => q.sessions[d.current].consumed = c
  <2> HIDE DEF c
  <2>1. CASE SessionWise(d)
    BY <1>1, <1>3, <2>1, PutTimely, PutTouches
  <2>2. CASE ~SessionWise(d)
    BY <2>2 DEF Touches
  <2>3. QED
    BY <2>1, <2>2
<1> HIDE DEF q
<1>5. /\ Touches(q, e) /\ e.status = v /\ e.sessions = q.sessions
      /\ e.consumed = TotalTime(q, TimeElapsed(d, t)) /\ Timely(e, t)
  BY <1>1, <1>2, <1>3, <1>4, CloseTouches, CloseTimely
<1>6. d.status \in Open /\ e.status # "IN_PROGRESS" /\ e.status # "PAUSED"
  BY <1>3, <1>5 DEF Open
<1>7. Honest(d, e, t)
  BY <1>4, <1>5, <1>6, StoppedIsHonest
<1>8. QED
  BY <1>7 DEF e

\* completeSession keeps the account when it closes the current session.
LEMMA CompletedIsHonest ==
  ASSUME NEW d, Attempt(d), SessionWise(d), now \in Nat, Timely(d, now),
         d.status = "IN_PROGRESS"
  PROVE  Honest(d, CompletedSession(d), now)
<1> DEFINE c == Smaller(TimeElapsed(d, now), AllowedTime(d))
           v == IF TimeElapsed(d, now) > AllowedTime(d) THEN "EXPIRED" ELSE "SUBMITTED"
           p == Put(d, v, c)
           e == CompletedSession(d)
<1>1. TimeElapsed(d, now) \in Nat /\ c \in Nat
  BY PaperShape, ElapsedIsTime, SmallerIsTime
<1>2. e = SetTime(p, TotalTime(p, TimeElapsed(d, now))) \/ e = d
  BY DEF CompletedSession, Put, SetTime
<1>3. v \in SessionStatus /\ v # "IN_PROGRESS"
  BY DEF SessionStatus, Closed
<1> HIDE DEF v, e
<1>4. CASE e = SetTime(p, TotalTime(p, TimeElapsed(d, now)))
  <2>1. /\ Attempt(p) /\ Timely(p, now) /\ Touches(d, p) /\ p.status = d.status
        /\ p.sessions[d.current].consumed = c /\ p.sessions[d.current].status = v
    <3> HIDE DEF c
    <3>1. QED
      BY <1>1, <1>3, PutTimely, PutTouches
  <2> HIDE DEF p
  <2>2. /\ Touches(p, e) /\ e.status = p.status /\ e.sessions = p.sessions
        /\ e.consumed = TotalTime(p, TimeElapsed(d, now)) /\ Timely(e, now)
    BY <1>1, <1>4, <2>1, TimeTouches, SetTimely
  <2>3. /\ d.status \in Open /\ e.status # "PAUSED"
        /\ e.sessions[d.current].status # "IN_PROGRESS"
    BY <1>3, <2>1, <2>2 DEF Open
  <2>4. Honest(d, e, now)
    BY <2>1, <2>2, <2>3, StoppedIsHonest
  <2>5. QED
    BY <2>4 DEF e
<1>5. CASE e = d
  <2>1. Honest(d, e, now)
    BY <1>5 DEF Honest
  <2>2. QED
    BY <2>1 DEF e
<1>6. QED
  BY <1>2, <1>4, <1>5

\* resumeAttempt keeps the account: a paused timer starts again with what it showed.
LEMMA ResumedIsHonest ==
  ASSUME NEW d, Attempt(d), now \in Nat, Timely(d, now), d.status = "PAUSED"
  PROVE  Honest(d, Resumed(d), now)
<1> DEFINE e == Resumed(d)
           n == Len(d.paper.sessions)
           c == d.current
<1>1. /\ Touches(d, e) /\ e.status = "IN_PROGRESS" /\ Timely(e, now)
      /\ SessionWise(d) => e.sessions[c].status = "IN_PROGRESS"
  BY ResumedTouches, ResumedTimely
<1>2. /\ e.startedAt = now /\ e.consumed = d.consumed
      /\ SessionWise(d) => /\ e.sessions[c].startedAt = now
                           /\ e.sessions[c].consumed = d.sessions[c].consumed
  <2>1. CASE SessionWise(d)
    <3>1. /\ d.current \in 1..n /\ d.sessions[d.current] \in AnySession
          /\ d.sessions \in [1..n -> AnySession]
      BY <2>1, AttemptShape DEF Attempt
    <3>2. QED
      BY <2>1, <3>1 DEF Resumed, Attempt, AnySession
  <2>2. CASE ~SessionWise(d)
    BY <2>2 DEF Resumed, Attempt
  <2>3. QED
    BY <2>1, <2>2
<1> HIDE DEF e
<1>3. Attempt(e) /\ e.paper = d.paper /\ e.current = c
  BY <1>1 DEF Touches
<1>4. SessionWise(e) <=> SessionWise(d)
  BY <1>1, TouchesShape
<1>5. c \in Parts(d) /\ AllowedTime(d) = Duration(d, c)
  BY PaperShape DEF AllowedTime
<1>6. Consumed(d, c) \in Nat
  BY <1>5, PartIsNumber
<1>7. ~Runs(d, c) /\ Runs(e, c)
  BY <1>1, <1>3, <1>4 DEF Runs
<1>8. Spent(d, c, now) = Consumed(d, c) /\ Spent(e, c, now) = Consumed(d, c)
  <2>1. Consumed(e, c) = Consumed(d, c) /\ StartOf(e, c) = now
    BY <1>2, <1>4 DEF Consumed, StartOf
  <2>2. QED
    BY <1>6, <1>7, <2>1 DEF Spent
<1>9. ASSUME Booked(d) PROVE Settles(d, e, c, now)
  <2>1. Consumed(d, c) < Duration(d, c)
    BY <1>5, <1>9 DEF Booked
  <2>2. QED
    BY <1>8, <2>1 DEF Settles
<1>10. Booked(d) => Booked(e)
  <2>1. Unopened(d) => Unopened(e)
    BY <1>1, TouchUnopened
  <2>2. QED
    BY <1>1, <2>1 DEF Booked
<1>11. Booked(d) => \A i \in Parts(d) : Settles(d, e, i, now)
  BY <1>1, <1>9, TouchSettles
<1>12. Honest(d, e, now)
  BY <1>1, <1>3, <1>10, <1>11, SettledIsHonest
<1>13. QED
  BY <1>12 DEF e

\* A part of a paper takes some time.
LEMMA PartsTakeTime ==
  ASSUME NEW d, Attempt(d)
  PROVE  \A i \in Parts(d) : Duration(d, i) > 0
<1> DEFINE n == Len(d.paper.sessions)
<1>1. d.paper \in [sessions: Seq(Nat \ {0}), duration: Nat \ {0}]
  BY PapersAreTimed DEF Attempt
<1>2. d.paper.sessions \in Seq(Nat \ {0}) /\ d.paper.duration \in Nat \ {0}
  BY <1>1
<1>3. \A i \in 1..n : d.paper.sessions[i] \in Nat \ {0}
  BY <1>2, ElementOfSeq
<1>4. SessionWise(d) => Parts(d) = 1..n
  BY AttemptShape
<1> HIDE DEF n
<1>5. ASSUME NEW i \in Parts(d) PROVE Duration(d, i) \in Nat \ {0}
  BY <1>2, <1>3, <1>4 DEF Duration
<1>6. QED
  BY <1>5

\* The next session opens with nothing used, behind one whose timer is stopped.
LEMMA OpenedIsHonest ==
  ASSUME NEW d, Attempt(d), SessionWise(d), now \in Nat, Timely(d, now),
         d.status = "IN_PROGRESS", d.sessions[d.current].status # "IN_PROGRESS",
         ~IsLast(d), Attempt(NextSession(d)), NextSession(d).paper = d.paper
  PROVE  Honest(d, NextSession(d), now)
<1> DEFINE e == NextSession(d)
           n == Len(d.paper.sessions)
           k == d.current + 1
           new == [status |-> "IN_PROGRESS", startedAt |-> now, consumed |-> 0]
           ss == [d.sessions EXCEPT ![k] = new]
<1>1. /\ k \in 1..n /\ d.sessions \in [1..n -> AnySession] /\ Parts(d) = 1..n
      /\ d.current \in Nat
  <2>1. /\ n \in Nat /\ n # 0 /\ Parts(d) = 1..n /\ d.current \in Parts(d)
        /\ d.current # n /\ d.sessions \in [1..n -> AnySession]
    BY AttemptShape DEF Attempt
  <2> HIDE DEF n
  <2>2. QED
    BY <2>1
<1>2. e = [d EXCEPT !.current = k, !.startedAt = now, !.sessions = ss]
  BY DEF NextSession, Attempt
<1>3. new.status = "IN_PROGRESS" /\ new.startedAt = now /\ new.consumed = 0
  OBVIOUS
<1> HIDE DEF new
<1>4. \A i \in 1..n : ss[i] = IF i = k THEN new ELSE d.sessions[i]
  BY <1>1
<1>5. k > d.current /\ k # d.current
  BY <1>1
<1> HIDE DEF k, ss
<1>6. /\ e.sessions = ss /\ e.paper = d.paper /\ e.current = k
      /\ e.status = "IN_PROGRESS"
  BY <1>2 DEF Attempt
<1>7. Timely(e, now) /\ Attempt(e)
  BY NextTimely
<1> HIDE DEF e
<1>8. SessionWise(e)
  BY <1>6, <1>7, AttemptShape
<1>9. \A i \in Parts(d) : ~Runs(d, i) /\ (Runs(e, i) <=> i = k)
  BY <1>1, <1>3, <1>4, <1>6, <1>8 DEF Runs
<1>10. ASSUME Unopened(d), NEW i \in Parts(d) PROVE Settles(d, e, i, now)
  <2>1. CASE i = k
    <3>1. Consumed(e, i) = 0 /\ StartOf(e, i) = now
      BY <1>1, <1>3, <1>4, <1>6, <1>8, <2>1 DEF Consumed, StartOf
    <3>2. Consumed(d, i) = 0
      BY <1>1, <1>5, <1>10, <2>1 DEF Unopened, Consumed
    <3>3. Spent(e, i, now) = 0 /\ Spent(d, i, now) = 0
      BY <1>9, <2>1, <3>1, <3>2 DEF Spent
    <3>4. Duration(d, i) > 0
      BY PartsTakeTime
    <3>5. QED
      BY <3>3, <3>4 DEF Settles
  <2>2. CASE i # k
    <3>1. Consumed(e, i) = Consumed(d, i)
      BY <1>1, <1>4, <1>6, <1>8, <2>2 DEF Consumed
    <3>2. QED
      BY <1>9, <2>2, <3>1 DEF Settles, Spent
  <2>3. QED
    BY <2>1, <2>2
<1>11. Unopened(d) => Unopened(e)
  <2> SUFFICES ASSUME Unopened(d), NEW i \in 1..n, i > k PROVE e.sessions[i].consumed = 0
    BY <1>6 DEF Unopened, n
  <2>1. i > d.current /\ i # k
    BY <1>1 DEF k
  <2>2. e.sessions[i] = d.sessions[i]
    BY <1>4, <1>6, <2>1
  <2>3. QED
    BY <2>1, <2>2 DEF Unopened
<1>12. Booked(d) => Booked(e) /\ \A i \in Parts(d) : Settles(d, e, i, now)
  BY <1>6, <1>10, <1>11 DEF Booked
<1>13. Honest(d, e, now)
  BY <1>6, <1>7, <1>12, SettledIsHonest
<1>14. QED
  BY <1>13 DEF e

\* Records of one paper in one place with the same times.
Alike(d, e) ==
  /\ Attempt(d) /\ Attempt(e)
  /\ e.paper = d.paper /\ e.status = d.status /\ e.current = d.current
  /\ e.startedAt = d.startedAt /\ e.consumed = d.consumed /\ e.sessions = d.sessions

\* They have the same account.
LEMMA AlikeCounts ==
  ASSUME NEW d, NEW e, Alike(d, e)
  PROVE  /\ Booked(d) => Booked(e)
         /\ \A t, ran, b : Kept(d, t, ran, b) => Kept(e, t, ran, b)
<1>1. /\ SessionWise(e) <=> SessionWise(d)
      /\ Parts(e) = Parts(d) /\ AllowedTime(e) = AllowedTime(d)
      /\ \A i : Duration(e, i) = Duration(d, i)
  BY DEF Alike, SessionWise, Parts, AllowedTime, Duration
<1>2. \A i : /\ Consumed(e, i) = Consumed(d, i) /\ StartOf(e, i) = StartOf(d, i)
             /\ Runs(e, i) <=> Runs(d, i)
  BY <1>1 DEF Alike, Consumed, StartOf, Runs
<1>3. Unopened(d) => Unopened(e)
  BY DEF Unopened, Alike
<1>4. Capped(e) = Capped(d)
  BY <1>1, <1>2 DEF Capped
<1>5. Booked(d) => Booked(e)
  BY <1>1, <1>2, <1>3, <1>4 DEF Booked, Alike
<1>6. ASSUME NEW t, NEW ran, NEW b, Kept(d, t, ran, b) PROVE Kept(e, t, ran, b)
  <2>1. \A i : Spent(e, i, t) = Spent(d, i, t)
    BY <1>2 DEF Spent
  <2>2. \A i : Full(e, i, t) <=> Full(d, i, t)
    BY <1>1, <1>2, <2>1 DEF Full
  <2>3. \A i : /\ More(e, i, t, ran[i]) = More(d, i, t, ran[i])
               /\ Less(e, i, t, ran[i]) = Less(d, i, t, ran[i])
    BY <1>1, <2>1, <2>2 DEF More, Less
  <2>4. /\ [i \in Parts(e) |-> More(e, i, t, ran[i])] = [i \in Parts(d) |-> More(d, i, t, ran[i])]
        /\ [i \in Parts(e) |-> Less(e, i, t, ran[i])] = [i \in Parts(d) |-> Less(d, i, t, ran[i])]
    BY <1>1, <2>3
  <2>5. QED
    BY <1>6, <2>4 DEF Kept
<1>7. QED
  BY <1>5, <1>6

\* Records that are alike are submitted alike, whatever their answers are.
LEMMA SubmittedAlike ==
  ASSUME NEW d, NEW e, Alike(d, e), NEW t \in Nat, Timely(d, t), Timely(e, t),
         d.status = "IN_PROGRESS"
  PROVE  Alike(Submitted(d, t), Submitted(e, t))
<1> DEFINE c == Smaller(TimeElapsed(d, t), AllowedTime(d))
           v == IF \/ TimeElapsed(d, t) > AllowedTime(d)
                   \/ SessionWise(d) /\ d.sessions[d.current].status = "EXPIRED"
                THEN "EXPIRED" ELSE "SUBMITTED"
           p == IF SessionWise(d) THEN Put(d, v, c) ELSE d
           q == IF SessionWise(e) THEN Put(e, v, c) ELSE e
           x == TotalTime(p, TimeElapsed(d, t))
           y == TotalTime(q, TimeElapsed(e, t))
<1>1. /\ SessionWise(e) <=> SessionWise(d)
      /\ AllowedTime(e) = AllowedTime(d) /\ TimeElapsed(e, t) = TimeElapsed(d, t)
      /\ Attempt(d) /\ Attempt(e) /\ e.paper = d.paper /\ e.current = d.current
      /\ e.startedAt = d.startedAt /\ e.sessions = d.sessions
  BY DEF Alike, SessionWise, AllowedTime, Duration, TimeElapsed
<1>2. /\ Submitted(d, t) = Close(p, v, x, Score(d.answers))
      /\ Submitted(e, t) = Close(q, v, y, Score(e.answers))
  <2>1. Submitted(d, t) = Close(p, v, x, Score(d.answers))
    BY DEF Submitted, Put, Close
  <2>2. /\ c = Smaller(TimeElapsed(e, t), AllowedTime(e))
        /\ v = IF \/ TimeElapsed(e, t) > AllowedTime(e)
                  \/ SessionWise(e) /\ e.sessions[e.current].status = "EXPIRED"
               THEN "EXPIRED" ELSE "SUBMITTED"
    BY <1>1
  <2> HIDE DEF c, v
  <2>3. Submitted(e, t) = Close(q, v, y, Score(e.answers))
    BY <2>2 DEF Submitted, Put, Close
  <2>4. QED
    BY <2>1, <2>3
<1>3. c \in Int /\ v \in SessionStatus /\ v \in Open \cup Closed
  BY <1>1, PaperShape, ElapsedIsTime, SmallerIsTime DEF SessionStatus, Closed
<1> HIDE DEF c, v
<1>4. /\ Touches(d, p) /\ Touches(e, q) /\ p.startedAt = d.startedAt
      /\ q.startedAt = e.startedAt /\ p.sessions = q.sessions
  <2>1. CASE SessionWise(d)
    <3>1. Touches(d, p) /\ p.startedAt = d.startedAt
      BY <1>1, <1>3, <2>1, PutTouches
    <3>2. Touches(e, q) /\ q.startedAt = e.startedAt
      BY <1>1, <1>3, <2>1, PutTouches
    <3>3. p.sessions = q.sessions
      BY <1>1, <2>1 DEF Put, Attempt
    <3>4. QED
      BY <3>1, <3>2, <3>3
  <2>2. CASE ~SessionWise(d)
    BY <1>1, <2>2 DEF Touches
  <2>3. QED
    BY <2>1, <2>2
<1> HIDE DEF p, q
<1>5. x = y
  <2>1. q.paper = p.paper /\ q.current = p.current /\ q.sessions = p.sessions
    BY <1>1, <1>4 DEF Touches
  <2>2. \A z : TotalTime(p, z) = TotalTime(q, z)
    BY <2>1 DEF TotalTime, SessionWise, AllowedTime, Duration, Parts
  <2>3. QED
    BY <1>1, <2>2
<1>6. /\ Touches(p, Close(p, v, x, Score(d.answers)))
      /\ Touches(q, Close(q, v, y, Score(e.answers)))
      /\ Close(p, v, x, Score(d.answers)).status = v
      /\ Close(q, v, y, Score(e.answers)).status = v
      /\ Close(p, v, x, Score(d.answers)).startedAt = p.startedAt
      /\ Close(q, v, y, Score(e.answers)).startedAt = q.startedAt
      /\ Close(p, v, x, Score(d.answers)).consumed = x
      /\ Close(q, v, y, Score(e.answers)).consumed = y
      /\ Close(p, v, x, Score(d.answers)).sessions = p.sessions
      /\ Close(q, v, y, Score(e.answers)).sessions = q.sessions
  <2> HIDE DEF x, y
  <2>1. Attempt(p) /\ Attempt(q)
    BY <1>4 DEF Touches
  <2>2. QED
    BY <1>3, <2>1, CloseTouches
<1> HIDE DEF x, y
<1>7. QED
  BY <1>1, <1>2, <1>4, <1>5, <1>6 DEF Alike, Touches

\* A save over the row that was fetched has the times of what is saved.
LEMMA MergedAlike ==
  ASSUME NEW d, Attempt(d), NEW e, Attempt(e), NEW whole \in BOOLEAN,
         e.paper = d.paper, e.answers = d.answers
  PROVE  Alike(e, Merge(d, e, d, whole))
<1> DEFINE m == Merge(d, e, d, whole)
<1>1. /\ Attempt(m) /\ m.paper = d.paper /\ m.status = e.status
      /\ m.current = e.current /\ m.sessions = e.sessions
  BY MergeShape
<1>2. m.startedAt = e.startedAt /\ m.consumed = e.consumed
  BY DEF Merge, Pick
<1> HIDE DEF m
<1>3. Alike(e, m)
  BY <1>1, <1>2 DEF Alike
<1>4. QED
  BY <1>3 DEF m

\* A new row has an account of zeros.
LEMMA NewRowCounts ==
  ASSUME NEW p \in Papers, now \in Nat, NEW b \in Nat
  PROVE  LET d == NewRow(p) IN Booked(d) /\ Kept(d, now, [i \in Parts(d) |-> 0], b)
<1> DEFINE d == NewRow(p)
           n == Len(p.sessions)
           zero == [i \in Parts(d) |-> 0]
           f == [i \in Parts(d) |-> More(d, i, now, zero[i])]
           g == [i \in Parts(d) |-> Less(d, i, now, zero[i])]
<1>1. Attempt(d) /\ Timely(d, now)
  BY NewRowShape, NewRowTimely
<1>2. n \in Nat /\ DOMAIN p.sessions = 1..n
  BY ConstantTypes, LenProperties
<1>3. /\ d.paper = p /\ d.startedAt = now /\ d.consumed = 0 /\ d.current = 1
      /\ d.status = "IN_PROGRESS"
  BY DEF NewRow
<1>4. \A i \in 1..n : /\ d.sessions[i].startedAt = IF i = 1 THEN now ELSE 0
                      /\ d.sessions[i].consumed = 0
  BY <1>2 DEF NewRow
<1> HIDE DEF d
<1>5. Booked(d)
  BY <1>3, <1>4 DEF Booked, Unopened
<1>6. \A i \in Parts(d) : Spent(d, i, now) = 0
  <2> SUFFICES ASSUME NEW i \in Parts(d) PROVE Spent(d, i, now) = 0
    OBVIOUS
  <2>1. SessionWise(d) => i \in 1..n
    BY <1>1, <1>3, PartIsNumber
  <2>2. Consumed(d, i) = 0
    BY <1>3, <1>4, <2>1 DEF Consumed
  <2>3. Runs(d, i) => StartOf(d, i) = now
    BY <1>3, <1>4, <2>1 DEF Runs, StartOf
  <2>4. QED
    BY <2>2, <2>3 DEF Spent
<1>7. \A i \in Parts(d) : Duration(d, i) > 0 /\ Duration(d, i) \in Nat
  BY <1>1, PartsTakeTime, PaperShape
<1>8. \A i \in Parts(d) : More(d, i, now, 0) = 0 /\ Less(d, i, now, 0) = 0
  BY <1>6, <1>7 DEF More, Less, Full, Positive
<1>9. /\ f \in [Parts(d) -> Int] /\ \A i \in Parts(d) : f[i] = 0
      /\ g \in [Parts(d) -> Int] /\ \A i \in Parts(d) : g[i] = 0
  BY <1>8
<1>10. Kept(d, now, zero, b) <=> SumFunction(f) <= b /\ SumFunction(g) <= b
  BY DEF Kept
<1> HIDE DEF f, g, zero
<1>11. SumFunction(f) = 0 /\ SumFunction(g) = 0
  BY <1>1, <1>9, PaperShape, SumOfZeros
<1>12. QED
  BY <1>5, <1>10, <1>11 DEF d, zero

\* What a tick does to the account of one part, that ran in it or not.
LEMMA PartTicks ==
  ASSUME NEW d, Attempt(d), NEW t \in Nat, Timely(d, t), NEW i \in Parts(d),
         NEW y \in Nat, NEW z \in {y, y + 1}
  PROVE  /\ More(d, i, t + 1, z) <= More(d, i, t, y) + 1
         /\ Less(d, i, t + 1, z) <= Less(d, i, t, y) + 1
         /\ ~Runs(d, i) => More(d, i, t + 1, z) <= More(d, i, t, y)
         /\ z = y => Less(d, i, t + 1, z) <= Less(d, i, t, y)
         /\ (z = y + 1 <=> Runs(d, i)) =>
              /\ More(d, i, t + 1, z) <= More(d, i, t, y)
              /\ Less(d, i, t + 1, z) <= Less(d, i, t, y)
<1> DEFINE x == Spent(d, i, t)
           u == Spent(d, i, t + 1)
           D == Duration(d, i)
<1>1. x \in Nat /\ D \in Nat
  BY PartIsNumber
<1>2. u = IF Runs(d, i) THEN x + 1 ELSE x
  <2>1. Consumed(d, i) \in Nat /\ StartOf(d, i) \in Nat
    BY PartIsNumber
  <2>2. QED
    BY <2>1 DEF Spent
<1>3. /\ More(d, i, t, y) = IF ~Runs(d, i) /\ x >= D THEN Positive(D - y) ELSE Positive(x - y)
      /\ Less(d, i, t, y) = IF ~Runs(d, i) /\ x >= D THEN 0 ELSE Positive(y - x)
      /\ More(d, i, t + 1, z) = IF ~Runs(d, i) /\ u >= D THEN Positive(D - z) ELSE Positive(u - z)
      /\ Less(d, i, t + 1, z) = IF ~Runs(d, i) /\ u >= D THEN 0 ELSE Positive(z - u)
  BY DEF More, Less, Full
<1> HIDE DEF x, u, D
<1>4. CASE Runs(d, i)
  BY <1>1, <1>2, <1>3, <1>4 DEF Positive
<1>5. CASE ~Runs(d, i)
  BY <1>1, <1>2, <1>3, <1>5 DEF Positive
<1>6. QED
  BY <1>4, <1>5

\* At most the current part of a record runs.
LEMMA OnePartRuns ==
  ASSUME NEW d, Attempt(d)
  PROVE  d.current \in Parts(d) /\ \A i \in Parts(d) : i # d.current => ~Runs(d, i)
<1>1. /\ d.current \in Parts(d)
      /\ ~SessionWise(d) => Parts(d) = {1}
  BY AttemptShape
<1>2. QED
  BY <1>1 DEF Runs

\* The account of a record that is held, while at most one part runs: both of its sums
\* grow by no more than the tick.
LEMMA HeldTicks ==
  ASSUME NEW d, Attempt(d), NEW t \in Nat, Timely(d, t), NEW c \in Parts(d),
         NEW ran \in [Parts(d) -> Nat], NEW new \in [Parts(d) -> Nat],
         \A i \in Parts(d) : new[i] \in {ran[i], ran[i] + 1} /\ (i # c => new[i] = ran[i]),
         NEW b \in Int, Kept(d, t, ran, b)
  PROVE  Kept(d, t + 1, new, b + 1)
<1> DEFINE f == [i \in Parts(d) |-> More(d, i, t, ran[i])]
           g == [i \in Parts(d) |-> Less(d, i, t, ran[i])]
           h == [i \in Parts(d) |-> More(d, i, t + 1, new[i])]
           k == [i \in Parts(d) |-> Less(d, i, t + 1, new[i])]
<1>1. t + 1 \in Nat /\ Timely(d, t + 1)
  BY LaterTimely
<1>2. IsFiniteSet(Parts(d)) /\ f \in [Parts(d) -> Int] /\ g \in [Parts(d) -> Int]
  BY AccountTypes
<1>3. h \in [Parts(d) -> Int] /\ k \in [Parts(d) -> Int]
  BY <1>1, AccountTypes
<1>4. d.current \in Parts(d) /\ \A i \in Parts(d) : i # d.current => ~Runs(d, i)
  BY OnePartRuns
<1>5. \A i \in Parts(d) :
        /\ h[i] <= f[i] + 1 /\ k[i] <= g[i] + 1
        /\ i # d.current => h[i] <= f[i]
        /\ i # c => k[i] <= g[i]
  <2> SUFFICES ASSUME NEW i \in Parts(d)
               PROVE /\ h[i] <= f[i] + 1 /\ k[i] <= g[i] + 1
                     /\ i # d.current => h[i] <= f[i]
                     /\ i # c => k[i] <= g[i]
    OBVIOUS
  <2>1. ran[i] \in Nat /\ new[i] \in {ran[i], ran[i] + 1}
    OBVIOUS
  <2>2. QED
    BY <1>4, <2>1, PartTicks
<1>6. SumFunction(f) <= b /\ SumFunction(g) <= b
  BY DEF Kept
<1>7. Kept(d, t + 1, new, b + 1) <=> SumFunction(h) <= b + 1 /\ SumFunction(k) <= b + 1
  BY DEF Kept
<1> HIDE DEF f, g, h, k
<1>8. SumFunction(h) <= SumFunction(f) + 1
  BY <1>2, <1>3, <1>4, <1>5, SumGrows
<1>9. SumFunction(k) <= SumFunction(g) + 1
  BY <1>2, <1>3, <1>5, SumGrows
<1>10. SumFunction(h) \in Int /\ SumFunction(f) \in Int
  BY <1>2, <1>3, SumType
<1>11. SumFunction(k) \in Int /\ SumFunction(g) \in Int
  BY <1>2, <1>3, SumType
<1>12. QED
  BY <1>6, <1>7, <1>8, <1>9, <1>10, <1>11

\* The account of the stored record, whose running part is the one that runs.
LEMMA StoredTicks ==
  ASSUME NEW d, Attempt(d), NEW t \in Nat, Timely(d, t),
         NEW ran \in [Parts(d) -> Nat], NEW new \in [Parts(d) -> Nat],
         \A i \in Parts(d) : new[i] = IF Runs(d, i) THEN ran[i] + 1 ELSE ran[i],
         NEW b \in Int, Kept(d, t, ran, b)
  PROVE  Kept(d, t + 1, new, b)
<1>1. t + 1 \in Nat /\ Timely(d, t + 1)
  BY LaterTimely
<1>2. ASSUME NEW i \in Parts(d)
      PROVE  /\ More(d, i, t + 1, new[i]) <= More(d, i, t, ran[i])
             /\ Less(d, i, t + 1, new[i]) <= Less(d, i, t, ran[i])
  <2>1. ran[i] \in Nat /\ new[i] \in {ran[i], ran[i] + 1} /\ (new[i] = ran[i] + 1 <=> Runs(d, i))
    OBVIOUS
  <2>2. QED
    BY <2>1, PartTicks
<1>3. QED
  BY <1>1, <1>2, KeptByParts

\* An account within b is within more.
LEMMA KeptWithin ==
  ASSUME NEW d, Attempt(d), NEW t \in Nat, Timely(d, t), NEW ran \in [Parts(d) -> Nat],
         NEW b \in Int, NEW c \in Int, b <= c, Kept(d, t, ran, b)
  PROVE  Kept(d, t, ran, c)
<1> DEFINE f == [i \in Parts(d) |-> More(d, i, t, ran[i])]
           g == [i \in Parts(d) |-> Less(d, i, t, ran[i])]
<1>1. IsFiniteSet(Parts(d)) /\ f \in [Parts(d) -> Int] /\ g \in [Parts(d) -> Int]
  BY AccountTypes
<1>2. SumFunction(f) <= b /\ SumFunction(g) <= b
  BY DEF Kept
<1>3. Kept(d, t, ran, c) <=> SumFunction(f) <= c /\ SumFunction(g) <= c
  BY DEF Kept
<1> HIDE DEF f, g
<1>4. SumFunction(f) \in Int
  BY <1>1, SumType
<1>5. SumFunction(g) \in Int
  BY <1>1, SumType
<1>6. QED
  BY <1>2, <1>3, <1>4, <1>5

\* What a handler will submit after its second read is an attempt of the same paper.
LEMMA WillSubmit ==
  ASSUME IInv, TimeInv, NEW w \in Slots,
         slot[w].at = "refetch" \/ (slot[w].at = "answer" /\ slot[w].next = "refetch")
  PROVE  LET s == slot[w]
             e == Submitted(s.read, s.t)
         IN /\ s.a \in Ids /\ Attempt(e) /\ e.paper = row[s.a].paper /\ Timely(e, now)
            /\ Attempt(s.read) /\ MaySubmit(s.read) /\ s.t \in Nat /\ Timely(s.read, s.t)
<1> DEFINE s == slot[w]
           e == Submitted(s.read, s.t)
<1>1. s.at \in {"answer", "refetch"} /\ s.at \in {"answer", "refetch", "save"}
  OBVIOUS
<1>2. /\ Sound(s) /\ s.a \in Ids /\ Attempt(s.read) /\ row[s.a].paper = s.read.paper
  BY <1>1, HeldShape
<1>3. MaySubmit(s.read)
  BY <1>2 DEF Sound
<1>4. s.t \in Nat /\ s.t <= now /\ Timely(s.read, s.t) /\ now \in Nat
  BY <1>1 DEF TimeInv, SlotTimely, IInv, TypeInv
<1>5. Made(s.read, e, "end")
  BY <1>2, <1>3, <1>4, SubmittedIsMade
<1>6. Timely(e, s.t)
  BY <1>2, <1>4, SubmittedTimely
<1> HIDE DEF e
<1>7. Timely(e, now) /\ Attempt(e) /\ e.paper = row[s.a].paper
  BY <1>2, <1>4, <1>5, <1>6, LaterTimely DEF Made
<1>8. QED
  BY <1>2, <1>3, <1>4, <1>7 DEF e

\* What a handler holds keeps its account while the clock stands and the parts of
\* the rows that are there have not run.
LEMMA CountedStays ==
  ASSUME ClockInv, IInv, NEW v \in Slots, slot'[v] = slot[v], now' = now,
         raced \subseteq raced', blur' = blur, \A a \in Ids : active'[a] = active[a]
  PROVE  Counted(slot[v])'
<1> DEFINE s == slot[v]
<1>1. Counted(s) /\ slot'[v] = s
  BY DEF ClockInv
<1>2. s.at \in {"answer", "refetch", "save"} => active'[s.a] = active[s.a]
  BY HeldShape
<1> HIDE DEF s
<1>3. ASSUME s.at = "save", s.a \notin raced'
      PROVE  Booked(s.write) /\ Kept(s.write, now', active'[s.a], blur'[s.a])
  BY <1>1, <1>2, <1>3 DEF Counted
<1>4. ASSUME s.at = "refetch" \/ (s.at = "answer" /\ s.next = "refetch"), s.a \notin raced'
      PROVE  LET e == Submitted(s.read, s.t) IN
             Booked(e) /\ Kept(e, now', active'[s.a], blur'[s.a])
  BY <1>1, <1>2, <1>4 DEF Counted
<1>5. QED
  BY <1>1, <1>3, <1>4 DEF Counted

\* The slots keep their accounts when one of them takes a step.
LEMMA ClockSlots ==
  ASSUME ClockInv, IInv, NEW w \in Slots, NEW s, slot' = [slot EXCEPT ![w] = s],
         Counted(s), s.at \in {"answer", "refetch", "save"} => s.a \in Ids,
         now' = now, raced \subseteq raced', blur' = blur,
         \A a \in Ids : active'[a] = active[a]
  PROVE  \A v \in Slots : Counted(slot[v])'
<1>1. DOMAIN slot = Slots
  BY DEF IInv, TypeInv
<1>2. ASSUME NEW v \in Slots, v # w PROVE Counted(slot[v])'
  BY <1>1, <1>2, CountedStays
<1>3. Counted(slot[w])'
  <2>1. slot'[w] = s
    BY <1>1
  <2>2. ASSUME s.at = "save", s.a \notin raced'
        PROVE  Booked(s.write) /\ Kept(s.write, now', active'[s.a], blur'[s.a])
    BY <2>2 DEF Counted
  <2>3. ASSUME s.at = "refetch" \/ (s.at = "answer" /\ s.next = "refetch"), s.a \notin raced'
        PROVE  LET e == Submitted(s.read, s.t) IN
               Booked(e) /\ Kept(e, now', active'[s.a], blur'[s.a])
    BY <2>3 DEF Counted
  <2>4. QED
    BY <2>1, <2>2, <2>3 DEF Counted
<1>4. QED
  BY <1>2, <1>3

\* A handler that only decides.
LEMMA EnterClock ==
  ASSUME IInv, TimeInv, ClockInv, NEW w \in Slots, NEW s, Enter(w, s), Counted(s),
         s.at \in {"answer", "refetch", "save"} => s.a \in Ids
  PROVE  ClockInv'
<1>1. /\ slot' = [slot EXCEPT ![w] = s] /\ row' = row /\ now' = now
      /\ raced' = raced /\ active' = active /\ blur' = blur
  BY DEF Enter, history
<1>2. \A v \in Slots : Counted(slot[v])'
  BY <1>1, ClockSlots
<1>3. Ids' = Ids
  BY <1>1 DEF Ids
<1>4. /\ \A a \in Ids' : active'[a] \in [Parts(row'[a]) -> Nat]
      /\ \A a \in Ids' \ raced' :
           Booked(row'[a]) /\ Kept(row'[a], now', active'[a], blur'[a])
  BY <1>1, <1>3 DEF ClockInv
<1>5. QED
  BY <1>2, <1>4 DEF ClockInv

\* A handler at rest has nothing to account for.
LEMMA RestCounts ==
  ASSUME NEW s, s.at \in {"idle", "create", "submit"}
  PROVE  Counted(s) /\ s.at \notin {"answer", "refetch", "save"}
  BY DEF Counted

\* An honest record of the row that is fetched keeps its account.
LEMMA FetchCounts ==
  ASSUME IInv, TimeInv, ClockInv, NEW a \in Ids, a \notin raced, NEW e,
         Honest(row[a], e, now)
  PROVE  Booked(e) /\ Kept(e, now, active[a], blur[a])
<1>1. /\ Booked(row[a]) /\ Kept(row[a], now, active[a], blur[a])
      /\ active[a] \in [Parts(row[a]) -> Nat]
  BY DEF ClockInv
<1>2. blur[a] \in Int
  <2>1. a \in Attempts
    <3>1. Len(row) \in 0..NumAttempts /\ Ids = 1..Len(row) /\ NumAttempts \in Nat
      BY BoundsAreNat DEF TimeInv, Ids
    <3>2. QED
      BY <3>1 DEF Attempts
  <2>2. QED
    BY <2>1 DEF TimeInv
<1>3. QED
  BY <1>1, <1>2 DEF Honest

\* A handler with something to save.
LEMMA SavingClock ==
  ASSUME IInv, TimeInv, ClockInv, NEW w \in Slots, NEW a \in Ids, NEW e, NEW next,
         a \notin raced => Honest(row[a], e, now), Enter(w, Saving(a, row[a], e, next))
  PROVE  ClockInv'
<1> DEFINE s == Saving(a, row[a], e, next)
<1>1. s.at = "save" /\ s.a = a /\ s.write = e /\ s.at # "refetch" /\ s.at # "answer"
  BY DEF Saving
<1>2. Enter(w, s)
  OBVIOUS
<1>3. a \notin raced => Booked(e) /\ Kept(e, now, active[a], blur[a])
  BY FetchCounts
<1> HIDE DEF s
<1>4. Counted(s)
  BY <1>1, <1>3 DEF Counted
<1>5. QED
  BY <1>1, <1>2, <1>4, EnterClock

\* The steps that fetch keep the account.
LEMMA DecidingClock ==
  ASSUME IInv, TimeInv, ClockInv, NEW w \in Slots,
         \/ StartCheck(w) \/ CompleteSubmit(w)
         \/ \E a \in Ids : \/ PauseFetch(w, a) \/ ResumeFetch(w, a) \/ ViewFetch(w, a)
                           \/ SubmitFetch(w, a, "idle") \/ CompleteFetch(w, a)
                           \/ \E x \in Answers : AnswerFetch(w, a, x)
                                                 \/ SubmitWithAnswer(w, a, x)
  PROVE  ClockInv'
<1>0. now \in Nat /\ \A a \in Ids : Attempt(row[a]) /\ Timely(row[a], now)
  BY DEF IInv, TypeInv, TimeInv
<1>1. ASSUME NEW a \in Ids, NEW next, Overdue(row[a], now),
             Enter(w, Saving(a, row[a], Expire(row[a], now), next))
      PROVE  ClockInv'
  <2>1. Honest(row[a], Expire(row[a], now), now)
    BY <1>0, <1>1, ExpireIsHonest
  <2>2. QED
    BY <1>1, <2>1, SavingClock
<1>2. ASSUME StartCheck(w) PROVE ClockInv'
  <2>1. CASE Enter(w, [at |-> "create"])
    <3> DEFINE s == [at |-> "create"]
    <3>1. Counted(s) /\ s.at \notin {"answer", "refetch", "save"}
      BY RestCounts
    <3> HIDE DEF s
    <3>2. Enter(w, s)
      BY <2>1 DEF s
    <3>3. QED
      BY <3>1, <3>2, EnterClock
  <2>2. ASSUME NEW a \in Ids, Overdue(row[a], now),
               Enter(w, Saving(a, row[a], Expire(row[a], now),
                           IF FullyExpires(row[a], now) THEN "create" ELSE "end"))
        PROVE  ClockInv'
    BY <1>1, <2>2
  <2>3. QED
    BY <1>2, <2>1, <2>2 DEF StartCheck
<1>3. ASSUME NEW a \in Ids, PauseFetch(w, a) PROVE ClockInv'
  <2>1. /\ row[a].status = "IN_PROGRESS"
        /\ TimeElapsed(row[a], now) + Grace < AllowedTime(row[a])
        /\ Enter(w, Saving(a, row[a], Paused(row[a], now), "end"))
    BY <1>3 DEF PauseFetch, Paused
  <2>2. Honest(row[a], Paused(row[a], now), now)
    BY <1>0, <2>1, PausedIsHonest
  <2>3. QED
    BY <2>1, <2>2, SavingClock
<1>4. ASSUME NEW a \in Ids, ResumeFetch(w, a) PROVE ClockInv'
  <2>1. CASE Overdue(row[a], now) /\ Enter(w, Saving(a, row[a], Expire(row[a], now), "end"))
    BY <1>1, <2>1
  <2>2. CASE row[a].status = "PAUSED" /\ Enter(w, Saving(a, row[a], Resumed(row[a]), "end"))
    <3>1. Honest(row[a], Resumed(row[a]), now)
      BY <1>0, <2>2, ResumedIsHonest
    <3>2. QED
      BY <2>2, <3>1, SavingClock
  <2>3. QED
    BY <1>4, <2>1, <2>2 DEF ResumeFetch
<1>5. ASSUME NEW a \in Ids, ViewFetch(w, a) PROVE ClockInv'
  BY <1>1, <1>5 DEF ViewFetch
<1>6. ASSUME NEW a \in Ids, NEW at, SubmitFetch(w, a, at) PROVE ClockInv'
  <2>1. /\ row[a].status = "IN_PROGRESS"
        /\ Enter(w, Saving(a, row[a], Submitted(row[a], now), "end"))
    BY <1>6 DEF SubmitFetch, MaySubmit
  <2>2. Honest(row[a], Submitted(row[a], now), now)
    BY <1>0, <2>1, SubmittedIsHonest
  <2>3. QED
    BY <2>1, <2>2, SavingClock
<1>7. ASSUME NEW a \in Ids, CompleteFetch(w, a) PROVE ClockInv'
  <2> DEFINE d == row[a]
             e == CompletedSession(d)
  <2>1. /\ SessionWise(d) /\ d.status = "IN_PROGRESS"
        /\ d.sessions[d.current].status # "LOCKED"
        /\ \/ Enter(w, Saving(a, d, e, "submit"))
           \/ ~IsLast(d) /\ Enter(w, Saving(a, d, NextSession(e), "end"))
    BY <1>7 DEF CompleteFetch
  <2>2. /\ Attempt(e) /\ Timely(e, now) /\ Touches(d, e) /\ e.status = d.status
        /\ e.sessions[d.current].status \in Closed
    BY <1>0, <2>1, CompletedTimely, CompletedTouches
  <2>3. Honest(d, e, now)
    BY <1>0, <2>1, CompletedIsHonest
  <2>4. CASE Enter(w, Saving(a, d, e, "submit"))
    BY <2>3, <2>4, SavingClock
  <2>5. CASE ~IsLast(d) /\ Enter(w, Saving(a, d, NextSession(e), "end"))
    <3>1. Made(d, NextSession(e), "end")
      BY <1>0, <2>1, <2>5, NextIsMade
    <3>2. SessionWise(e) /\ ~IsLast(e)
      BY <1>0, <2>1, <2>2, <2>5, TouchesShape
    <3> HIDE DEF e
    <3>3. /\ Attempt(NextSession(e)) /\ NextSession(e).paper = e.paper
          /\ e.paper = d.paper /\ e.current = d.current
      BY <2>2, <3>1 DEF Made, Touches
    <3>4. e.sessions[e.current].status # "IN_PROGRESS" /\ e.status = "IN_PROGRESS"
      BY <2>1, <2>2, <3>3 DEF Closed
    <3>5. Honest(e, NextSession(e), now)
      BY <1>0, <2>2, <3>2, <3>3, <3>4, OpenedIsHonest
    <3>6. Honest(d, NextSession(e), now)
      BY <2>3, <3>3, <3>5, HonestTwice
    <3>7. QED
      BY <2>5, <3>6, SavingClock
  <2>6. QED
    BY <2>1, <2>4, <2>5
<1>8. ASSUME NEW a \in Ids, NEW x, NEW next, next = "refetch" => MaySubmit(row[a]),
             Enter(w, [at |-> "answer", a |-> a, read |-> row[a], answer |-> x,
                       next |-> next, t |-> now])
      PROVE  ClockInv'
  <2> DEFINE s == [at |-> "answer", a |-> a, read |-> row[a], answer |-> x,
                   next |-> next, t |-> now]
  <2>1. /\ s.at = "answer" /\ s.a = a /\ s.read = row[a] /\ s.next = next /\ s.t = now
        /\ Enter(w, s) /\ s.at # "save" /\ s.at # "refetch"
    BY <1>8
  <2> HIDE DEF s
  <2>2. ASSUME next = "refetch", a \notin raced
        PROVE  LET e == Submitted(row[a], now) IN Booked(e) /\ Kept(e, now, active[a], blur[a])
    <3>1. Honest(row[a], Submitted(row[a], now), now)
      BY <1>0, <1>8, <2>2, SubmittedIsHonest DEF MaySubmit
    <3>2. QED
      BY <2>2, <3>1, FetchCounts
  <2>3. Counted(s)
    BY <2>1, <2>2 DEF Counted
  <2>4. QED
    BY <2>1, <2>3, EnterClock
<1>9. ASSUME NEW a \in Ids, NEW x \in Answers,
             AnswerFetch(w, a, x) \/ SubmitWithAnswer(w, a, x)
      PROVE  ClockInv'
  <2>1. CASE AnswerFetch(w, a, x)
    <3>1. Enter(w, [at |-> "answer", a |-> a, read |-> row[a], answer |-> x,
                    next |-> "end", t |-> now])
      BY <2>1 DEF AnswerFetch
    <3>2. "end" # "refetch"
      OBVIOUS
    <3>3. QED
      BY <1>8, <3>1, <3>2
  <2>2. CASE SubmitWithAnswer(w, a, x)
    <3>1. /\ MaySubmit(row[a])
          /\ Enter(w, [at |-> "answer", a |-> a, read |-> row[a], answer |-> x,
                       next |-> "refetch", t |-> now])
      BY <2>2 DEF SubmitWithAnswer
    <3>2. QED
      BY <1>8, <3>1
  <2>3. QED
    BY <1>9, <2>1, <2>2
<1>10. ASSUME CompleteSubmit(w) PROVE ClockInv'
  <2>1. slot[w].a \in Ids
    BY <1>10 DEF CompleteSubmit, IInv, SlotsInv, Placed
  <2>2. CASE SubmitFetch(w, slot[w].a, "submit")
    BY <1>6, <2>1, <2>2
  <2>3. CASE Enter(w, Idle)
    <3>1. Counted(Idle) /\ Idle.at \notin {"answer", "refetch", "save"}
      BY RestCounts DEF Idle
    <3>2. QED
      BY <2>3, <3>1, EnterClock
  <2>4. QED
    BY <1>10, <2>2, <2>3 DEF CompleteSubmit
<1>11. QED
  BY <1>2, <1>3, <1>4, <1>5, <1>6, <1>7, <1>9, <1>10

\* The steps that write one row keep the account.
LEMMA WritingClock ==
  ASSUME IInv, TimeInv, ClockInv, NEW w \in Slots, NEW s, NEW b \in Ids, NEW m,
         row' = [row EXCEPT ![b] = m], slot' = [slot EXCEPT ![w] = s],
         UNCHANGED <<now, active, blur>>, Counted(s),
         s.at \in {"answer", "refetch", "save"} => s.a \in Ids,
         raced \subseteq raced', m.paper = row[b].paper,
         b \notin raced' => Booked(m) /\ Kept(m, now, active[b], blur[b])
  PROVE  ClockInv'
<1>1. /\ row'[b] = m /\ Ids' = Ids
      /\ \A a \in Ids : a # b => row'[a] = row[a]
  <2>1. Len(row) \in Nat /\ Ids = 1..Len(row) /\ IsWritten(row', b, m)
    BY RowsAreSeq DEF IInv
  <2>2. QED
    BY <2>1 DEF IsWritten, Ids
<1>2. \A v \in Slots : Counted(slot[v])'
  BY ClockSlots
<1>3. \A a \in Ids : active'[a] \in [Parts(row'[a]) -> Nat]
  <2>1. Parts(m) = Parts(row[b])
    BY DEF Parts
  <2>2. QED
    BY <1>1, <2>1 DEF ClockInv
<1>4. \A a \in Ids \ raced' : Booked(row'[a]) /\ Kept(row'[a], now', active'[a], blur'[a])
  BY <1>1 DEF ClockInv
<1>5. QED
  BY <1>1, <1>2, <1>3, <1>4 DEF ClockInv

\* updateOne on the question: no time is written.
LEMMA WriteAnswerClock ==
  ASSUME IInv, TimeInv, ClockInv, NEW w \in Slots, WriteAnswer(w)
  PROVE  ClockInv'
<1> DEFINE s == slot[w]
           m == Answered(row[s.a], s.read.current, s.answer)
           r == IF s.next = "end" THEN Idle ELSE [s EXCEPT !.at = "refetch"]
<1>1. /\ row' = [row EXCEPT ![s.a] = m] /\ s.a \in Ids /\ Attempt(m)
      /\ m.paper = row[s.a].paper /\ raced \subseteq raced'
  BY AnswerWrite
<1>2. /\ s.at = "answer" /\ s.at \in {"answer", "refetch", "save"}
      /\ slot' = [slot EXCEPT ![w] = r] /\ UNCHANGED <<now, active, blur, halfDone>>
  BY DEF WriteAnswer
<1>3. SlotShape(s) /\ Attempt(row[s.a]) /\ Counted(s)
  BY <1>2, HeldShape DEF ClockInv
<1>4. Alike(row[s.a], m)
  <2> DEFINE d == row[s.a]
  <2>1. /\ m.status = d.status /\ m.startedAt = d.startedAt /\ m.consumed = d.consumed
        /\ m.current = d.current /\ m.sessions = d.sessions
    BY <1>3 DEF Answered, Attempt
  <2> HIDE DEF m
  <2>2. QED
    BY <1>1, <1>3, <2>1 DEF Alike
<1>5. /\ Counted(r) /\ (r.at \in {"answer", "refetch", "save"} => r.a \in Ids)
  <2>1. CASE s.next = "end"
    BY <2>1, RestCounts DEF Idle
  <2>2. CASE s.next # "end"
    <3>1. s \in [at: {"answer", "refetch"}, a: {s.a}, read: {s.read}, answer: Answers,
                 next: {"end", "refetch"}, t: Int]
      BY <1>2, <1>3 DEF SlotShape
    <3>2. r = [s EXCEPT !.at = "refetch"]
      BY <2>2
    <3> HIDE DEF r, s
    <3>3. /\ r.at = "refetch" /\ r.at # "save" /\ r.a = s.a /\ r.read = s.read /\ r.t = s.t
          /\ s.next = "refetch"
      BY <2>2, <3>1, <3>2
    <3>4. QED
      BY <1>1, <1>2, <1>3, <3>3 DEF Counted
  <2>3. QED
    BY <2>1, <2>2
<1> HIDE DEF m, r, s
<1>6. s.a \notin raced' => Booked(m) /\ Kept(m, now, active[s.a], blur[s.a])
  <2>1. s.a \notin raced' =>
          Booked(row[s.a]) /\ Kept(row[s.a], now, active[s.a], blur[s.a])
    BY <1>1 DEF ClockInv
  <2>2. QED
    BY <1>4, <2>1, AlikeCounts
<1>7. QED
  BY <1>1, <1>2, <1>5, <1>6, WritingClock

\* save(): over the row that was fetched it leaves what the handler has accounted for.
LEMMA SaveClock ==
  ASSUME IInv, TimeInv, ClockInv, NEW w \in Slots, Save(w)
  PROVE  ClockInv'
<1> DEFINE s == slot[w]
           d == s.read
           e == s.write
           m == Merge(d, e, row[s.a], s.whole)
           r == IF s.next = "create" THEN [at |-> "create"]
                ELSE IF s.next = "submit" THEN [at |-> "submit", a |-> s.a]
                ELSE Idle
<1>1. /\ row' = [row EXCEPT ![s.a] = m] /\ s.a \in Ids
      /\ m.paper = row[s.a].paper /\ Made(d, e, s.next) /\ raced \subseteq raced'
      /\ s.a \notin raced' => row[s.a] = d
  BY SaveUnraced
<1>2. /\ s.at = "save" /\ s.at \in {"answer", "refetch", "save"}
      /\ slot' = [slot EXCEPT ![w] = r] /\ UNCHANGED <<now, active, blur>>
  BY DEF Save
<1>3. SlotShape(s) /\ Attempt(d) /\ Counted(s)
  BY <1>2, HeldShape DEF ClockInv
<1>4. s.whole \in BOOLEAN
  BY <1>2, <1>3 DEF SlotShape
<1>5. Attempt(e) /\ e.paper = d.paper /\ e.answers = d.answers
  BY <1>1 DEF Made
<1>6. Counted(r) /\ r.at \notin {"answer", "refetch", "save"}
  <2>1. r.at \in {"idle", "create", "submit"}
    BY DEF Idle
  <2> HIDE DEF r
  <2>2. QED
    BY <2>1, RestCounts
<1>7. s.a \notin raced' => Booked(m) /\ Kept(m, now, active[s.a], blur[s.a])
  <2> SUFFICES ASSUME s.a \notin raced'
               PROVE  Booked(m) /\ Kept(m, now, active[s.a], blur[s.a])
    OBVIOUS
  <2>1. Booked(e) /\ Kept(e, now, active[s.a], blur[s.a])
    BY <1>1, <1>2, <1>3 DEF Counted
  <2>2. m = Merge(d, e, d, s.whole)
    BY <1>1
  <2> HIDE DEF d, e, m
  <2>3. Alike(e, m)
    BY <1>3, <1>4, <1>5, <2>2, MergedAlike DEF d
  <2>4. QED
    BY <2>1, <2>3, AlikeCounts
<1> HIDE DEF s, d, e, m, r
<1>8. QED
  BY <1>1, <1>2, <1>6, <1>7, WritingClock

\* The second read of a submit: the times are those of the first.
LEMMA RefetchClock ==
  ASSUME IInv, TimeInv, ClockInv, NEW w \in Slots, SubmitRefetch(w)
  PROVE  ClockInv'
<1> DEFINE s == slot[w]
           as == row[s.a].answers
           d == [s.read EXCEPT !.answers = as]
           e == Submitted(d, s.t)
           r == [Saving(s.a, d, e, "end") EXCEPT !.whole = TRUE]
           k == Submitted(s.read, s.t)
<1>1. /\ s.at = "refetch" /\ s.at \in {"answer", "refetch", "save"}
      /\ slot' = [slot EXCEPT ![w] = r] /\ row' = row
      /\ UNCHANGED <<now, active, blur, halfDone>> /\ raced \subseteq raced'
  BY DEF SubmitRefetch
<1>2. /\ s.a \in Ids /\ Attempt(s.read) /\ row[s.a].paper = s.read.paper
      /\ Attempt(row[s.a]) /\ Counted(s)
  BY <1>1, HeldShape DEF ClockInv
<1>3. /\ s.t \in Nat /\ Timely(s.read, s.t) /\ s.read.status = "IN_PROGRESS"
  BY <1>1, WillSubmit DEF MaySubmit
<1>4. as \in [Parts(s.read) -> {"none", "right", "wrong"}]
  BY <1>2 DEF Attempt, Parts
<1> HIDE DEF as
<1>5. Attempt(d) /\ Timely(d, s.t)
  BY <1>2, <1>3, <1>4, AnsweredTimely
<1>6. Alike(s.read, d)
  <2>1. /\ d.paper = s.read.paper /\ d.status = s.read.status /\ d.current = s.read.current
        /\ d.startedAt = s.read.startedAt /\ d.consumed = s.read.consumed
        /\ d.sessions = s.read.sessions
    BY <1>2 DEF Attempt
  <2> HIDE DEF d
  <2>2. QED
    BY <1>2, <1>5, <2>1 DEF Alike
<1> HIDE DEF d
<1>7. Alike(k, e)
  BY <1>3, <1>5, <1>6, SubmittedAlike
<1> HIDE DEF e, k
<1>8. s.a \notin raced => Booked(e) /\ Kept(e, now, active[s.a], blur[s.a])
  <2>1. s.a \notin raced => Booked(k) /\ Kept(k, now, active[s.a], blur[s.a])
    BY <1>1, <1>2 DEF Counted, k
  <2>2. QED
    BY <1>7, <2>1, AlikeCounts
<1>9. /\ r.at = "save" /\ r.at # "refetch" /\ r.at # "answer" /\ r.a = s.a /\ r.write = e
  BY DEF Saving
<1> HIDE DEF r
<1>10. Counted(r)
  BY <1>8, <1>9 DEF Counted
<1>11. \A v \in Slots : Counted(slot[v])'
  <2>1. PICK q : q = r
    OBVIOUS
  <2>2. /\ slot' = [slot EXCEPT ![w] = q] /\ Counted(q) /\ q.a \in Ids
        /\ now' = now /\ blur' = blur /\ \A a \in Ids : active'[a] = active[a]
    BY <1>1, <1>2, <1>9, <1>10, <2>1
  <2>3. QED
    BY <1>1, <2>2, ClockSlots
<1>12. Ids' = Ids
  BY <1>1 DEF Ids
<1>13. /\ \A a \in Ids' : active'[a] \in [Parts(row'[a]) -> Nat]
       /\ \A a \in Ids' \ raced' :
            Booked(row'[a]) /\ Kept(row'[a], now', active'[a], blur'[a])
  BY <1>1, <1>12 DEF ClockInv
<1>14. QED
  BY <1>11, <1>13 DEF ClockInv

\* The create of a row.
LEMMA CreateClock ==
  ASSUME IInv, TimeInv, ClockInv, NEW w \in Slots, StartCreate(w)
  PROVE  ClockInv'
<1>1. PICK p \in Papers :
        /\ row' = Append(row, NewRow(p))
        /\ active' = [active EXCEPT ![Len(row) + 1] = [i \in 1..NumParts(p) |-> 0]]
  BY DEF StartCreate
<1>2. /\ slot' = [slot EXCEPT ![w] = Idle] /\ now' = now /\ raced' = raced
      /\ blur' = blur /\ Len(row) < NumAttempts
  BY DEF StartCreate
<1> DEFINE d == NewRow(p)
           k == Len(row) + 1
           z == [i \in 1..NumParts(p) |-> 0]
<1>3. now \in Nat /\ Attempt(d) /\ Parts(d) = 1..NumParts(p)
  BY NewRowTimely, NewRowShape DEF IInv, TypeInv
<1>4. /\ row' = Append(row, d) /\ active' = [active EXCEPT ![k] = z]
      /\ z = [i \in Parts(d) |-> 0] /\ z \in [Parts(d) -> Nat]
  BY <1>1, <1>3
<1>5. \A b \in Nat : Booked(d) /\ Kept(d, now, z, b)
  BY <1>3, <1>4, NewRowCounts
<1> HIDE DEF d, z
<1>6. /\ Len(row) \in Nat /\ Ids = 1..Len(row) /\ Len(row') = k /\ row'[k] = d
      /\ \A a \in Ids : row'[a] = row[a]
  <2>1. Len(row) \in Nat /\ Ids = 1..Len(row) /\ IsAppended(row', d)
    BY <1>4, RowsAreSeq DEF IInv
  <2>2. QED
    BY <2>1 DEF IsAppended
<1>7. k \in Attempts /\ k \notin Ids /\ Ids' = Ids \cup {k}
  <2>1. NumAttempts \in Nat
    BY BoundsAreNat
  <2>2. QED
    BY <1>2, <1>6, <2>1 DEF Attempts, Ids
<1> HIDE DEF k
<1>8. /\ active'[k] = z /\ \A a \in Ids : active'[a] = active[a]
  BY <1>4, <1>7 DEF TimeInv
<1>9. \A v \in Slots : Counted(slot[v])'
  <2>1. Counted(Idle) /\ Idle.at \notin {"answer", "refetch", "save"}
    BY RestCounts DEF Idle
  <2>2. QED
    BY <1>2, <1>8, <2>1, ClockSlots
<1>10. blur[k] \in Nat
  BY <1>7 DEF TimeInv
<1>11. \A a \in Ids' : active'[a] \in [Parts(row'[a]) -> Nat]
  BY <1>4, <1>6, <1>7, <1>8 DEF ClockInv
<1>12. \A a \in Ids' \ raced' :
         Booked(row'[a]) /\ Kept(row'[a], now', active'[a], blur'[a])
  BY <1>2, <1>5, <1>6, <1>7, <1>8, <1>10 DEF ClockInv
<1>13. QED
  BY <1>9, <1>11, <1>12 DEF ClockInv

\* Time passes: the part that runs runs on, and who holds a row is later by a tick.
LEMMA TickClock ==
  ASSUME IInv, TimeInv, ClockInv, Tick
  PROVE  ClockInv'
<1>1. /\ row' = row /\ slot' = slot /\ raced' = raced /\ now' = now + 1
      /\ active' = [a \in Attempts |->
                      [i \in DOMAIN active[a] |->
                         active[a][i] + IF a \in Ids /\ Running(a, i) THEN 1 ELSE 0]]
      /\ blur' = [a \in Attempts |->
                    blur[a] + IF \E w \in Slots : Holds(w, a) THEN 1 ELSE 0]
  BY DEF Tick
<1>2. now \in Nat /\ now + 1 \in Nat /\ Ids' = Ids
  BY <1>1 DEF IInv, TypeInv, Ids
<1>3. Ids \subseteq Attempts
  <2>1. Len(row) \in 0..NumAttempts /\ Ids = 1..Len(row) /\ NumAttempts \in Nat
    BY BoundsAreNat DEF TimeInv, Ids
  <2>2. QED
    BY <2>1 DEF Attempts
<1>4. \A a \in Ids :
        /\ Attempt(row[a]) /\ Timely(row[a], now)
        /\ active[a] \in [Parts(row[a]) -> Nat] /\ blur[a] \in Int
  BY <1>3 DEF IInv, TypeInv, TimeInv, ClockInv
<1>5. ASSUME NEW a \in Ids
      PROVE  /\ active'[a] \in [Parts(row[a]) -> Nat]
             /\ \A i \in Parts(row[a]) :
                  active'[a][i] = IF Runs(row[a], i) THEN active[a][i] + 1 ELSE active[a][i]
  <2>1. DOMAIN active[a] = Parts(row[a]) /\ \A i \in Parts(row[a]) : active[a][i] \in Nat
    BY <1>4
  <2>2. active'[a] = [i \in Parts(row[a]) |->
                        active[a][i] + IF a \in Ids /\ Running(a, i) THEN 1 ELSE 0]
    BY <1>1, <1>3, <2>1
  <2>3. \A i : Running(a, i) <=> Runs(row[a], i)
    BY DEF Running, Runs
  <2>4. \A i \in Parts(row[a]) :
          active'[a][i] = IF Runs(row[a], i) THEN active[a][i] + 1 ELSE active[a][i]
    BY <2>1, <2>2, <2>3
  <2>5. \A i \in Parts(row[a]) : active'[a][i] \in Nat
    BY <2>1, <2>4
  <2>6. active'[a] = [i \in Parts(row[a]) |-> active'[a][i]]
    BY <2>2
  <2>7. QED
    BY <2>4, <2>5, <2>6
<1>6. \A a \in Ids : /\ blur'[a] \in {blur[a], blur[a] + 1}
                     /\ (\E w \in Slots : Holds(w, a)) => blur'[a] = blur[a] + 1
  <2>1. ASSUME NEW a \in Ids
        PROVE  blur'[a] = blur[a] + IF \E w \in Slots : Holds(w, a) THEN 1 ELSE 0
    BY <1>1, <1>3
  <2>2. ASSUME NEW a \in Ids PROVE blur[a] + 0 = blur[a]
    BY <1>4
  <2>3. ASSUME NEW a \in Ids, \E w \in Slots : Holds(w, a) PROVE blur'[a] = blur[a] + 1
    BY <2>1, <2>3
  <2>4. ASSUME NEW a \in Ids, ~\E w \in Slots : Holds(w, a) PROVE blur'[a] = blur[a]
    BY <2>1, <2>2, <2>4
  <2>5. QED
    BY <2>3, <2>4
<1>7. ASSUME NEW a \in Ids, a \notin raced
      PROVE  Booked(row[a]) /\ Kept(row[a], now + 1, active'[a], blur'[a])
  <2>1. Booked(row[a]) /\ Kept(row[a], now, active[a], blur[a])
    BY <1>7 DEF ClockInv
  <2>2. PICK new \in [Parts(row[a]) -> Nat] : new = active'[a]
    BY <1>5
  <2>3. \A i \in Parts(row[a]) :
          new[i] = IF Runs(row[a], i) THEN active[a][i] + 1 ELSE active[a][i]
    BY <1>5, <2>2
  <2>4. Kept(row[a], now + 1, new, blur[a])
    BY <1>2, <1>4, <2>1, <2>3, StoredTicks
  <2>5. PICK b \in Int : b = blur'[a]
    BY <1>4, <1>6
  <2>6. blur[a] <= b /\ blur[a] \in Int
    BY <1>4, <1>6, <2>5
  <2>7. Timely(row[a], now + 1)
    BY <1>2, <1>4, LaterTimely
  <2>8. Kept(row[a], now + 1, new, b)
    BY <1>2, <1>4, <2>4, <2>6, <2>7, KeptWithin
  <2>9. QED
    BY <2>1, <2>2, <2>5, <2>8
<1>8. ASSUME NEW a \in Ids, NEW w \in Slots, Holds(w, a), NEW e, Attempt(e),
             e.paper = row[a].paper, Timely(e, now), Kept(e, now, active[a], blur[a])
      PROVE  Kept(e, now + 1, active'[a], blur'[a])
  <2>1. Parts(e) = Parts(row[a])
    BY <1>8 DEF Parts
  <2>2. PICK new \in [Parts(e) -> Nat] : new = active'[a]
    BY <1>5, <2>1
  <2> DEFINE c == row[a].current
  <2>3. c \in Parts(e) /\ \A i \in Parts(e) : i # c => ~Runs(row[a], i)
    BY <1>4, <2>1, OnePartRuns
  <2>4. \A i \in Parts(e) :
          new[i] \in {active[a][i], active[a][i] + 1} /\ (i # c => new[i] = active[a][i])
    BY <1>5, <2>1, <2>2, <2>3
  <2> HIDE DEF c
  <2>5. active[a] \in [Parts(e) -> Nat]
    BY <1>4, <2>1
  <2>6. Kept(e, now + 1, new, blur[a] + 1)
    BY <1>2, <1>4, <1>8, <2>3, <2>4, <2>5, HeldTicks
  <2>7. blur'[a] = blur[a] + 1
    BY <1>6, <1>8
  <2>8. QED
    BY <2>2, <2>6, <2>7
<1>9. ASSUME NEW w \in Slots PROVE Counted(slot[w])'
  <2> DEFINE s == slot[w]
  <2>1. Counted(s) /\ slot'[w] = s
    BY <1>1 DEF ClockInv
  <2>2. ASSUME s.at = "save", s.a \notin raced
        PROVE  Booked(s.write) /\ Kept(s.write, now + 1, active'[s.a], blur'[s.a])
    <3>1. Booked(s.write) /\ Kept(s.write, now, active[s.a], blur[s.a])
      BY <2>1, <2>2 DEF Counted
    <3>2. /\ s.at \in {"answer", "refetch", "save"} /\ Holds(w, s.a)
      BY <2>2 DEF Holds
    <3>3. Sound(s) /\ s.a \in Ids /\ row[s.a].paper = s.read.paper /\ SlotTimely(s)
      BY <3>2, HeldShape DEF TimeInv
    <3>4. Attempt(s.write) /\ s.write.paper = row[s.a].paper /\ Timely(s.write, now)
      BY <2>2, <3>3 DEF Sound, Made, SlotTimely
    <3>5. QED
      BY <1>8, <3>1, <3>2, <3>3, <3>4
  <2>3. ASSUME s.at = "refetch" \/ (s.at = "answer" /\ s.next = "refetch"), s.a \notin raced
        PROVE  LET e == Submitted(s.read, s.t) IN
               Booked(e) /\ Kept(e, now + 1, active'[s.a], blur'[s.a])
    <3> DEFINE e == Submitted(s.read, s.t)
    <3>1. Booked(e) /\ Kept(e, now, active[s.a], blur[s.a])
      BY <2>1, <2>3 DEF Counted
    <3>2. Holds(w, s.a)
      BY <2>3 DEF Holds
    <3>3. s.a \in Ids /\ Attempt(e) /\ e.paper = row[s.a].paper /\ Timely(e, now)
      BY <2>3, WillSubmit
    <3> HIDE DEF e, s
    <3>4. Kept(e, now + 1, active'[s.a], blur'[s.a])
      BY <1>8, <3>1, <3>2, <3>3
    <3>5. QED
      BY <3>1, <3>4 DEF e
  <2> HIDE DEF s
  <2>4. QED
    BY <1>1, <2>1, <2>2, <2>3 DEF Counted
<1>10. QED
  BY <1>1, <1>2, <1>5, <1>7, <1>9 DEF ClockInv

\* At the start there is no row.
LEMMA InitClock == Init => ClockInv
<1> SUFFICES ASSUME Init PROVE ClockInv
  OBVIOUS
<1>1. row = <<>> /\ slot = [w \in Slots |-> Idle]
  BY DEF Init
<1>2. Len(row) = 0
  BY <1>1, EmptySeq
<1>3. Ids = {}
  BY <1>2 DEF Ids
<1>4. Counted(Idle)
  BY RestCounts DEF Idle
<1>5. \A w \in Slots : Counted(slot[w])
  BY <1>1, <1>4
<1>6. QED
  BY <1>3, <1>5 DEF ClockInv

\* Every step keeps the account.
LEMMA StepClock ==
  ASSUME IInv, TimeInv, ClockInv, [Next]_vars
  PROVE  ClockInv'
<1>1. CASE Tick
  BY <1>1, TickClock
<1>2. CASE UNCHANGED vars
  <2>1. Ids' = Ids /\ UNCHANGED <<now, row, slot, active, blur, raced, halfDone>>
    BY <1>2 DEF vars, history, Ids
  <2>2. \A w \in Slots : Counted(slot[w])'
    BY <2>1, CountedStays
  <2>3. QED
    BY <2>1, <2>2 DEF ClockInv
<1>3. ASSUME NEW w \in Slots, Handler(w) PROVE ClockInv'
  <2>1. CASE \/ StartCheck(w) \/ CompleteSubmit(w)
             \/ \E a \in Ids : \/ PauseFetch(w, a) \/ ResumeFetch(w, a) \/ ViewFetch(w, a)
                               \/ SubmitFetch(w, a, "idle") \/ CompleteFetch(w, a)
                               \/ \E x \in Answers : AnswerFetch(w, a, x)
                                                     \/ SubmitWithAnswer(w, a, x)
    BY <2>1, DecidingClock
  <2>2. CASE StartCreate(w)
    BY <2>2, CreateClock
  <2>3. CASE WriteAnswer(w)
    BY <2>3, WriteAnswerClock
  <2>4. CASE SubmitRefetch(w)
    BY <2>4, RefetchClock
  <2>5. CASE Save(w)
    BY <2>5, SaveClock
  <2>6. QED
    BY <1>3, <2>1, <2>2, <2>3, <2>4, <2>5 DEF Handler
<1>4. QED
  BY <1>1, <1>2, <1>3 DEF Next

\* The account is kept in every reachable state.
LEMMA AccountIsKept == Spec => []ClockInv
<1>1. IInv /\ TimeInv /\ ClockInv /\ [Next]_vars => ClockInv'
  BY StepClock
<1>2. QED
  BY InitClock, Invariant, TimesAreSound, <1>1, PTL DEF Spec

\* What a stopped part stores, and what it ran, each up to its length, are as far
\* apart as its account says.
LEMMA StoppedPart ==
  ASSUME NEW d, Attempt(d), NEW t \in Nat, Timely(d, t), NEW i \in Parts(d),
         ~Runs(d, i), NEW y \in Nat
  PROVE  LET x == Smaller(Consumed(d, i), Duration(d, i))
             r == Smaller(y, Duration(d, i))
         IN /\ x \in Int /\ r \in Int
            /\ x <= r + More(d, i, t, y)
            /\ r <= x + Less(d, i, t, y)
<1> DEFINE u == Consumed(d, i)
           D == Duration(d, i)
<1>1. u \in Nat /\ D \in Nat
  BY PartIsNumber
<1>2. /\ More(d, i, t, y) = IF u >= D THEN Positive(D - y) ELSE Positive(u - y)
      /\ Less(d, i, t, y) = IF u >= D THEN 0 ELSE Positive(y - u)
  BY DEF More, Less, Full, Spent
<1> HIDE DEF u, D
<1>3. /\ Smaller(u, D) \in Int /\ Smaller(y, D) \in Int
      /\ Smaller(u, D) <= Smaller(y, D) + More(d, i, t, y)
      /\ Smaller(y, D) <= Smaller(u, D) + Less(d, i, t, y)
  BY <1>1, <1>2 DEF Smaller, Positive
<1>4. QED
  BY <1>3 DEF u, D

\* A frozen paper that keeps its account stores what its parts ran.
LEMMA FrozenTime ==
  ASSUME NEW d, Attempt(d), NEW t \in Nat, Timely(d, t), NEW ran \in [Parts(d) -> Nat],
         NEW b \in Int, Booked(d), Kept(d, t, ran, b), d.status # "IN_PROGRESS"
  PROVE  LET r == SumFunction([i \in Parts(d) |-> Smaller(ran[i], Duration(d, i))]) IN
         d.consumed <= r + b /\ r <= d.consumed + b
<1> DEFINE f == [i \in Parts(d) |-> More(d, i, t, ran[i])]
           g == [i \in Parts(d) |-> Less(d, i, t, ran[i])]
           h == Capped(d)
           k == [i \in Parts(d) |-> Smaller(ran[i], Duration(d, i))]
<1>1. IsFiniteSet(Parts(d)) /\ f \in [Parts(d) -> Int] /\ g \in [Parts(d) -> Int]
  BY AccountTypes
<1>2. ASSUME NEW i \in Parts(d)
      PROVE  /\ h[i] \in Int /\ k[i] \in Int
             /\ h[i] <= k[i] + f[i] /\ k[i] <= h[i] + g[i]
  <2>1. ~Runs(d, i) /\ ran[i] \in Nat
    BY DEF Runs
  <2>2. h[i] = Smaller(Consumed(d, i), Duration(d, i))
    BY DEF Capped
  <2> HIDE DEF h
  <2>3. QED
    BY <2>1, <2>2, StoppedPart
<1>3. h \in [Parts(d) -> Int] /\ k \in [Parts(d) -> Int]
  <2>1. h = [i \in Parts(d) |-> h[i]]
    BY DEF Capped
  <2> HIDE DEF h
  <2>2. QED
    BY <1>2, <2>1
<1>4. d.consumed = SumFunction(h)
  BY DEF Booked
<1>5. SumFunction(f) <= b /\ SumFunction(g) <= b
  BY DEF Kept
<1> HIDE DEF f, g, h, k
<1>6. SumFunction(h) <= SumFunction(k) + SumFunction(f)
  BY <1>1, <1>2, <1>3, SumAdds
<1>7. SumFunction(k) <= SumFunction(h) + SumFunction(g)
  BY <1>1, <1>2, <1>3, SumAdds
<1>8. SumFunction(f) \in Int /\ SumFunction(g) \in Int
  BY <1>1, SumType
<1>9. SumFunction(h) \in Int /\ SumFunction(k) \in Int
  BY <1>1, <1>3, SumType
<1>10. d.consumed <= SumFunction(k) + b /\ SumFunction(k) <= d.consumed + b
  BY <1>4, <1>5, <1>6, <1>7, <1>8, <1>9
<1>11. QED
  BY <1>10 DEF k

\* PaperTimeIsRunningTime: for any papers, over any sequence of pauses, resumes,
\* sessions and expiries, what a frozen attempt stores as its time is the time its
\* timers ran, each up to its length, but for the ticks handlers held the row.
THEOREM FrozenTimeIsTimeRun == Spec => []PaperTimeIsRunningTime
<1>1. IInv /\ TimeInv /\ ClockInv => PaperTimeIsRunningTime
  <2> SUFFICES ASSUME IInv, TimeInv, ClockInv, NEW a \in Ids \ raced,
                      row[a].status # "IN_PROGRESS"
               PROVE  /\ row[a].consumed <= RunningTime(a) + blur[a]
                      /\ RunningTime(a) <= row[a].consumed + blur[a]
    BY DEF PaperTimeIsRunningTime
  <2>1. /\ Attempt(row[a]) /\ now \in Nat /\ Timely(row[a], now)
        /\ active[a] \in [Parts(row[a]) -> Nat]
        /\ Booked(row[a]) /\ Kept(row[a], now, active[a], blur[a])
    BY DEF IInv, TypeInv, TimeInv, ClockInv
  <2>2. blur[a] \in Int
    <3>1. Len(row) \in 0..NumAttempts /\ Ids = 1..Len(row) /\ NumAttempts \in Nat
      BY BoundsAreNat DEF TimeInv, Ids
    <3>2. a \in Attempts
      BY <3>1 DEF Attempts
    <3>3. QED
      BY <3>2 DEF TimeInv
  <2>3. QED
    BY <2>1, <2>2, FrozenTime DEF RunningTime
<1>2. QED
  BY Invariant, TimesAreSound, AccountIsKept, <1>1, PTL
=============================================================================
