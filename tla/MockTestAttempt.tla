--------------------------- MODULE MockTestAttempt ---------------------------
(***************************************************************************)
(* The attempts of one student on one mock test. A handler fetches the row,  *)
(* decides on what it has read and saves the paths it has changed: rows have  *)
(* no version, so what another handler changed in between is kept or         *)
(* overwritten path by path. Handlers of the same student overlap (two tabs,  *)
(* a retried call), and a row expires only when a handler looks at it. A       *)
(* request that is lost half-way is one that takes no further step.           *)
(*                                                                          *)
(* One question stands for the questions of a session, or of the paper.      *)
(* Access to the test is checked outside and taken as granted.               *)
(***************************************************************************)
EXTENDS Integers, Sequences, FiniteSetsExt

CONSTANTS
  NumAttempts,   \* bound on the rows created
  Slots,         \* handlers that can run at the same time
  AllowRetake,   \* test.allowRetake
  Papers,        \* what test can be started: [sessions: Seq(Nat), duration: Nat],
                 \* the lengths of its sessions, none for one timer
  Grace,         \* GRACE_PERIOD_SECONDS
  Answers,       \* what can be selected, among "none", "right" and "wrong"
  MaxNow         \* bound on the clock

Attempts == 1..NumAttempts

ASSUME BoundsAreNat == {NumAttempts, Grace, MaxNow} \subseteq Nat
ASSUME PapersAreTimed ==
  Papers \subseteq [sessions: Seq(Nat \ {0}), duration: Nat \ {0}]
ASSUME AnswersAreKnown == Answers \subseteq {"none", "right", "wrong"}
ASSUME RetakeIsSetting == AllowRetake \in BOOLEAN

VARIABLES
  now,      \* the clock
  row,      \* the mocktestattempts collection, in the order of creation
  slot,     \* the handler in each slot, and where it is
  active,   \* ticks each session of a row, or the row, was running
  blur,     \* ticks that passed for a row while a handler held it
  raced,    \* rows saved by a handler that had read an older version
  halfDone  \* rows whose last session is saved as over, the paper not yet

history == <<active, blur, raced, halfDone>>
vars == <<now, row, slot, history>>

Closed == {"SUBMITTED", "EXPIRED"}
Smaller(a, b) == IF a < b THEN a ELSE b

SessionWise(d) == d.sessions # <<>>
\* A paper on one timer is its own only part.
NumParts(p) == IF p.sessions = <<>> THEN 1 ELSE Len(p.sessions)
Parts(d) == 1..NumParts(d.paper)
Duration(d, i) == IF SessionWise(d) THEN d.paper.sessions[i] ELSE d.paper.duration
IsLast(d) == ~SessionWise(d) \/ d.current = Len(d.sessions)

\* Seconds on the running timer.
TimeElapsed(d, t) ==
  IF SessionWise(d)
  THEN LET s == d.sessions[d.current] IN
       IF d.status = "PAUSED" \/ s.status # "IN_PROGRESS"
       THEN s.consumed ELSE s.consumed + t - s.startedAt
  ELSE IF d.status = "IN_PROGRESS" THEN d.consumed + t - d.startedAt ELSE d.consumed

AllowedTime(d) == Duration(d, d.current)

\* Mutant: the running timer is not capped.
TotalTime_NoCap(d, elapsed) ==
  IF SessionWise(d)
  THEN elapsed + SumFunction([i \in Parts(d) |->
         IF i = d.current THEN 0 ELSE d.sessions[i].consumed])
  ELSE elapsed

\* What is stored as the time of the whole paper.
TotalTime(d, elapsed) ==
  LET spent == Smaller(elapsed, AllowedTime(d)) IN
  IF SessionWise(d)
  THEN spent + SumFunction([i \in Parts(d) |->
         IF i = d.current THEN 0 ELSE Smaller(d.sessions[i].consumed, Duration(d, i))])
  ELSE spent

Marks(answer) ==
  IF answer = "right" THEN 1 ELSE IF answer = "wrong" THEN 0 - 1 ELSE 0
Score(answers) == SumFunction([i \in DOMAIN answers |-> Marks(answers[i])])

\* autoExpireIfNeeded, on the row as read: a running timer that is over
\* expires its session, and the paper with the last one.
Overdue(d, t) == d.status = "IN_PROGRESS" /\ TimeElapsed(d, t) > AllowedTime(d)
ExpireSession(d) ==
  LET e == [d EXCEPT !.sessions[d.current].status = "EXPIRED",
                     !.sessions[d.current].consumed = AllowedTime(d)]
  IN [e EXCEPT !.consumed = TotalTime(e, AllowedTime(d))]
\* Mutant: a paper that expires is closed without a score.
Expire_NotScored(d, t) ==
  LET e == IF SessionWise(d) THEN ExpireSession(d) ELSE d IN
  IF ~IsLast(d) THEN e
  ELSE [e EXCEPT !.status = "EXPIRED",
                 !.consumed = TotalTime(e, TimeElapsed(d, t))]

Expire(d, t) ==
  LET e == IF SessionWise(d) THEN ExpireSession(d) ELSE d IN
  IF ~IsLast(d) THEN e
  ELSE [e EXCEPT !.score = Score(d.answers), !.status = "EXPIRED",
                 !.consumed = TotalTime(e, TimeElapsed(d, t))]
FullyExpires(d, t) == Overdue(d, t) /\ IsLast(d)

\* save(): the paths a handler has changed, over the row as it is now. The
\* questions are saved whole when they were assigned.
Pick(old, new, cur) == IF new # old THEN new ELSE cur
Merge(old, new, cur, whole) ==
  [paper |-> cur.paper,
   status |-> Pick(old.status, new.status, cur.status),
   startedAt |-> Pick(old.startedAt, new.startedAt, cur.startedAt),
   consumed |-> Pick(old.consumed, new.consumed, cur.consumed),
   current |-> Pick(old.current, new.current, cur.current),
   score |-> Pick(old.score, new.score, cur.score),
   answers |-> IF whole THEN new.answers ELSE cur.answers,
   sessions |->
     [i \in DOMAIN cur.sessions |->
        [status |-> Pick(old.sessions[i].status, new.sessions[i].status,
                         cur.sessions[i].status),
         startedAt |-> Pick(old.sessions[i].startedAt, new.sessions[i].startedAt,
                            cur.sessions[i].startedAt),
         consumed |-> Pick(old.sessions[i].consumed, new.sessions[i].consumed,
                           cur.sessions[i].consumed)]]]

Ids == 1..Len(row)
Idle == [at |-> "idle"]
\* A handler that has a save to make: read, the row as fetched. write, what it
\* has made of it. next, what follows in the same request.
Saving(a, d, e, next) ==
  [at |-> "save", a |-> a, read |-> d, write |-> e, whole |-> FALSE, next |-> next]
Holds(w, a) == slot[w].at \in {"save", "answer", "refetch"} /\ slot[w].a = a

Init ==
  /\ now = 0
  /\ row = <<>>
  /\ slot = [w \in Slots |-> Idle]
  /\ active = [a \in Attempts |-> [i \in {} |-> 0]]
  /\ blur = [a \in Attempts |-> 0]
  /\ raced = {}
  /\ halfDone = {}

Enter(w, s) ==
  /\ slot' = [slot EXCEPT ![w] = s]
  /\ UNCHANGED <<now, row, history>>

\* startAttempt up to the create: a test without retakes refuses when a row is
\* SUBMITTED or IN_PROGRESS, a row in progress is expired if it is overdue, and
\* blocks if it is not.
StartCheck(w) ==
  LET running == {a \in Ids : row[a].status = "IN_PROGRESS"} IN
  /\ slot[w].at = "idle"
  /\ AllowRetake \/ ~\E a \in Ids : row[a].status \in {"SUBMITTED", "IN_PROGRESS"}
  /\ \/ running = {} /\ Enter(w, [at |-> "create"])
     \/ \E a \in running :
          /\ Overdue(row[a], now)
          /\ Enter(w, Saving(a, row[a], Expire(row[a], now),
                        IF FullyExpires(row[a], now) THEN "create" ELSE "end"))

\* Mutant: the index of the first session is 0 where sessions count from 1.
NewRow_OffByOne(p) ==
  [paper |-> p, status |-> "IN_PROGRESS", startedAt |-> now, consumed |-> 0,
   current |-> 0, score |-> 0,
   answers |-> [i \in 1..NumParts(p) |-> "none"],
   sessions |->
     [i \in DOMAIN p.sessions |->
        [status |-> IF i = 1 THEN "IN_PROGRESS" ELSE "LOCKED",
         startedAt |-> IF i = 1 THEN now ELSE 0, consumed |-> 0]]]

NewRow(p) ==
  [paper |-> p, status |-> "IN_PROGRESS", startedAt |-> now, consumed |-> 0,
   current |-> 1, score |-> 0,
   answers |-> [i \in 1..NumParts(p) |-> "none"],
   sessions |->
     [i \in DOMAIN p.sessions |->
        [status |-> IF i = 1 THEN "IN_PROGRESS" ELSE "LOCKED",
         startedAt |-> IF i = 1 THEN now ELSE 0, consumed |-> 0]]]

StartCreate(w) ==
  /\ slot[w].at = "create"
  /\ Len(row) < NumAttempts
  /\ \E p \in Papers :
       /\ row' = Append(row, NewRow(p))
       /\ active' = [active EXCEPT ![Len(row) + 1] =
                       [i \in 1..NumParts(p) |-> 0]]
  /\ slot' = [slot EXCEPT ![w] = Idle]
  /\ UNCHANGED <<now, blur, raced, halfDone>>

\* pauseAttempt: refused near the end, the running timer is frozen.
PauseFetch(w, a) ==
  LET d == row[a]
      elapsed == TimeElapsed(d, now)
      e == IF SessionWise(d)
           THEN [d EXCEPT !.status = "PAUSED",
                          !.sessions[d.current].status = "PAUSED",
                          !.sessions[d.current].consumed =
                             Smaller(elapsed, AllowedTime(d))]
           ELSE [d EXCEPT !.status = "PAUSED"]
  IN
  /\ slot[w].at = "idle"
  /\ d.status = "IN_PROGRESS"
  /\ elapsed + Grace < AllowedTime(d)
  /\ Enter(w, Saving(a, d, [e EXCEPT !.consumed = TotalTime(e, elapsed)], "end"))

\* Mutant: the clock goes on from the first start.
Resumed_OldClock(d) ==
  IF SessionWise(d)
  THEN [d EXCEPT !.status = "IN_PROGRESS",
                 !.sessions[d.current].status = "IN_PROGRESS"]
  ELSE [d EXCEPT !.status = "IN_PROGRESS"]

Resumed(d) ==
  LET e == [d EXCEPT !.status = "IN_PROGRESS", !.startedAt = now] IN
  IF SessionWise(d)
  THEN [e EXCEPT !.sessions[d.current].status = "IN_PROGRESS",
                 !.sessions[d.current].startedAt = now]
  ELSE e

\* Mutant: whatever is not in progress is resumed.
ResumeFetch_AnyStatus(w, a) ==
  LET d == row[a] IN
  /\ slot[w].at = "idle"
  /\ \/ Overdue(d, now) /\ Enter(w, Saving(a, d, Expire(d, now), "end"))
     \/ d.status # "IN_PROGRESS" /\ Enter(w, Saving(a, d, Resumed(d), "end"))

\* resumeAttempt: expires an overdue row, restarts the clock of a paused one.
ResumeFetch(w, a) ==
  LET d == row[a] IN
  /\ slot[w].at = "idle"
  /\ \/ Overdue(d, now) /\ Enter(w, Saving(a, d, Expire(d, now), "end"))
     \/ d.status = "PAUSED" /\ Enter(w, Saving(a, d, Resumed(d), "end"))

\* findOne, findUserAttempts, findUserTestAttempts and a late updateAnswer.
ViewFetch(w, a) ==
  /\ slot[w].at = "idle"
  /\ Overdue(row[a], now)
  /\ Enter(w, Saving(a, row[a], Expire(row[a], now), "end"))

\* updateAnswer of an attempt in time: its session must be the running one.
AnswerFetch(w, a, answer) ==
  LET d == row[a] IN
  /\ slot[w].at = "idle"
  /\ d.status = "IN_PROGRESS"
  /\ ~Overdue(d, now)
  /\ SessionWise(d) => d.sessions[d.current].status = "IN_PROGRESS"
  /\ Enter(w, [at |-> "answer", a |-> a, read |-> d, answer |-> answer,
               next |-> "end", t |-> now])

\* submitAttempt: on the last session only. Answers sent along are written
\* first, unless the grace period is over too.
MaySubmit(d) == d.status = "IN_PROGRESS" /\ IsLast(d)
Submitted(d, t) ==
  LET elapsed == TimeElapsed(d, t)
      expired == elapsed > AllowedTime(d)
                   \/ (SessionWise(d) /\ d.sessions[d.current].status = "EXPIRED")
      verdict == IF expired THEN "EXPIRED" ELSE "SUBMITTED"
      e == IF SessionWise(d)
           THEN [d EXCEPT !.sessions[d.current].status = verdict,
                          !.sessions[d.current].consumed =
                             Smaller(elapsed, AllowedTime(d))]
           ELSE d
  IN [e EXCEPT !.score = Score(d.answers), !.status = verdict,
               !.consumed = TotalTime(e, elapsed)]

SubmitFetch(w, a, at) ==
  /\ slot[w].at = at
  /\ MaySubmit(row[a])
  /\ Enter(w, Saving(a, row[a], Submitted(row[a], now), "end"))

SubmitWithAnswer(w, a, answer) ==
  LET d == row[a] IN
  /\ slot[w].at = "idle"
  /\ MaySubmit(d)
  /\ TimeElapsed(d, now) - AllowedTime(d) <= Grace
  /\ Enter(w, [at |-> "answer", a |-> a, read |-> d, answer |-> answer,
               next |-> "refetch", t |-> now])

\* updateOne on the question, whatever the row has become.
WriteAnswer(w) ==
  LET s == slot[w] IN
  /\ s.at = "answer"
  /\ row' = [row EXCEPT ![s.a].answers[s.read.current] = s.answer]
  /\ raced' = IF row[s.a] = s.read THEN raced ELSE raced \cup {s.a}
  /\ slot' = [slot EXCEPT ![w] =
                IF s.next = "end" THEN Idle ELSE [s EXCEPT !.at = "refetch"]]
  /\ UNCHANGED <<now, active, blur, halfDone>>

\* The questions are read again, the rest of the row is not, and they are
\* saved whole.
SubmitRefetch(w) ==
  LET s == slot[w]
      d == [s.read EXCEPT !.answers = row[s.a].answers]
  IN
  /\ s.at = "refetch"
  /\ raced' = IF row[s.a] = d THEN raced ELSE raced \cup {s.a}
  /\ slot' = [slot EXCEPT ![w] =
                [Saving(s.a, d, Submitted(d, s.t), "end") EXCEPT !.whole = TRUE]]
  /\ UNCHANGED <<now, row, active, blur, halfDone>>

\* completeSession: closes the current session. The last one is saved before
\* the paper is submitted by a second fetch, the others open the next.
CompletedSession(d) ==
  LET elapsed == TimeElapsed(d, now)
      e == [d EXCEPT !.sessions[d.current].status =
                        IF elapsed > AllowedTime(d) THEN "EXPIRED" ELSE "SUBMITTED",
                     !.sessions[d.current].consumed =
                        Smaller(elapsed, AllowedTime(d))]
  IN IF d.sessions[d.current].status \in {"IN_PROGRESS", "PAUSED"}
     THEN [e EXCEPT !.consumed = TotalTime(e, elapsed)] ELSE d
\* Mutant: the next session opens and the index stays.
NextSession_KeepsIndex(d) ==
  [d EXCEPT !.startedAt = now,
            !.sessions[d.current + 1] =
               [status |-> "IN_PROGRESS", startedAt |-> now, consumed |-> 0]]

NextSession(d) ==
  [d EXCEPT !.current = d.current + 1, !.startedAt = now,
            !.sessions[d.current + 1] =
               [status |-> "IN_PROGRESS", startedAt |-> now, consumed |-> 0]]

CompleteFetch(w, a) ==
  LET d == row[a]
      e == CompletedSession(d)
  IN
  /\ slot[w].at = "idle"
  /\ SessionWise(d)
  /\ d.status = "IN_PROGRESS"
  /\ d.sessions[d.current].status # "LOCKED"
  /\ \/ IsLast(d) /\ Enter(w, Saving(a, d, e, "submit"))
     \/ ~IsLast(d) /\ Enter(w, Saving(a, d, NextSession(e), "end"))

\* The second half of a last completeSession; what is left when it is refused.
CompleteSubmit(w) ==
  /\ slot[w].at = "submit"
  /\ \/ SubmitFetch(w, slot[w].a, "submit")
     \/ ~MaySubmit(row[slot[w].a]) /\ Enter(w, Idle)

Save(w) ==
  LET s == slot[w] IN
  /\ s.at = "save"
  /\ row' = [row EXCEPT ![s.a] = Merge(s.read, s.write, row[s.a], s.whole)]
  /\ raced' = IF row[s.a] = s.read THEN raced ELSE raced \cup {s.a}
  /\ slot' = [slot EXCEPT ![w] =
                IF s.next = "create" THEN [at |-> "create"]
                ELSE IF s.next = "submit" THEN [at |-> "submit", a |-> s.a]
                ELSE Idle]
  /\ halfDone' = IF s.next = "submit" THEN halfDone \cup {s.a}
                 ELSE IF s.write.status \in Closed THEN halfDone \ {s.a}
                 ELSE halfDone
  /\ UNCHANGED <<now, active, blur>>

Running(a, i) ==
  /\ row[a].status = "IN_PROGRESS"
  /\ SessionWise(row[a]) =>
       row[a].current = i /\ row[a].sessions[i].status = "IN_PROGRESS"

Tick ==
  /\ now < MaxNow
  /\ now' = now + 1
  /\ active' = [a \in Attempts |->
                  [i \in DOMAIN active[a] |->
                     active[a][i] + IF a \in Ids /\ Running(a, i) THEN 1 ELSE 0]]
  /\ blur' = [a \in Attempts |->
                blur[a] + IF \E w \in Slots : Holds(w, a) THEN 1 ELSE 0]
  /\ UNCHANGED <<row, slot, raced, halfDone>>

Handler(w) ==
  \/ StartCheck(w) \/ StartCreate(w)
  \/ \E a \in Ids : \/ PauseFetch(w, a) \/ ResumeFetch(w, a) \/ ViewFetch(w, a)
                    \/ SubmitFetch(w, a, "idle") \/ CompleteFetch(w, a)
                    \/ \E x \in Answers : AnswerFetch(w, a, x) \/ SubmitWithAnswer(w, a, x)
  \/ WriteAnswer(w) \/ SubmitRefetch(w) \/ CompleteSubmit(w) \/ Save(w)

Next == Tick \/ \E w \in Slots : Handler(w)

Spec == Init /\ [][Next]_vars
-----------------------------------------------------------------------------
Times == Nat
SessionRow == [status: {"LOCKED", "IN_PROGRESS", "PAUSED"} \cup Closed,
               startedAt: Times, consumed: Times]
IsRow(d) ==
  /\ d.paper \in Papers
  /\ d.status \in {"IN_PROGRESS", "PAUSED"} \cup Closed
  /\ {d.startedAt, d.consumed} \subseteq Times
  /\ d.current \in Parts(d)
  /\ d.score \in Int
  /\ d.answers \in [Parts(d) -> {"none", "right", "wrong"}]
  /\ d.sessions \in [DOMAIN d.paper.sessions -> SessionRow]

\* Every variable has its type, in the rows and in what handlers hold of them.
TypeOK ==
  /\ now \in 0..MaxNow
  /\ Len(row) \in 0..NumAttempts
  /\ \A a \in Ids : IsRow(row[a]) /\ DOMAIN active[a] = Parts(row[a])
  /\ \A w \in Slots :
       /\ slot[w].at \in {"idle", "create", "answer", "refetch", "save", "submit"}
       /\ slot[w].at \in {"answer", "refetch", "save", "submit"} => slot[w].a \in Ids
       /\ slot[w].at \in {"answer", "refetch", "save"} => IsRow(slot[w].read)
       /\ slot[w].at = "save" => IsRow(slot[w].write)
  /\ \A a \in Attempts : blur[a] \in 0..MaxNow
  /\ raced \subseteq Attempts
  /\ halfDone \subseteq Attempts

RunningTime(a) ==
  SumFunction([i \in Parts(row[a]) |-> Smaller(active[a][i], Duration(row[a], i))])

\* A frozen paper time is the time its timers ran, each up to its length, over
\* any sequence of pauses, resumes, sessions and expiries: paused time is never
\* charged, and the delay inside a handler is the only error (schema comment
\* "Time spent on the paper in seconds, excluding paused time").
PaperTimeIsRunningTime ==
  \A a \in Ids \ raced :
    row[a].status # "IN_PROGRESS" =>
      /\ row[a].consumed <= RunningTime(a) + blur[a]
      /\ RunningTime(a) <= row[a].consumed + blur[a]

\* The stored time is never more than the paper allows ("cannot report more than
\* the paper allowed"), also on a row that handlers have saved over each other.
PaperTime(d) == SumFunction([i \in Parts(d) |-> Duration(d, i)])
TimeWithinPaper == \A a \in Ids : row[a].consumed <= PaperTime(row[a])

\* Sessions are worked through in order: those before the current one are over,
\* those after it are locked, and a paper is closed on its last one, also when it
\* is used between the two saves of its last completion.
SessionsInOrder ==
  \A a \in Ids \ raced :
    LET d == row[a] IN
    SessionWise(d) =>
      /\ \A i \in 1..(d.current - 1) : d.sessions[i].status \in Closed
      /\ \A i \in (d.current + 1)..Len(d.sessions) : d.sessions[i].status = "LOCKED"
      /\ d.status \in Closed =>
           IsLast(d) /\ d.sessions[d.current].status \in Closed

\* The score of a closed attempt is the score of the answers it stores, unless
\* a handler had read the attempt before another one changed it.
ScoreIsOfStoredAnswers ==
  \A a \in Ids \ raced :
    row[a].status \in Closed => row[a].score = Score(row[a].answers)

\* Closed attempts and closed sessions are never opened again, by any step
\* (MOCK-TEST-ATTEMPTS.md, status cheatsheet), unless handlers overlapped on
\* the row or it was used between the two saves of the last completion.
ClosedStaysClosed ==
  [][\A a \in Ids \ (raced' \cup halfDone') :
       /\ row[a].status \in Closed => row'[a] = row[a]
       /\ \A i \in DOMAIN row[a].sessions :
            row[a].sessions[i].status \in Closed =>
              row'[a].sessions[i].status \in Closed]_vars
=============================================================================
