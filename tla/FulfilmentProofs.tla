--------------------------- MODULE FulfilmentProofs --------------------------
(***************************************************************************)
(* Theorems about Fulfilment, for any orders, duration presets, admin rows,  *)
(* grants, workers and days, and for any number of lost requests.            *)
(*                                                                          *)
(* IInv says what a worker may rely on at the point it has reached: the lock *)
(* is its own unless it is late, and an order with provisionedAt has every   *)
(* row.                                                                     *)
(* TypeInv adds that plans only move windows earlier, which needs no lock.   *)
(* PackedInv, while no lease is outlived and no provisioning lost, keeps the *)
(* windows of two orders apart, and GapInv, once nothing is to be re-anchored, *)
(* leaves no hole between them. Both rest on what the walk of the re-anchor   *)
(* returns, which is proved by induction over the groups it has taken.       *)
(***************************************************************************)
EXTENDS Fulfilment, FiniteSetTheorems, WellFoundedInduction, TLAPS

Section == {"window", "insert", "plan", "apply", "unlock"}
JobFields == {"op", "at", "order", "now", "window", "next", "todo", "plans"}
RowFields == {"status", "startsAt", "expiresAt"}

\* As much of the types as the arguments need.
Shape ==
  /\ overruns \in Nat
  /\ DOMAIN job = Workers
  /\ \A w \in Workers: DOMAIN job[w] = JobFields
  /\ DOMAIN ent = Orders
  /\ \A o \in Orders: DOMAIN ent[o] = Grants
  /\ \A o \in Orders: \A g \in Grants: DOMAIN ent[o][g] = RowFields
  /\ DOMAIN provisioned = Orders

\* A worker in the section holds a lease that has not ended, unless it is late.
HoldersHold ==
  /\ overruns = 0 => late = {}
  /\ \A w \in Workers:
       job[w].at \in Section /\ w \notin late => lock = w /\ ~leaseOver

\* A provisioning job j has inserted the grants before next, and all of them
\* once it has left the loop.
Inserted(j) ==
  j.op = "provision" =>
    /\ j.order \in Orders
    /\ j.next \in Grants
    /\ j.at \in {"lock", "window", "insert", "unlock", "finish"}
    /\ j.at \in {"lock", "window"} => j.next = 1
    /\ j.at = "insert" => \A g \in Grants: g < j.next => Exists(j.order, g)
    /\ j.at \in {"unlock", "finish"} => \A g \in Grants: Exists(j.order, g)

JobsInserted == \A w \in Workers: Inserted(job[w])

IInv == Shape /\ HoldersHold /\ JobsInserted /\ ProvisionedIsComplete

\* No step takes a row away.
RowsStay ==
  \A o \in Orders: \A g \in Grants: Exists(o, g) => ent'[o][g].status # "NONE"

-----------------------------------------------------------------------------
\* The record of a worker without a request.
LEMMA IdleJob ==
  /\ DOMAIN Idle = JobFields
  /\ Idle.op = "none" /\ Idle.at = "start" /\ Idle.next = 1
  BY DEF Idle, JobFields

\* Before the first request the invariant holds.
THEOREM InitIInv == Init => IInv
<1> SUFFICES ASSUME Init PROVE IInv
  OBVIOUS
<1> USE DEF Init
<1>1. Shape
  BY IdleJob DEF Shape, NoRow, RowFields
<1>2. HoldersHold
  BY IdleJob DEF HoldersHold, Section
<1>3. JobsInserted
  BY IdleJob DEF JobsInserted, Inserted
<1>4. ProvisionedIsComplete
  BY DEF ProvisionedIsComplete
<1>5. QED
  BY <1>1, <1>2, <1>3, <1>4 DEF IInv

\* A step of one worker that leaves the rows and provisionedAt as they are, or
\* adds to them, keeps the invariant when its own next job is backed by them.
LEMMA OneJobMoves ==
  ASSUME IInv, NEW w \in Workers, NEW j,
         job' = [job EXCEPT ![w] = j], DOMAIN j = JobFields,
         RowsStay, Shape', Inserted(j)'
  PROVE  JobsInserted'
<1> SUFFICES ASSUME NEW v \in Workers PROVE Inserted(job[v])'
  BY DEF JobsInserted
<1>1. CASE v = w
  BY <1>1 DEF IInv, Shape
<1>2. CASE v # w
  <2>1. job'[v] = job[v]
    BY <1>2 DEF IInv, Shape
  <2>2. Inserted(job[v])
    BY DEF IInv, JobsInserted
  <2>3. QED
    BY <2>1, <2>2 DEF Inserted, RowsStay, Exists
<1>3. QED
  BY <1>1, <1>2

\* A step of one worker that leaves the lock alone keeps HoldersHold when it
\* does not bring the worker into the section.
LEMMA LockUntouched ==
  ASSUME IInv, NEW w \in Workers, NEW j,
         job' = [job EXCEPT ![w] = j],
         j.at \in Section => job[w].at \in Section,
         UNCHANGED <<lockVars, overruns, late>>
  PROVE  HoldersHold'
<1>1. overruns' = 0 => late' = {}
  BY DEF IInv, HoldersHold
<1>2. ASSUME NEW v \in Workers, job'[v].at \in Section, v \notin late'
      PROVE  lock' = v /\ ~leaseOver'
  <2>1. job[v].at \in Section
    BY <1>2 DEF IInv, Shape
  <2>2. QED
    BY <1>2, <2>1 DEF IInv, HoldersHold, lockVars
<1>3. QED
  BY <1>1, <1>2 DEF HoldersHold

\* The rows keep their shape and none goes away.
RowsKept == RowsStay /\ Shape'

\* A worker moves to job j without touching the lock or provisionedAt, and j is
\* backed by the rows.
LEMMA WorkerMoves ==
  ASSUME IInv, NEW w \in Workers, NEW j,
         job' = [job EXCEPT ![w] = j], DOMAIN j = JobFields,
         j.at \in Section => job[w].at \in Section,
         Inserted(j)', RowsKept, UNCHANGED <<lockVars, overruns, late, provisioned>>
  PROVE  IInv'
<1>1. HoldersHold'
  BY LockUntouched
<1>2. JobsInserted'
  BY OneJobMoves DEF RowsKept
<1>3. ProvisionedIsComplete'
  BY DEF IInv, RowsKept, RowsStay, ProvisionedIsComplete, Exists
<1>4. QED
  BY <1>1, <1>2, <1>3 DEF IInv, RowsKept

\* The same for a step that writes no row either.
LEMMA WorkerMovesOnly ==
  ASSUME IInv, NEW w \in Workers, NEW j,
         job' = [job EXCEPT ![w] = j], DOMAIN j = JobFields,
         j.at \in Section => job[w].at \in Section,
         Inserted(j), UNCHANGED <<ent, lockVars, overruns, late, provisioned>>
  PROVE  IInv'
<1>1. RowsKept
  BY DEF RowsKept, RowsStay, Exists, IInv, Shape
<1>2. Inserted(j)'
  BY DEF Inserted, Exists
<1>3. QED
  BY <1>1, <1>2, WorkerMoves

\* A worker that returns relies on nothing.
LEMMA WorkerReturns ==
  ASSUME IInv, NEW w \in Workers, Return(w),
         UNCHANGED <<ent, lockVars, overruns, late, provisioned>>
  PROVE  IInv'
<1>1. PICK j: j = Idle
  OBVIOUS
<1>2. /\ job' = [job EXCEPT ![w] = j] /\ DOMAIN j = JobFields
      /\ j.at \notin Section /\ Inserted(j)
  BY <1>1, IdleJob DEF Return, Section, Inserted
<1>3. QED
  BY <1>2, WorkerMovesOnly

\* A job that goes to another point keeps everything but the point.
LEMMA GoneTo ==
  ASSUME IInv, NEW w \in Workers, NEW point, Goto(w, point)
  PROVE  \E j:
           /\ job' = [job EXCEPT ![w] = j] /\ DOMAIN j = JobFields
           /\ j.op = job[w].op /\ j.order = job[w].order
           /\ j.next = job[w].next /\ j.at = point
<1>1. PICK j: j = [job[w] EXCEPT !.at = point]
  OBVIOUS
<1>2. job' = [job EXCEPT ![w] = j]
  BY <1>1 DEF Goto, IInv, Shape
<1>3. DOMAIN job[w] = JobFields
  BY DEF IInv, Shape
<1>4. /\ DOMAIN j = JobFields /\ j.op = job[w].op /\ j.order = job[w].order
      /\ j.next = job[w].next /\ j.at = point
  BY <1>1, <1>3 DEF JobFields
<1>5. QED
  BY <1>2, <1>4

-----------------------------------------------------------------------------
(* The lock.                                                                  *)

\* Nobody is in the section when the lock is free or its lease is over.
LEMMA AcquireLockPreserves ==
  ASSUME IInv, NEW w \in Workers, AcquireLock(w)
  PROVE  IInv'
<1> USE DEF orderVars, history
<1>1. PICK j: /\ job' = [job EXCEPT ![w] = j] /\ DOMAIN j = JobFields
              /\ j.op = job[w].op /\ j.order = job[w].order
              /\ j.next = job[w].next
              /\ j.at = IF j.op = "provision" THEN "window" ELSE "plan"
  <2>1. PICK point: /\ Goto(w, point)
                    /\ point = IF job[w].op = "provision" THEN "window"
                                                          ELSE "plan"
    BY DEF AcquireLock
  <2>2. QED
    BY <2>1, GoneTo
<1>2. Shape' /\ RowsStay
  BY <1>1 DEF AcquireLock, IInv, Shape, RowsStay, Exists
<1>3. Inserted(j)'
  BY <1>1 DEF AcquireLock, IInv, JobsInserted, Inserted
<1>4. HoldersHold'
  <2> SUFFICES ASSUME NEW v \in Workers, job'[v].at \in Section, v \notin late
               PROVE  v = w
    BY DEF HoldersHold, AcquireLock, IInv
  <2>1. SUFFICES ASSUME v # w PROVE FALSE
    OBVIOUS
  <2>2. lock = v /\ ~leaseOver
    BY <1>1, <2>1 DEF IInv, Shape, HoldersHold
  <2>3. QED
    BY <2>2, LockStatesDiffer DEF AcquireLock, LockFree
<1>5. JobsInserted'
  BY <1>1, <1>2, <1>3, OneJobMoves
<1>6. ProvisionedIsComplete'
  BY DEF AcquireLock, IInv, ProvisionedIsComplete, Exists
<1>7. QED
  BY <1>2, <1>4, <1>5, <1>6 DEF IInv

\* The holder leaves the section, and nobody else was in it.
LEMMA ReleaseLockPreserves ==
  ASSUME IInv, NEW w \in Workers, ReleaseLock(w)
  PROVE  IInv'
<1> USE DEF orderVars, history
<1>1. PICK j: /\ job' = [job EXCEPT ![w] = j] /\ DOMAIN j = JobFields
              /\ j.at \notin Section
              /\ j.op = "provision" =>
                   /\ job[w].op = "provision"
                   /\ j.order = job[w].order
                   /\ j.next = job[w].next
                   /\ j.at = "finish"
  <2>1. CASE job[w].op = "revoke"
    BY <2>1, IdleJob DEF ReleaseLock, ExitSection, Return, IInv, Shape, Section
  <2>2. CASE job[w].op # "revoke"
    <3>1. Goto(w, "finish")
      BY <2>2 DEF ReleaseLock, ExitSection
    <3>2. QED
      BY <3>1, GoneTo DEF Section
  <2>3. QED
    BY <2>1, <2>2
<1>2. Shape' /\ RowsStay
  BY <1>1 DEF ReleaseLock, ExitSection, IInv, Shape, RowsStay, Exists
<1>3. Inserted(j)'
  BY <1>1 DEF ReleaseLock, ExitSection, IInv, JobsInserted, Inserted, Exists
<1>4. HoldersHold'
  <2>1. overruns' = 0 => late' = {}
    BY DEF ReleaseLock, ExitSection, IInv, HoldersHold
  <2>2. ASSUME NEW v \in Workers, job'[v].at \in Section, v \notin late'
        PROVE  lock' = v /\ ~leaseOver'
    <3>1. v # w /\ job'[v] = job[v]
      BY <1>1, <2>2 DEF IInv, Shape
    <3>2. v \notin late
      BY <2>2, <3>1 DEF ReleaseLock, ExitSection
    <3>3. lock = v /\ ~leaseOver
      BY <2>2, <3>1, <3>2 DEF IInv, HoldersHold
    <3>4. QED
      BY <3>1, <3>3 DEF ReleaseLock
  <2>3. QED
    BY <2>1, <2>2 DEF HoldersHold
<1>5. JobsInserted'
  BY <1>1, <1>2, <1>3, OneJobMoves
<1>6. ProvisionedIsComplete'
  BY DEF ReleaseLock, ExitSection, IInv, ProvisionedIsComplete, Exists
<1>7. QED
  BY <1>2, <1>4, <1>5, <1>6 DEF IInv

\* A holder whose lease ends under it is late from then on.
LEMMA LeaseEndsPreserves ==
  ASSUME IInv, LeaseEnds
  PROVE  IInv'
<1>1. Shape' /\ JobsInserted' /\ ProvisionedIsComplete'
  BY DEF LeaseEnds, IInv, Shape, JobsInserted, Inserted, Exists,
         ProvisionedIsComplete, orderVars
<1>2. HoldersHold'
  <2>1. overruns' = 0 => late' = {}
    BY LockStatesDiffer DEF LeaseEnds, IInv, Shape, HoldersHold
  <2>2. ASSUME NEW v \in Workers, job'[v].at \in Section, v \notin late'
        PROVE  FALSE
    BY <2>2 DEF LeaseEnds, IInv, Shape, HoldersHold
  <2>3. QED
    BY <2>1, <2>2 DEF HoldersHold
<1>3. QED
  BY <1>1, <1>2 DEF IInv

-----------------------------------------------------------------------------
(* Provisioning.                                                              *)

\* A provisioning run starts with the first grant.
LEMMA StartProvisionPreserves ==
  ASSUME IInv, NEW w \in Workers, NEW o \in Orders, StartProvision(w, o)
  PROVE  IInv'
<1>1. PICK j: j = [Idle EXCEPT !.op = "provision", !.at = "lock", !.order = o,
                               !.now = now]
  OBVIOUS
<1>2. job' = [job EXCEPT ![w] = j]
  BY <1>1 DEF StartProvision, Begin
<1>3. /\ DOMAIN j = JobFields /\ j.at = "lock" /\ j.order = o /\ j.next = 1
  BY <1>1, IdleJob DEF JobFields
<1>4. Inserted(j) /\ j.at \notin Section
  BY <1>3, BoundsAreNat DEF Inserted, Grants, Section
<1>5. QED
  BY <1>2, <1>3, <1>4, WorkerMovesOnly
     DEF StartProvision, orderVars, history

\* Reading the windows leaves the run at the first grant.
LEMMA FindWindowPreserves ==
  ASSUME IInv, NEW w \in Workers, FindWindow(w)
  PROVE  IInv'
<1>1. PICK window: job' = [job EXCEPT ![w].window = window, ![w].now = 0,
                                      ![w].at = "insert"]
  BY DEF FindWindow
<1>2. PICK j: j = [job[w] EXCEPT !.window = window, !.now = 0, !.at = "insert"]
  OBVIOUS
<1>3. job' = [job EXCEPT ![w] = j]
  BY <1>1, <1>2 DEF IInv, Shape
<1>4. DOMAIN job[w] = JobFields /\ At(w, "provision", "window")
  BY DEF FindWindow, IInv, Shape
<1>5. /\ DOMAIN j = JobFields /\ j.op = "provision" /\ j.at = "insert"
      /\ j.order = job[w].order /\ j.next = job[w].next
  BY <1>2, <1>4 DEF JobFields, At
<1>6. j.order \in Orders /\ j.next = 1
  BY <1>4, <1>5 DEF IInv, JobsInserted, Inserted, At
<1>7. Inserted(j)
  BY <1>5, <1>6, BoundsAreNat DEF Inserted, Grants
<1>8. QED
  BY <1>3, <1>4, <1>5, <1>7, WorkerMovesOnly
     DEF FindWindow, At, Section, orderVars, history

\* The grant at next has its row now, and no other row changes.
LEMMA InsertGrantRows ==
  ASSUME IInv, NEW w \in Workers, InsertGrant(w)
  PROVE  RowsKept /\ ent'[job[w].order][job[w].next].status # "NONE"
<1>1. job[w].order \in Orders /\ job[w].next \in Grants
  BY DEF InsertGrant, At, IInv, JobsInserted, Inserted
<1>2. /\ DOMAIN NewRow(w) = RowFields /\ NewRow(w).status = "ACTIVE"
  BY DEF NewRow, RowFields
<1>3. PICK row: /\ row = NewRow(w)
                /\ DOMAIN row = RowFields /\ row.status = "ACTIVE"
  BY <1>2
<1>4. ent' = IF Exists(job[w].order, job[w].next)
               THEN ent ELSE [ent EXCEPT ![job[w].order][job[w].next] = row]
  BY <1>3 DEF InsertGrant
<1>5. DOMAIN ent' = Orders /\ \A o \in Orders: DOMAIN ent'[o] = Grants
  BY <1>1, <1>4 DEF IInv, Shape
<1>6. \A o \in Orders: \A g \in Grants:
        ent'[o][g] = IF /\ o = job[w].order /\ g = job[w].next
                        /\ ~Exists(o, g)
                       THEN row ELSE ent[o][g]
  BY <1>1, <1>4 DEF IInv, Shape
<1>7. \A o \in Orders: \A g \in Grants: DOMAIN ent'[o][g] = RowFields
  BY <1>3, <1>6 DEF IInv, Shape
<1>8. RowsStay /\ ent'[job[w].order][job[w].next].status # "NONE"
  BY <1>1, <1>3, <1>6 DEF RowsStay, Exists
<1>9. DOMAIN job' = Workers /\ \A v \in Workers: DOMAIN job'[v] = JobFields
  <2>1. CASE job[w].next < NumGrants
    <3>1. job' = [job EXCEPT ![w].next = job[w].next + 1]
      BY <2>1 DEF InsertGrant, AfterGrant
    <3>2. QED
      BY <3>1 DEF IInv, Shape
  <2>2. CASE ~(job[w].next < NumGrants)
    BY <2>2, IdleJob
       DEF InsertGrant, AfterGrant, LeaveSection, IInv, Shape
  <2>3. QED
    BY <2>1, <2>2
<1>10. QED
  BY <1>5, <1>7, <1>8, <1>9
     DEF InsertGrant, RowsKept, IInv, Shape, orderVars, history

\* The job that leaves the lock's work behind keeps its operation and order.
LEMMA LeftSection ==
  ASSUME IInv, NEW w \in Workers, LeaveSection(w)
  PROVE  \E j:
           /\ job' = [job EXCEPT ![w] = j] /\ DOMAIN j = JobFields
           /\ j.op = job[w].op /\ j.order = job[w].order
           /\ j.next = 1 /\ j.at = "unlock"
<1>1. PICK j: j = [Idle EXCEPT !.op = job[w].op, !.at = "unlock",
                               !.order = job[w].order]
  OBVIOUS
<1>2. job' = [job EXCEPT ![w] = j]
  BY <1>1 DEF LeaveSection
<1>3. /\ DOMAIN j = JobFields /\ j.op = job[w].op /\ j.order = job[w].order
      /\ j.next = 1 /\ j.at = "unlock"
  BY <1>1, IdleJob DEF JobFields
<1>4. QED
  BY <1>2, <1>3

\* The run moves to the next grant once this one has its row.
LEMMA InsertGrantPreserves ==
  ASSUME IInv, NEW w \in Workers, InsertGrant(w)
  PROVE  IInv'
<1> DEFINE o == job[w].order
<1> DEFINE n == job[w].next
<1>1. /\ job[w].op = "provision" /\ job[w].at = "insert"
      /\ o \in Orders /\ n \in Grants
      /\ \A g \in Grants: g < n => Exists(o, g)
      /\ UNCHANGED <<lockVars, overruns, late, provisioned>>
  BY DEF InsertGrant, At, IInv, JobsInserted, Inserted, orderVars, history
<1>2. RowsKept
  BY InsertGrantRows
<1>3. \A g \in Grants: g <= n => ent'[o][g].status # "NONE"
  <2>1. SUFFICES ASSUME NEW g \in Grants, g <= n
                 PROVE  ent'[o][g].status # "NONE"
    OBVIOUS
  <2>2. CASE g = n
    BY <2>2, InsertGrantRows
  <2>3. CASE g # n
    <3>1. g < n
      BY <2>1, <2>3, <1>1, BoundsAreNat DEF Grants
    <3>2. QED
      BY <3>1, <1>1, <1>2 DEF RowsKept, RowsStay
  <2>4. QED
    BY <2>2, <2>3
<1>4. CASE n < NumGrants
  <2>1. PICK j: j = [job[w] EXCEPT !.next = n + 1]
    OBVIOUS
  <2>2. job' = [job EXCEPT ![w] = j]
    BY <1>4, <2>1 DEF InsertGrant, AfterGrant, IInv, Shape
  <2>3. /\ DOMAIN j = JobFields /\ j.op = "provision" /\ j.at = "insert"
        /\ j.order = o /\ j.next = n + 1
    <3>1. DOMAIN job[w] = JobFields
      BY DEF IInv, Shape
    <3>2. QED
      BY <1>1, <2>1, <3>1 DEF JobFields
  <2>4. n + 1 \in Grants /\ \A g \in Grants: g < n + 1 => g <= n
    BY <1>1, <1>4, BoundsAreNat DEF Grants
  <2>5. Inserted(j)'
    BY <1>1, <1>3, <2>3, <2>4 DEF Inserted, Exists
  <2>6. QED
    BY <1>1, <1>2, <2>2, <2>3, <2>5, WorkerMoves
<1>5. CASE ~(n < NumGrants)
  <2>1. LeaveSection(w)
    BY <1>5 DEF InsertGrant, AfterGrant
  <2>2. PICK j: /\ job' = [job EXCEPT ![w] = j] /\ DOMAIN j = JobFields
                /\ j.op = "provision" /\ j.order = o
                /\ j.next = 1 /\ j.at = "unlock"
    BY <1>1, <2>1, LeftSection
  <2>3. 1 \in Grants /\ \A g \in Grants: g <= n
    BY <1>1, <1>5, BoundsAreNat DEF Grants
  <2>4. Inserted(j)'
    BY <1>1, <1>3, <2>2, <2>3 DEF Inserted, Exists
  <2>5. QED
    BY <1>1, <1>2, <2>2, <2>4, WorkerMoves DEF Section
<1>6. QED
  BY <1>4, <1>5

\* provisionedAt is written by a run that has seen every grant inserted.
LEMMA SaveProvisionedPreserves ==
  ASSUME IInv, NEW w \in Workers, SaveProvisioned(w)
  PROVE  IInv'
<1> DEFINE o == job[w].order
<1>1. /\ o \in Orders /\ \A g \in Grants: Exists(o, g)
      /\ provisioned' = [provisioned EXCEPT ![o] = TRUE]
      /\ job' = [job EXCEPT ![w] = Idle]
      /\ UNCHANGED <<ent, lockVars, overruns, late>>
  BY DEF SaveProvisioned, At, IInv, JobsInserted, Inserted, Return, history
<1>2. PICK j: j = Idle
  OBVIOUS
<1>3. Shape' /\ RowsStay
  BY <1>1, IdleJob DEF IInv, Shape, RowsStay, Exists
<1>4. j.at \notin Section /\ Inserted(j)'
  BY <1>2, IdleJob DEF Section, Inserted
<1>5. HoldersHold'
  BY <1>1, <1>2, <1>4, LockUntouched
<1>6. JobsInserted'
  BY <1>1, <1>2, <1>3, <1>4, IdleJob, OneJobMoves
<1>7. ProvisionedIsComplete'
  BY <1>1 DEF IInv, Shape, ProvisionedIsComplete, Exists
<1>8. QED
  BY <1>3, <1>5, <1>6, <1>7 DEF IInv

-----------------------------------------------------------------------------
(* Refunds, revokes and the re-anchor.                                        *)

\* Claiming a refund writes no row.
LEMMA ClaimRefundPreserves ==
  ASSUME IInv, NEW w \in Workers, NEW o \in Orders, ClaimRefund(w, o)
  PROVE  IInv'
<1>1. PICK j: j = [Idle EXCEPT !.op = "refund", !.order = o]
  OBVIOUS
<1>2. job' = [job EXCEPT ![w] = j]
  BY <1>1 DEF ClaimRefund, Begin
<1>3. DOMAIN j = JobFields /\ j.at = "start" /\ j.op = "refund"
  BY <1>1, IdleJob DEF JobFields
<1>4. QED
  BY <1>2, <1>3, WorkerMovesOnly DEF ClaimRefund, Inserted, Section, history

\* A job of another operation than provisioning relies on nothing.
LEMMA OtherJob ==
  ASSUME IInv, NEW w \in Workers, NEW j, job' = [job EXCEPT ![w] = j],
         DOMAIN j = JobFields, j.op # "provision",
         j.at \in Section => job[w].at \in Section,
         RowsKept, UNCHANGED <<lockVars, overruns, late, provisioned>>
  PROVE  IInv'
<1>1. Inserted(j)'
  BY DEF Inserted
<1>2. QED
  BY <1>1, WorkerMoves

\* Rows that are not written are kept.
LEMMA RowsUnwritten ==
  ASSUME IInv, NEW w \in Workers, NEW j, job' = [job EXCEPT ![w] = j],
         DOMAIN j = JobFields, UNCHANGED <<ent, overruns, provisioned>>
  PROVE  RowsKept
  BY DEF RowsKept, RowsStay, Exists, IInv, Shape

\* Listing the rows to revoke writes none.
LEMMA FindRowsPreserves ==
  ASSUME IInv, NEW w \in Workers, FindRows(w)
  PROVE  IInv'
<1>1. PICK rows, point:
        /\ job' = [job EXCEPT ![w].todo = rows, ![w].at = point]
        /\ point \in {"finish", "revoke"}
  BY DEF FindRows
<1>2. PICK j: j = [job[w] EXCEPT !.todo = rows, !.at = point]
  OBVIOUS
<1>3. job' = [job EXCEPT ![w] = j]
  BY <1>1, <1>2 DEF IInv, Shape
<1>4. DOMAIN job[w] = JobFields /\ job[w].op = "refund"
  BY DEF FindRows, At, IInv, Shape
<1>5. DOMAIN j = JobFields /\ j.op = "refund" /\ j.at \notin Section
  BY <1>1, <1>2, <1>4 DEF JobFields, Section
<1>6. UNCHANGED <<ent, lockVars, overruns, late, provisioned>>
  BY DEF FindRows, orderVars, history
<1>7. QED
  BY <1>3, <1>5, <1>6, RowsUnwritten, OtherJob

\* Revoking writes the status of one row.
LEMMA RevokeKeepsRows ==
  ASSUME IInv, NEW o, NEW g, Revoke(o, g),
         NEW w \in Workers, NEW j, job' = [job EXCEPT ![w] = j],
         DOMAIN j = JobFields, UNCHANGED <<overruns, provisioned>>
  PROVE  RowsKept
<1>r. PICK row: row = [NoRow EXCEPT !.status = "REVOKED"]
  OBVIOUS
<1>1. DOMAIN row = RowFields /\ row.status = "REVOKED"
  BY <1>r DEF NoRow, RowFields
<1>2. ent' = IF Active(o, g) THEN [ent EXCEPT ![o][g] = row] ELSE ent
  BY <1>r DEF Revoke
<1>3. DOMAIN ent' = Orders /\ \A p \in Orders: DOMAIN ent'[p] = Grants
  BY <1>2 DEF IInv, Shape
<1>4. \A p \in Orders: \A h \in Grants:
        ent'[p][h] = IF p = o /\ h = g /\ Active(o, g) THEN row ELSE ent[p][h]
  BY <1>2 DEF IInv, Shape
<1>5. \A p \in Orders: \A h \in Grants: DOMAIN ent'[p][h] = RowFields
  BY <1>1, <1>4 DEF IInv, Shape
<1>6. RowsStay
  BY <1>1, <1>4 DEF RowsStay, Exists
<1>7. QED
  BY <1>3, <1>5, <1>6 DEF RowsKept, IInv, Shape

\* A refund revokes a row and stays out of the section.
LEMMA RevokeRowPreserves ==
  ASSUME IInv, NEW w \in Workers, RevokeRow(w)
  PROVE  IInv'
<1>1. PICK g, todo, point:
        /\ Revoke(job[w].order, g)
        /\ job' = [job EXCEPT ![w].todo = todo, ![w].at = point]
        /\ point \in {"lock", "revoke"}
  BY DEF RevokeRow
<1>2. PICK j: j = [job[w] EXCEPT !.todo = todo, !.at = point]
  OBVIOUS
<1>3. job' = [job EXCEPT ![w] = j]
  BY <1>1, <1>2 DEF IInv, Shape
<1>4. DOMAIN job[w] = JobFields /\ job[w].op = "refund"
  BY DEF RevokeRow, At, IInv, Shape
<1>5. DOMAIN j = JobFields /\ j.op = "refund" /\ j.at \notin Section
  BY <1>1, <1>2, <1>4 DEF JobFields, Section
<1>6. UNCHANGED <<lockVars, overruns, late, provisioned>>
  BY DEF RevokeRow, orderVars, history
<1>7. PICK o: o = job[w].order
  OBVIOUS
<1>8. RowsKept
  BY <1>1, <1>3, <1>5, <1>6, <1>7, RevokeKeepsRows
<1>9. QED
  BY <1>3, <1>5, <1>6, <1>8, OtherJob

\* An admin revokes a row and stays out of the section.
LEMMA AdminRevokePreserves ==
  ASSUME IInv, NEW w \in Workers, NEW o \in Orders, NEW g \in Grants,
         AdminRevoke(w, o, g)
  PROVE  IInv'
<1>1. PICK j: j = [Idle EXCEPT !.op = "revoke", !.at = "lock"]
  OBVIOUS
<1>2. job' = [job EXCEPT ![w] = j]
  BY <1>1 DEF AdminRevoke, Begin
<1>3. DOMAIN j = JobFields /\ j.op = "revoke" /\ j.at \notin Section
  BY <1>1, IdleJob DEF JobFields, Section
<1>4. UNCHANGED <<lockVars, overruns, late, provisioned>> /\ Revoke(o, g)
  BY DEF AdminRevoke, orderVars, history
<1>5. RowsKept
  BY <1>2, <1>3, <1>4, RevokeKeepsRows
<1>6. QED
  BY <1>2, <1>3, <1>4, <1>5, OtherJob

\* Provisioning never comes to the points of the re-anchor.
LEMMA PlanMovesPreserves ==
  ASSUME IInv, NEW w \in Workers, PlanMoves(w)
  PROVE  IInv'
<1>1. PICK plans, point:
        /\ job' = [job EXCEPT ![w].plans = plans, ![w].at = point]
        /\ point \in {"unlock", "apply"}
  BY DEF PlanMoves
<1>2. PICK j: j = [job[w] EXCEPT !.plans = plans, !.at = point]
  OBVIOUS
<1>3. job' = [job EXCEPT ![w] = j]
  BY <1>1, <1>2 DEF IInv, Shape
<1>4. /\ DOMAIN job[w] = JobFields /\ job[w].at = "plan"
      /\ job[w].op # "provision"
  BY DEF PlanMoves, IInv, Shape, JobsInserted, Inserted
<1>5. /\ DOMAIN j = JobFields /\ j.op # "provision"
      /\ j.at \in Section => job[w].at \in Section
  BY <1>1, <1>2, <1>4 DEF JobFields, Section
<1>6. UNCHANGED <<ent, lockVars, overruns, late, provisioned>>
  BY DEF PlanMoves, orderVars, history
<1>7. QED
  BY <1>3, <1>5, <1>6, RowsUnwritten, OtherJob

\* A move keeps the status of every row.
LEMMA ApplyMovePreserves ==
  ASSUME IInv, NEW w \in Workers, ApplyMove(w)
  PROVE  IInv'
<1>1. /\ DOMAIN job[w] = JobFields /\ job[w].at = "apply"
      /\ job[w].op # "provision"
      /\ UNCHANGED <<lockVars, overruns, late, provisioned>>
  BY DEF ApplyMove, IInv, Shape, JobsInserted, Inserted, orderVars, history
<1>2. PICK j: /\ job' = [job EXCEPT ![w] = j] /\ DOMAIN j = JobFields
              /\ j.op # "provision"
              /\ j.at \in {"apply", "unlock"}
  <2>1. CASE Len(job[w].plans) > 1
    <3>1. PICK plans: job' = [job EXCEPT ![w].plans = plans]
      BY <2>1 DEF ApplyMove
    <3>2. PICK j: j = [job[w] EXCEPT !.plans = plans]
      OBVIOUS
    <3>3. job' = [job EXCEPT ![w] = j]
      BY <3>1, <3>2 DEF IInv, Shape
    <3>4. DOMAIN j = JobFields /\ j.op # "provision" /\ j.at = "apply"
      BY <1>1, <3>2 DEF JobFields
    <3>5. QED
      BY <3>3, <3>4
  <2>2. CASE ~(Len(job[w].plans) > 1)
    <3>1. LeaveSection(w)
      BY <2>2 DEF ApplyMove
    <3>2. QED
      BY <1>1, <3>1, LeftSection
  <2>3. QED
    BY <2>1, <2>2
<1>p. PICK plan: plan = Head(job[w].plans)
  OBVIOUS
<1>3. ent' = [ent EXCEPT ![plan.order] = [g \in Grants |->
        IF /\ Active(plan.order, g)
           /\ ent[plan.order][g].startsAt = plan.previousStartsAt
          THEN [ent[plan.order][g] EXCEPT !.startsAt = plan.startsAt,
                                          !.expiresAt = plan.expiresAt]
          ELSE ent[plan.order][g]]]
  BY <1>p DEF ApplyMove
<1>4. DOMAIN ent' = Orders /\ \A o \in Orders: DOMAIN ent'[o] = Grants
  BY <1>3 DEF IInv, Shape
<1>5. \A o \in Orders: \A g \in Grants:
        \/ ent'[o][g] = ent[o][g]
        \/ ent'[o][g] = [ent[o][g] EXCEPT !.startsAt = plan.startsAt,
                                          !.expiresAt = plan.expiresAt]
  BY <1>3 DEF IInv, Shape
<1>6. \A o \in Orders: \A g \in Grants:
        /\ DOMAIN ent'[o][g] = RowFields
        /\ ent'[o][g].status = ent[o][g].status
  <2>1. SUFFICES ASSUME NEW o \in Orders, NEW g \in Grants
                 PROVE  /\ DOMAIN ent'[o][g] = RowFields
                        /\ ent'[o][g].status = ent[o][g].status
    OBVIOUS
  <2>2. DOMAIN ent[o][g] = RowFields
    BY DEF IInv, Shape
  <2>3. PICK row: row = ent[o][g]
    OBVIOUS
  <2>4. PICK moved: moved = [row EXCEPT !.startsAt = plan.startsAt,
                                        !.expiresAt = plan.expiresAt]
    OBVIOUS
  <2>5. DOMAIN moved = RowFields /\ moved.status = row.status
    BY <2>2, <2>3, <2>4 DEF RowFields
  <2>6. ent'[o][g] = row \/ ent'[o][g] = moved
    BY <1>5, <2>3, <2>4
  <2>7. QED
    BY <2>2, <2>3, <2>5, <2>6
<1>7. RowsKept
  BY <1>1, <1>2, <1>4, <1>6 DEF RowsKept, RowsStay, Exists, IInv, Shape
<1>8. QED
  BY <1>1, <1>2, <1>7, OtherJob DEF Section

\* Marking the order refunded is the last step of its worker.
LEMMA MarkRefundedPreserves ==
  ASSUME IInv, NEW w \in Workers, MarkRefunded(w)
  PROVE  IInv'
  BY WorkerReturns DEF MarkRefunded, history

-----------------------------------------------------------------------------
(* Lost requests.                                                             *)

\* A worker that finds the lock busy returns.
LEMMA LockBusyPreserves ==
  ASSUME IInv, NEW w \in Workers, LockBusy(w)
  PROVE  IInv'
  BY WorkerReturns DEF LockBusy, orderVars

\* The lock row of a lost holder stays or goes. Whoever else is in the section
\* would hold it too.
LEMMA AbortPreserves ==
  ASSUME IInv, NEW w \in Workers, Abort(w)
  PROVE  IInv'
<1>1. /\ job' = [job EXCEPT ![w] = Idle]
      /\ UNCHANGED <<ent, provisioned, overruns>>
  BY DEF Abort, Return, orderVars
<1>2. Shape' /\ RowsStay
  BY <1>1, IdleJob DEF IInv, Shape, RowsStay, Exists
<1>3. JobsInserted'
  <2>1. PICK j: j = Idle
    OBVIOUS
  <2>2. Inserted(j)'
    BY <2>1, IdleJob DEF Inserted
  <2>3. QED
    BY <1>1, <1>2, <2>1, <2>2, IdleJob, OneJobMoves
<1>4. HoldersHold'
  <2>1. overruns' = 0 => late' = {}
    BY DEF Abort, IInv, HoldersHold
  <2>2. ASSUME NEW v \in Workers, job'[v].at \in Section, v \notin late'
        PROVE  lock' = v /\ ~leaseOver'
    <3>1. v # w /\ job'[v] = job[v]
      BY <1>1, <2>2, IdleJob DEF IInv, Shape, Section
    <3>2. v \notin late
      BY <2>2, <3>1 DEF Abort
    <3>3. lock = v /\ ~leaseOver
      BY <2>2, <3>1, <3>2 DEF IInv, HoldersHold
    <3>4. QED
      BY <3>1, <3>3 DEF Abort
  <2>3. QED
    BY <2>1, <2>2 DEF HoldersHold
<1>5. ProvisionedIsComplete'
  BY <1>1 DEF IInv, ProvisionedIsComplete, Exists
<1>6. QED
  BY <1>2, <1>3, <1>4, <1>5 DEF IInv

-----------------------------------------------------------------------------
\* Every step of the specification keeps the invariant.
THEOREM NextIInv == IInv /\ [Next]_vars => IInv'
<1> SUFFICES ASSUME IInv, [Next]_vars PROVE IInv'
  OBVIOUS
<1>1. CASE Tick
  BY <1>1 DEF Tick, IInv, Shape, HoldersHold, JobsInserted, Inserted, Exists,
              ProvisionedIsComplete, orderVars, lockVars, history
<1>2. CASE LeaseEnds
  BY <1>2, LeaseEndsPreserves
<1>3. CASE \E w \in Workers: Start(w)
  BY <1>3, StartProvisionPreserves, ClaimRefundPreserves, AdminRevokePreserves
     DEF Start
<1>4. CASE \E w \in Workers: Step(w)
  BY <1>4, AcquireLockPreserves, ReleaseLockPreserves, FindWindowPreserves,
     InsertGrantPreserves, SaveProvisionedPreserves, FindRowsPreserves,
     RevokeRowPreserves, PlanMovesPreserves, ApplyMovePreserves,
     MarkRefundedPreserves
     DEF Step
<1>5. CASE \E w \in Workers: LockBusy(w) \/ Abort(w)
  BY <1>5, LockBusyPreserves, AbortPreserves
<1>6. CASE UNCHANGED vars
  BY <1>6 DEF vars, IInv, Shape, HoldersHold, JobsInserted, Inserted, Exists,
              ProvisionedIsComplete, orderVars, lockVars, history
<1>7. CASE \E a \in Admins: AdminGrant(a) \/ RevokeGrant(a)
  BY <1>7 DEF AdminGrant, RevokeGrant, IInv, Shape, HoldersHold, JobsInserted,
              Inserted, Exists, ProvisionedIsComplete, orderVars, lockVars,
              history
<1>8. QED
  BY <1>1, <1>2, <1>3, <1>4, <1>5, <1>6, <1>7 DEF Next

\* The invariant holds in every reachable state.
THEOREM Invariant == Spec => []IInv
<1>1. QED
  BY InitIInv, NextIInv, PTL DEF Spec

\* Of the workers that provision or re-anchor the same user and product, one at
\* most is not late, whatever requests are lost and leases are outlived.
THEOREM SectionIsExclusive == Spec => []LockExclusive
<1>1. IInv => LockExclusive
  BY DEF IInv, HoldersHold, LockExclusive, InSection, Section
<1>2. QED
  BY <1>1, Invariant, PTL

\* An order that has provisionedAt has a row for every grant, even when leases
\* are outlived and two runs insert side by side.
THEOREM ProvisionedOrdersAreComplete == Spec => []ProvisionedIsComplete
<1>1. IInv => ProvisionedIsComplete
  BY DEF IInv
<1>2. QED
  BY <1>1, Invariant, PTL

-----------------------------------------------------------------------------
(***************************************************************************)
(* The walk of the re-anchor. It is a fold over a finite set, so what it       *)
(* computes needs an induction over the set: a property is given as the set of  *)
(* the subsets that have it, and a smallest subset without it is refuted.       *)
(***************************************************************************)
\* A set of naturals that is not empty has a least member.
LEMMA LeastOf ==
  ASSUME NEW T, T \subseteq Nat, T # {}
  PROVE  \E x \in T : \A y \in T : x <= y
<1>1. PICK x \in T : \A y \in T : ~ (<<y, x>> \in OpToRel(<, Nat))
  BY NatLessThanWellFounded, WFMin
<1>2. \A y \in T : ~ (y < x)
  BY <1>1 DEF OpToRel
<1>3. QED
  BY <1>2

\* A property that a finite set has whenever its smaller subsets have it.
LEMMA SubsetInduct ==
  ASSUME NEW S, IsFiniteSet(S), NEW F,
         \A s \in SUBSET S : (\A x \in s : s \ {x} \in F) => s \in F
  PROVE  S \in F
<1> SUFFICES ASSUME S \notin F PROVE FALSE
  OBVIOUS
<1> DEFINE Bad == {n \in Nat : \E s \in SUBSET S : s \notin F /\ Cardinality(s) = n}
<1>1. Bad \subseteq Nat /\ Bad # {}
  <2>1. Cardinality(S) \in Bad
    BY FS_CardinalityType
  <2>2. QED
    BY <2>1
<1>2. PICK n \in Bad : \A m \in Bad : n <= m
  <2> HIDE DEF Bad
  <2>1. QED
    BY <1>1, LeastOf
<1>3. PICK s \in SUBSET S : s \notin F /\ Cardinality(s) = n
  BY <1>2
<1>4. ASSUME NEW x \in s PROVE s \ {x} \in F
  <2>1. IsFiniteSet(s)
    BY FS_Subset
  <2>2. Cardinality(s \ {x}) = n - 1 /\ IsFiniteSet(s \ {x})
    BY <1>3, <1>4, <2>1, FS_RemoveElement
  <2>3. n - 1 \in Nat
    BY <2>2, FS_CardinalityType
  <2>4. n - 1 \notin Bad
    BY <1>2, <2>3
  <2>5. QED
    BY <2>2, <2>3, <2>4
<1>5. QED
  BY <1>3, <1>4

\* A finite set of naturals has a greatest member, which Max is.
LEMMA MaxOf ==
  ASSUME NEW T \in SUBSET Nat, IsFiniteSet(T), T # {}
  PROVE  Max(T) \in T /\ \A y \in T : y <= Max(T)
<1> DEFINE F == {s \in SUBSET T : s = {} \/ \E x \in s : \A y \in s : x >= y}
<1>1. ASSUME NEW s \in SUBSET T, \A x \in s : s \ {x} \in F PROVE s \in F
  <2>1. CASE s = {}
    BY <2>1
  <2>2. CASE s # {}
    <3>1. PICK x \in s : s \ {x} \in F
      BY <1>1, <2>2
    <3>2. CASE s \ {x} = {}
      BY <3>2
    <3>3. CASE s \ {x} # {}
      <4>1. PICK z \in s \ {x} : \A y \in s \ {x} : z >= y
        BY <3>1, <3>3
      <4>2. CASE x >= z
        BY <4>1, <4>2
      <4>3. CASE ~ (x >= z)
        BY <4>1, <4>3
      <4>4. QED
        BY <4>2, <4>3
    <3>4. QED
      BY <3>2, <3>3
  <2>3. QED
    BY <2>1, <2>2
<1>2. T \in F
  <2> HIDE DEF F
  <2>1. QED
    BY <1>1, SubsetInduct
<1>3. \E x \in T : \A y \in T : x >= y
  BY <1>2
<1>4. Max(T) \in T /\ \A y \in T : Max(T) >= y
  BY <1>3 DEF Max
<1>5. QED
  BY <1>4

\* Max of two naturals.
LEMMA MaxOfTwo ==
  ASSUME NEW a \in Nat, NEW b \in Nat
  PROVE  Max({a, b}) \in {a, b} /\ a <= Max({a, b}) /\ b <= Max({a, b})
<1>1. \E x \in {a, b} : \A y \in {a, b} : x >= y
  OBVIOUS
<1>2. Max({a, b}) \in {a, b} /\ \A y \in {a, b} : Max({a, b}) >= y
  BY <1>1 DEF Max
<1>3. QED
  BY <1>2

\* A finite image.
LEMMA ImageIsFinite ==
  ASSUME NEW S, IsFiniteSet(S), NEW f, NEW T, T = {f[x] : x \in S}
  PROVE  IsFiniteSet(T)
<1> DEFINE g == [x \in S |-> f[x]]
<1>1. g \in Surjection(S, T)
  BY DEF Surjection
<1>2. QED
  BY <1>1, FS_Surjection

-----------------------------------------------------------------------------
(* The calendar. Everything below rests on ExpiryOf and ExpiryKeepsOrder only. *)

\* Where a month lies in its year, and how many days of the year came before.
Year(m) == m \div 12
Before(m) ==
  BeforeMonth[(m % 12) + 1]
    + (IF Year(m) % 4 = 3 /\ m % 12 >= 2 THEN 1 ELSE 0)

\* The first day of a month, by its year and its place in the year.
LEMMA FirstDayIs ==
  ASSUME NEW m \in Nat
  PROVE  /\ Year(m) \in Nat /\ Year(m) \div 4 \in Nat
         /\ m % 12 \in 0..11 /\ m = 12 * Year(m) + (m % 12)
         /\ FirstDay(m) = 365 * Year(m) + (Year(m) \div 4) + Before(m)
<1>1. /\ m \div 12 \in Nat /\ m % 12 \in 0..11 /\ m = 12 * (m \div 12) + (m % 12)
  OBVIOUS
<1>2. Year(m) \in Nat /\ Year(m) \div 4 \in Nat
  BY <1>1 DEF Year
<1>3. (m % 12) + 1 \in {1, 2, 3, 4, 5, 6, 7, 8, 9, 10, 11, 12}
  BY <1>1
<1>4. BeforeMonth[(m % 12) + 1] \in Nat
  BY <1>3 DEF BeforeMonth
<1>5. FirstDay(m) = 365 * Year(m) + (Year(m) \div 4) + Before(m)
  BY <1>1, <1>2, <1>4 DEF FirstDay, Year, Before
<1>6. QED
  BY <1>1, <1>2, <1>5 DEF Year

\* A month has at least 28 days before it for each one, and 28 days to the year's end.
LEMMA BeforeBounds ==
  ASSUME NEW m \in Nat
  PROVE  /\ Before(m) \in Nat
         /\ 28 * (m % 12) <= Before(m)
         /\ Before(m) + 28 <= 365 + (IF Year(m) % 4 = 3 THEN 1 ELSE 0)
<1>1. m % 12 \in 0..11
  BY FirstDayIs
<1>2. m % 12 \in {0, 1, 2, 3, 4, 5, 6, 7, 8, 9, 10, 11}
  BY <1>1
<1>3. QED
  BY <1>2 DEF Before, BeforeMonth

\* Within a year, a month starts 28 days after an earlier one at least, and 31 days
\* after the one before at most.
LEMMA NextBefore ==
  ASSUME NEW m \in Nat, NEW k \in Nat, Year(m) = Year(k), m % 12 < k % 12
  PROVE  /\ Before(m) + 28 <= Before(k)
         /\ k % 12 = (m % 12) + 1 => Before(k) <= Before(m) + 31
<1>1. m % 12 \in 0..11 /\ k % 12 \in 0..11
  BY FirstDayIs
<1>2. /\ m % 12 \in {0, 1, 2, 3, 4, 5, 6, 7, 8, 9, 10, 11}
      /\ k % 12 \in {0, 1, 2, 3, 4, 5, 6, 7, 8, 9, 10, 11}
  BY <1>1
<1>3. QED
  BY <1>2 DEF Before, BeforeMonth

\* A month starts at least 28 days after the one before.
LEMMA MonthsInOrder ==
  ASSUME NEW m \in Nat, NEW k \in Nat, m < k
  PROVE  FirstDay(m) + 28 <= FirstDay(k)
<1>1. k \in Nat
  OBVIOUS
<1> DEFINE y == Year(m)
<1> DEFINE z == Year(k)
<1> DEFINE i == m % 12
<1> DEFINE j == k % 12
<1>2. /\ y \in Nat /\ y \div 4 \in Nat /\ i \in 0..11 /\ m = 12 * y + i
      /\ FirstDay(m) = 365 * y + (y \div 4) + Before(m)
  BY FirstDayIs
<1>3. /\ z \in Nat /\ z \div 4 \in Nat /\ j \in 0..11 /\ k = 12 * z + j
      /\ FirstDay(k) = 365 * z + (z \div 4) + Before(k)
  BY <1>1, FirstDayIs
<1>4. /\ Before(m) \in Nat /\ Before(k) \in Nat
      /\ Before(m) + 28 <= 365 + (IF y % 4 = 3 THEN 1 ELSE 0)
  BY BeforeBounds
<1> HIDE DEF y, z, i, j
<1>5. y <= z
  BY <1>2, <1>3
<1>6. CASE y = z
  <2>1. i < j
    BY <1>2, <1>3, <1>6
  <2>2. Before(m) + 28 <= Before(k)
    BY <1>6, <2>1, NextBefore DEF y, z, i, j
  <2>3. QED
    BY <1>2, <1>3, <1>4, <1>6, <2>2
<1>7. CASE y < z
  <2>1. y \div 4 + (IF y % 4 = 3 THEN 1 ELSE 0) <= z \div 4
    BY <1>2, <1>3, <1>7
  <2>2. 365 * y + 365 <= 365 * z
    BY <1>2, <1>3, <1>7
  <2>3. QED
    BY <1>2, <1>3, <1>4, <2>1, <2>2
<1>8. QED
  BY <1>2, <1>3, <1>5, <1>6, <1>7

\* A month has at most 31 days.
LEMMA MonthsAreShort ==
  ASSUME NEW m \in Nat
  PROVE  FirstDay(m + 1) <= FirstDay(m) + 31
<1> DEFINE k == m + 1
<1>1. k \in Nat
  OBVIOUS
<1> DEFINE y == Year(m)
<1> DEFINE z == Year(k)
<1> DEFINE i == m % 12
<1> DEFINE j == k % 12
<1>2. /\ y \in Nat /\ y \div 4 \in Nat /\ i \in 0..11 /\ m = 12 * y + i
      /\ FirstDay(m) = 365 * y + (y \div 4) + Before(m)
  BY FirstDayIs
<1>3. /\ z \in Nat /\ z \div 4 \in Nat /\ j \in 0..11 /\ k = 12 * z + j
      /\ FirstDay(k) = 365 * z + (z \div 4) + Before(k)
  BY <1>1, FirstDayIs
<1>4. Before(m) \in Nat /\ Before(k) \in Nat
  BY <1>1, BeforeBounds
<1>5. k = m + 1
  OBVIOUS
<1> HIDE DEF y, z, i, j, k
<1>6. CASE i # 11
  <2>1. z = y /\ j = i + 1
    BY <1>2, <1>3, <1>5, <1>6
  <2>2. Before(k) <= Before(m) + 31
    BY <1>1, <2>1, NextBefore DEF y, z, i, j
  <2>3. QED
    BY <1>2, <1>3, <1>4, <2>1, <2>2
<1>7. CASE i = 11
  <2>1. z = y + 1 /\ j = 0
    BY <1>2, <1>3, <1>5, <1>7
  <2>2. Before(k) = 0 /\ Before(m) = 334 + (IF y % 4 = 3 THEN 1 ELSE 0)
    BY <1>7, <2>1 DEF Before, BeforeMonth, i, j, y
  <2>3. z \div 4 = (y \div 4) + (IF y % 4 = 3 THEN 1 ELSE 0)
    BY <1>2, <1>3, <2>1
  <2>4. 365 * z = 365 * y + 365
    BY <1>2, <1>3, <2>1
  <2>5. QED
    BY <1>2, <1>3, <1>4, <1>5, <2>2, <2>3, <2>4
<1>8. QED
  BY <1>6, <1>7, <1>5

\* Nor fewer than 28 on the average.
LEMMA MonthsAreLong ==
  ASSUME NEW m \in Nat
  PROVE  FirstDay(m) \in Nat /\ 28 * m <= FirstDay(m)
<1> DEFINE y == Year(m)
<1> DEFINE i == m % 12
<1>1. /\ y \in Nat /\ y \div 4 \in Nat
      /\ i \in 0..11 /\ m = 12 * y + i
      /\ FirstDay(m) = 365 * y + (y \div 4) + Before(m)
  BY FirstDayIs
<1>2. Before(m) \in Nat /\ 28 * i <= Before(m)
  BY BeforeBounds
<1> HIDE DEF y, i
<1>3. QED
  BY <1>1, <1>2

\* A day lies in its month.
LEMMA MonthOfDay ==
  ASSUME NEW d \in Nat
  PROVE  /\ MonthOf(d) \in Nat
         /\ FirstDay(MonthOf(d)) <= d
         /\ d < FirstDay(MonthOf(d) + 1)
<1> DEFINE S == {m \in 0..(d \div 28): FirstDay(m) <= d}
<1>1. d \div 28 \in Nat /\ d < 28 * (d \div 28) + 28
  OBVIOUS
<1>2. S \subseteq Nat /\ IsFiniteSet(S) /\ S # {}
  <2>1. FirstDay(0) = 0
    BY DEF FirstDay, BeforeMonth
  <2>2. 0 \in S
    BY <1>1, <2>1
  <2>3. IsFiniteSet(0..(d \div 28))
    BY <1>1, FS_Interval
  <2>4. IsFiniteSet(S)
    BY <2>3, FS_Subset
  <2>5. QED
    BY <2>2, <2>4
<1>3. Max(S) \in S /\ \A m \in S: Max(S) >= m
  BY <1>2, MaxOf
<1>4. MonthOf(d) = Max(S)
  BY DEF MonthOf
<1>5. MonthOf(d) \in Nat /\ FirstDay(MonthOf(d)) <= d
  BY <1>2, <1>3, <1>4
<1>6. ASSUME FirstDay(MonthOf(d) + 1) <= d PROVE FALSE
  <2>1. 28 * (MonthOf(d) + 1) <= d
    BY <1>5, <1>6, MonthsAreLong
  <2>2. MonthOf(d) + 1 \in 0..(d \div 28)
    BY <1>1, <1>5, <2>1
  <2>3. MonthOf(d) + 1 \in S
    BY <1>6, <2>2
  <2>4. QED
    BY <1>3, <1>4, <1>5, <2>3
<1>7. QED
  BY <1>5, <1>6, MonthsAreLong

\* A finite preset ends at least 28 days later, and the earlier it starts the
\* earlier it ends, but for less than three days.
LEMMA ExpiryOf ==
  ASSUME NEW n \in Presets, NEW s \in Nat
  PROVE  /\ ExpiresAt(n, s) \in Nat
         /\ n = Lifetime => ExpiresAt(n, s) = Forever
         /\ n # Lifetime => s + 28 <= ExpiresAt(n, s)
<1>1. n \in Nat /\ (n # Lifetime => n > 0)
  BY DEF Presets, Lifetime
<1>2. CASE n = Lifetime
  BY <1>2 DEF ExpiresAt, Forever
<1>3. CASE n # Lifetime
  <2>1. /\ MonthOf(s) \in Nat /\ FirstDay(MonthOf(s)) <= s
        /\ FirstDay(MonthOf(s)) \in Nat
    BY MonthOfDay, MonthsAreLong
  <2>2. /\ FirstDay(MonthOf(s) + n) \in Nat
        /\ FirstDay(MonthOf(s)) + 28 <= FirstDay(MonthOf(s) + n)
    <3>1. MonthOf(s) + n \in Nat /\ MonthOf(s) < MonthOf(s) + n
      BY <1>1, <1>3, <2>1
    <3>2. QED
      BY <2>1, <3>1, MonthsInOrder, MonthsAreLong
  <2>3. ExpiresAt(n, s) =
          FirstDay(MonthOf(s) + n) + (s - FirstDay(MonthOf(s)))
    BY <1>3 DEF ExpiresAt
  <2>4. QED
    BY <1>3, <2>1, <2>2, <2>3
<1>4. QED
  BY <1>2, <1>3

\* A window that starts no later ends no later, or ends less than three days later.
LEMMA ExpiryKeepsOrder ==
  ASSUME NEW n \in Presets, NEW s \in Nat, NEW t \in Nat, s <= t, n # Lifetime
  PROVE  ExpiresAt(n, s) < ExpiresAt(n, t) + Slip
<1> DEFINE a == MonthOf(s)
<1> DEFINE b == MonthOf(t)
<1>1. n \in Nat
  BY DEF Presets, Lifetime
<1>2. /\ a \in Nat /\ FirstDay(a) <= s /\ s < FirstDay(a + 1)
      /\ b \in Nat /\ FirstDay(b) <= t /\ t < FirstDay(b + 1)
  BY MonthOfDay
<1>3. /\ ExpiresAt(n, s) = FirstDay(a + n) + (s - FirstDay(a))
      /\ ExpiresAt(n, t) = FirstDay(b + n) + (t - FirstDay(b))
  BY DEF ExpiresAt
<1> HIDE DEF a, b
<1>4. /\ FirstDay(a) \in Nat /\ FirstDay(b) \in Nat /\ FirstDay(a + 1) \in Nat
      /\ FirstDay(b + 1) \in Nat /\ FirstDay(a + n) \in Nat
      /\ FirstDay(b + n) \in Nat
  BY <1>1, <1>2, MonthsAreLong
<1>5. FirstDay(a + 1) <= FirstDay(a) + 31
  BY <1>2, MonthsAreShort
<1>6. a <= b
  <2>1. ASSUME b < a PROVE FALSE
    <3>1. b + 1 = a \/ b + 1 < a
      BY <1>2, <2>1
    <3>2. FirstDay(b + 1) <= FirstDay(a)
      BY <1>2, <1>4, <3>1, MonthsInOrder
    <3>3. QED
      BY <1>2, <1>4, <3>2
  <2>2. QED
    BY <1>2, <2>1
<1>7. CASE a = b
  BY <1>2, <1>3, <1>4, <1>7 DEF Slip
<1>8. CASE a < b
  <2>1. FirstDay(a + n) + 28 <= FirstDay(b + n)
    BY <1>1, <1>2, <1>8, MonthsInOrder
  <2>2. QED
    BY <1>2, <1>3, <1>4, <1>5, <2>1 DEF Slip
<1>9. QED
  BY <1>2, <1>6, <1>7, <1>8

\* A window of n months at s, or wherever it started before it moved up to s,
\* ends by the day x.
Ahead(n, s, x) == \E t \in Nat: s <= t /\ ExpiresAt(n, t) <= x

\* So it may still move up, and reaches less than three days beyond x.
LEMMA AheadOf ==
  ASSUME NEW n \in Presets, n # Lifetime, NEW s \in Nat, NEW x \in Nat
  PROVE  /\ ExpiresAt(n, s) <= x => Ahead(n, s, x)
         /\ Ahead(n, s, x) => s < x /\ ExpiresAt(n, s) < x + Slip
         /\ \A r, y \in Nat: Ahead(n, s, x) /\ r <= s /\ x <= y => Ahead(n, r, y)
<1>1. ExpiresAt(n, s) <= x => Ahead(n, s, x)
  BY DEF Ahead
<1>2. ASSUME Ahead(n, s, x) PROVE s < x /\ ExpiresAt(n, s) < x + Slip
  <2>1. PICK t \in Nat: s <= t /\ ExpiresAt(n, t) <= x
    BY <1>2 DEF Ahead
  <2>2. /\ ExpiresAt(n, s) \in Nat /\ ExpiresAt(n, t) \in Nat
        /\ t + 28 <= ExpiresAt(n, t)
    BY ExpiryOf
  <2>3. ExpiresAt(n, s) < ExpiresAt(n, t) + Slip
    BY <2>1, ExpiryKeepsOrder
  <2>4. QED
    BY <2>1, <2>2, <2>3 DEF Slip
<1>3. ASSUME NEW r \in Nat, NEW y \in Nat, Ahead(n, s, x), r <= s, x <= y
      PROVE  Ahead(n, r, y)
  <2>1. PICK t \in Nat: s <= t /\ ExpiresAt(n, t) <= x
    BY <1>3 DEF Ahead
  <2>2. ExpiresAt(n, t) \in Nat
    BY ExpiryOf
  <2>3. r <= t /\ ExpiresAt(n, t) <= y
    BY <1>3, <2>1, <2>2
  <2>4. QED
    BY <2>3 DEF Ahead
<1>4. QED
  BY <1>1, <1>2, <1>3

-----------------------------------------------------------------------------
\* One purchase as the re-anchor sees it.
PurchaseGroup ==
  [order: Orders, startsAt: Nat, expiresAt: Nat, duration: Presets]

\* The latest of some groups is one of them.
LEMMA LatestIsLast ==
  ASSUME NEW s \in SUBSET PurchaseGroup, IsFiniteSet(s), s # {}
  PROVE  Latest(s) \in s /\ \A h \in s : h.startsAt <= Latest(s).startsAt
<1> DEFINE f == [g \in s |-> g.startsAt]
           T == {f[g] : g \in s}
<1>1. IsFiniteSet(T)
  BY ImageIsFinite
<1>2. T \in SUBSET Nat /\ T # {}
  BY DEF PurchaseGroup
<1> HIDE DEF T
<1>3. Max(T) \in T /\ \A y \in T : y <= Max(T)
  BY <1>1, <1>2, MaxOf
<1>4. \E g \in s : \A h \in s : h.startsAt <= g.startsAt
  BY <1>3 DEF T
<1>5. QED
  BY <1>4 DEF Latest

NewWalk(t) == [cursor |-> t, done |-> FALSE, plans |-> <<>>]

\* h is the walk over the sets in D.
Walks(h, t, D) ==
  /\ h = [s \in D |-> h[s]]
  /\ \A s \in D : h[s] = IF s = {} THEN NewWalk(t)
                         ELSE ReanchorOne(t, h[s \ {Latest(s)}], Latest(s))

\* A set without its latest group has one element less.
LEMMA LatestIsTaken ==
  ASSUME NEW S \in SUBSET PurchaseGroup, IsFiniteSet(S), NEW s \in SUBSET S, s # {}
  PROVE  /\ Latest(s) \in s /\ s \ {Latest(s)} \in SUBSET S
         /\ Cardinality(s) \in Nat \ {0}
         /\ Cardinality(s \ {Latest(s)}) = Cardinality(s) - 1
<1>1. IsFiniteSet(s)
  BY FS_Subset
<1>2. Latest(s) \in s
  BY <1>1, LatestIsLast
<1>3. Cardinality(s) \in Nat /\ Cardinality(s) # 0
  BY <1>1, FS_CardinalityType, FS_EmptySet
<1>4. Cardinality(s \ {Latest(s)}) = Cardinality(s) - 1
  BY <1>1, <1>2, FS_RemoveElement
<1>5. QED
  BY <1>2, <1>3, <1>4

\* There is a walk over the subsets of a finite set of groups.
LEMMA WalkExists ==
  ASSUME NEW S \in SUBSET PurchaseGroup, IsFiniteSet(S), NEW t
  PROVE  \E h : Walks(h, t, SUBSET S)
<1> DEFINE D(k) == {s \in SUBSET S : Cardinality(s) <= k}
           Bad == {k \in Nat : ~ \E h : Walks(h, t, D(k))}
<1>0. \A s \in SUBSET S : Cardinality(s) \in Nat
  BY FS_Subset, FS_CardinalityType
<1>1. D(Cardinality(S)) = SUBSET S /\ Cardinality(S) \in Nat
  BY FS_Subset, FS_CardinalityType
<1>2. 0 \notin Bad
  <2>1. D(0) = {{}}
    <3>1. {} \in D(0)
      BY FS_EmptySet
    <3>2. ASSUME NEW s \in D(0) PROVE s = {}
      <4>1. s \in SUBSET S /\ Cardinality(s) <= 0
        OBVIOUS
      <4>2. Cardinality(s) \notin Nat \ {0}
        BY <1>0, <4>1
      <4>3. QED
        BY <4>1, <4>2, LatestIsTaken
    <3> HIDE DEF D
    <3>3. QED
      BY <3>1, <3>2
  <2>2. Walks([s \in D(0) |-> NewWalk(t)], t, D(0))
    BY <2>1 DEF Walks
  <2>3. QED
    BY <2>2
<1>3. ASSUME NEW k \in Nat, k \notin Bad PROVE k + 1 \notin Bad
  <2>1. PICK h : Walks(h, t, D(k))
    BY <1>3
  <2> DEFINE g == [s \in D(k + 1) |-> IF s \in D(k) THEN h[s]
                     ELSE ReanchorOne(t, h[s \ {Latest(s)}], Latest(s))]
  <2>2. D(k) \subseteq D(k + 1)
    BY <1>0
  <2>3. ASSUME NEW s \in D(k + 1), s # {}
        PROVE  s \ {Latest(s)} \in D(k)
    <3>1. s \in SUBSET S /\ Cardinality(s) <= k + 1
      OBVIOUS
    <3>2. QED
      BY <2>3, <3>1, LatestIsTaken
  <2>4. {} \in D(k)
    BY FS_EmptySet
  <2> HIDE DEF D
  <2>5. Walks(g, t, D(k + 1))
    <3>1. ASSUME NEW s \in D(k + 1)
          PROVE  g[s] = IF s = {} THEN NewWalk(t)
                        ELSE ReanchorOne(t, g[s \ {Latest(s)}], Latest(s))
      <4>1. CASE s = {}
        BY <2>1, <2>2, <2>4, <4>1 DEF Walks
      <4>2. CASE s # {}
        <5>1. s \ {Latest(s)} \in D(k) /\ s \ {Latest(s)} \in D(k + 1)
          BY <2>2, <2>3, <4>2
        <5>2. g[s \ {Latest(s)}] = h[s \ {Latest(s)}]
          BY <5>1
        <5>3. g[s] = ReanchorOne(t, h[s \ {Latest(s)}], Latest(s))
          BY <2>1, <4>2 DEF Walks
        <5>4. QED
          BY <4>2, <5>2, <5>3
      <4>3. QED
        BY <4>1, <4>2
    <3>2. QED
      BY <3>1 DEF Walks
  <2>6. QED
    BY <2>5
<1>4. Bad = {}
  <2> SUFFICES ASSUME Bad # {} PROVE FALSE
    OBVIOUS
  <2>1. Bad \subseteq Nat
    OBVIOUS
  <2> HIDE DEF Bad
  <2>2. PICK n \in Bad : \A m \in Bad : n <= m
    BY <2>1, LeastOf
  <2>3. n # 0 /\ n \in Nat
    BY <1>2, <2>1
  <2>4. n - 1 \in Nat /\ n - 1 \notin Bad
    BY <2>1, <2>2, <2>3
  <2>5. n - 1 + 1 \notin Bad
    BY <1>3, <2>4
  <2>6. QED
    BY <2>3, <2>5
<1>5. QED
  BY <1>1, <1>4

\* Reanchor returns the plans of such a walk.
LEMMA ReanchorWalks ==
  ASSUME NEW S \in SUBSET PurchaseGroup, IsFiniteSet(S), NEW t
  PROVE  \E h : Walks(h, t, SUBSET S) /\ Reanchor(S, t) = h[S].plans
<1> DEFINE k == CHOOSE h : h = [s \in SUBSET S |-> IF s = {} THEN NewWalk(t)
                                ELSE ReanchorOne(t, h[s \ {Latest(s)}], Latest(s))]
<1>1. Reanchor(S, t) = k[S].plans
  BY DEF Reanchor, MapThenFoldSet, NewWalk
<1>2. PICK h : Walks(h, t, SUBSET S)
  BY WalkExists
<1>3. h = [s \in SUBSET S |-> IF s = {} THEN NewWalk(t)
             ELSE ReanchorOne(t, h[s \ {Latest(s)}], Latest(s))]
  BY <1>2 DEF Walks
<1> DEFINE b == [s \in SUBSET S |-> IF s = {} THEN NewWalk(t)
                   ELSE ReanchorOne(t, k[s \ {Latest(s)}], Latest(s))]
<1>4. k = b
  BY <1>3
<1> HIDE DEF k
<1>5. /\ b = [s \in SUBSET S |-> b[s]]
      /\ \A s \in SUBSET S : b[s] = IF s = {} THEN NewWalk(t)
                   ELSE ReanchorOne(t, k[s \ {Latest(s)}], Latest(s))
  OBVIOUS
<1> HIDE DEF b
<1>6. Walks(k, t, SUBSET S)
  BY <1>4, <1>5 DEF Walks
<1>7. QED
  BY <1>1, <1>6

\* The state of a walk.
WalkState == [cursor: Nat, done: BOOLEAN, plans: Seq(Plan)]

\* A plan moves its group earlier and keeps the duration.
MovesEarlier(p) ==
  /\ p.startsAt < p.previousStartsAt
  /\ p.expiresAt = ExpiresAt(Durations[p.order], p.startsAt)

PlansMoveEarlier(plans) == \A i \in DOMAIN plans: MovesEarlier(plans[i])

\* Groups as PlanMoves makes them at t.
GroupsOf(S) ==
  /\ S \in SUBSET PurchaseGroup /\ IsFiniteSet(S)
  /\ \A g \in S: g.duration = Durations[g.order]

\* A group that stays put is covered, from the state w of the walk to v.
StaysPut(t, w, g, v) ==
  /\ w.done = FALSE /\ v.plans = w.plans
  /\ g.startsAt <= t \/ w.cursor >= g.startsAt
  /\ g.expiresAt = Forever => v.done = TRUE
  /\ g.expiresAt # Forever =>
       /\ v.done = FALSE /\ g.expiresAt <= v.cursor
       /\ g.startsAt <= t => v.cursor \in {w.cursor, g.expiresAt} /\ w.cursor <= v.cursor
       /\ ~(g.startsAt <= t) => v.cursor = g.expiresAt

\* The plan of a group that moves to the cursor of w.
PlanFor(w, g) ==
  [order |-> g.order, previousStartsAt |-> g.startsAt, startsAt |-> w.cursor,
   expiresAt |-> ExpiresAt(g.duration, w.cursor)]

Moves(t, w, g, v) ==
  /\ w.done = FALSE /\ t < g.startsAt /\ w.cursor < g.startsAt
  /\ v.plans = Append(w.plans, PlanFor(w, g))
  /\ v.cursor = PlanFor(w, g).expiresAt
  /\ v.cursor # Forever => v.done = FALSE

\* What the walk does to its state: nothing, or one of the above.
LEMMA OneStep ==
  ASSUME NEW t \in Nat, NEW w \in WalkState, NEW g \in PurchaseGroup,
         NEW v, v = ReanchorOne(t, w, g)
  PROVE  /\ v \in WalkState /\ PlanFor(w, g) \in Plan
         /\ \/ w.done = TRUE /\ v = w
            \/ StaysPut(t, w, g, v)
            \/ Moves(t, w, g, v)
<1>1. /\ w.cursor \in Nat /\ w.done \in BOOLEAN /\ w.plans \in Seq(Plan)
      /\ g.order \in Orders /\ g.startsAt \in Nat /\ g.expiresAt \in Nat /\ g.duration \in Presets
      /\ w = [cursor |-> w.cursor, done |-> w.done, plans |-> w.plans]
  BY DEF WalkState, PurchaseGroup
<1>2. PICK end, plan :
        /\ end = ExpiresAt(g.duration, w.cursor) /\ plan = PlanFor(w, g)
        /\ plan = [order |-> g.order, previousStartsAt |-> g.startsAt,
                   startsAt |-> w.cursor, expiresAt |-> end]
  BY DEF PlanFor
<1>3. end \in Nat /\ plan \in Plan
  BY <1>1, <1>2, ExpiryOf DEF Plan
<1>4. Append(w.plans, plan) \in Seq(Plan)
  BY <1>1, <1>3
<1>5. CASE w.done = TRUE
  BY <1>2, <1>3, <1>5 DEF ReanchorOne
<1>6. CASE w.done = FALSE /\ g.startsAt <= t
  <2>1. PICK m \in Nat : /\ m \in {w.cursor, g.expiresAt} /\ w.cursor <= m /\ g.expiresAt <= m
                        /\ v = Cover(w, g, m)
    BY <1>1, <1>6, MaxOfTwo DEF ReanchorOne
  <2>2. v = IF g.expiresAt = Forever
              THEN [cursor |-> w.cursor, done |-> TRUE, plans |-> w.plans]
              ELSE [cursor |-> m, done |-> FALSE, plans |-> w.plans]
    BY <1>1, <1>6, <2>1 DEF Cover
  <2>3. v \in WalkState
    BY <1>1, <2>2 DEF WalkState
  <2>4. StaysPut(t, w, g, v)
    BY <1>1, <1>6, <2>1, <2>2 DEF StaysPut
  <2>5. QED
    BY <1>2, <1>3, <2>3, <2>4
<1>7. CASE w.done = FALSE /\ ~(g.startsAt <= t) /\ w.cursor >= g.startsAt
  <2>1. v = Cover(w, g, g.expiresAt)
    BY <1>7 DEF ReanchorOne
  <2>2. v = IF g.expiresAt = Forever
              THEN [cursor |-> w.cursor, done |-> TRUE, plans |-> w.plans]
              ELSE [cursor |-> g.expiresAt, done |-> FALSE, plans |-> w.plans]
    BY <1>1, <1>7, <2>1 DEF Cover
  <2>3. v \in WalkState
    BY <1>1, <2>2 DEF WalkState
  <2>4. StaysPut(t, w, g, v)
    BY <1>1, <1>7, <2>2 DEF StaysPut
  <2>5. QED
    BY <1>2, <1>3, <2>3, <2>4
<1>8. CASE w.done = FALSE /\ ~(g.startsAt <= t) /\ ~(w.cursor >= g.startsAt)
  <2>1. v = [cursor |-> end, done |-> end = Forever, plans |-> Append(w.plans, plan)]
    BY <1>2, <1>8 DEF ReanchorOne, MoveUp
  <2>2. v \in WalkState
    BY <1>3, <1>4, <2>1 DEF WalkState
  <2>3. v.cursor = end /\ v.plans = Append(w.plans, plan) /\ plan.expiresAt = end
    BY <1>2, <2>1
  <2>4. ASSUME end # Forever PROVE v.done = FALSE
    <3>1. (end = Forever) = FALSE
      BY <2>4
    <3>2. v = [cursor |-> end, done |-> FALSE, plans |-> Append(w.plans, plan)]
      BY <2>1, <3>1, Zenon
    <3>3. QED
      BY <3>2
  <2>5. Moves(t, w, g, v)
    <3>1. w.cursor < g.startsAt /\ t < g.startsAt
      BY <1>1, <1>8
    <3>2. v.cursor # Forever => v.done = FALSE
      BY <2>3, <2>4
    <3>3. v.plans = Append(w.plans, PlanFor(w, g)) /\ v.cursor = PlanFor(w, g).expiresAt
      BY <1>2, <2>3
    <3>4. QED
      BY <1>8, <3>1, <3>2, <3>3 DEF Moves
  <2>6. QED
    BY <1>2, <1>3, <2>2, <2>5
<1>9. w.done \in {TRUE, FALSE}
  BY <1>1
<1>10. QED
  BY <1>5, <1>6, <1>7, <1>8, <1>9

\* Whatever groups there are, Reanchor only moves them earlier.
LEMMA ReanchorMovesEarlier ==
  ASSUME NEW S, GroupsOf(S), NEW t \in Nat
  PROVE  Reanchor(S, t) \in Seq(Plan) /\ PlansMoveEarlier(Reanchor(S, t))
<1>1. PICK h : Walks(h, t, SUBSET S) /\ Reanchor(S, t) = h[S].plans
  BY ReanchorWalks DEF GroupsOf
<1> DEFINE F == {s \in SUBSET S : h[s] \in WalkState /\ PlansMoveEarlier(h[s].plans)}
<1>2. ASSUME NEW s \in SUBSET S, \A x \in s : s \ {x} \in F PROVE s \in F
  <2>1. CASE s = {}
    <3>1. h[s] = NewWalk(t)
      BY <1>1, <2>1 DEF Walks
    <3>2. NewWalk(t) \in WalkState /\ PlansMoveEarlier(NewWalk(t).plans)
      BY DEF NewWalk, WalkState, PlansMoveEarlier
    <3>3. QED
      BY <3>1, <3>2
  <2>2. CASE s # {}
    <3>1. PICK g \in PurchaseGroup : g \in s /\ g = Latest(s)
      BY <2>2, LatestIsTaken DEF GroupsOf
    <3>2. PICK w \in WalkState : w = h[s \ {g}] /\ PlansMoveEarlier(w.plans)
      BY <1>2, <3>1
    <3>3. PICK v : v = h[s] /\ v = ReanchorOne(t, w, g)
      BY <1>1, <2>2, <3>1, <3>2 DEF Walks
    <3>4. /\ v \in WalkState
          /\ v = w \/ StaysPut(t, w, g, v) \/ Moves(t, w, g, v)
      BY <3>3, OneStep
    <3>5. CASE v = w \/ StaysPut(t, w, g, v)
      BY <3>2, <3>3, <3>4, <3>5 DEF StaysPut
    <3>6. CASE Moves(t, w, g, v)
      <4>1. PICK plan : plan = PlanFor(w, g)
        OBVIOUS
      <4>2. MovesEarlier(plan)
        BY <3>1, <3>6, <4>1 DEF MovesEarlier, Moves, PlanFor, GroupsOf
      <4>3. v.plans = Append(w.plans, plan) /\ w.plans \in Seq(Plan)
        BY <3>6, <4>1 DEF Moves, WalkState
      <4>4. \A i \in DOMAIN v.plans :
              v.plans[i] = plan \/ (i \in DOMAIN w.plans /\ v.plans[i] = w.plans[i])
        BY <4>3
      <4>5. QED
        BY <3>2, <3>3, <3>4, <4>2, <4>4 DEF PlansMoveEarlier
    <3>7. QED
      BY <3>4, <3>5, <3>6
  <2>3. QED
    BY <2>1, <2>2
<1>3. S \in F
  <2> HIDE DEF F
  <2>1. QED
    BY <1>2, SubsetInduct DEF GroupsOf
<1>4. QED
  BY <1>1, <1>3 DEF WalkState

\* Groups as they are while provisioning keeps an order whole: one group for each
\* order, with its full duration, and of two finite ones one is ahead.
PackedGroups(S, t) ==
  /\ GroupsOf(S)
  /\ \A g \in S: g.expiresAt = Forever => g.startsAt <= t
  /\ \A g \in S: g.expiresAt # Forever =>
       g.duration # Lifetime /\ g.expiresAt = ExpiresAt(g.duration, g.startsAt)
  /\ \A g, h \in S: g.order = h.order => g = h
  /\ \A g, h \in S: g # h /\ g.expiresAt # Forever /\ h.expiresAt # Forever =>
       \/ Ahead(g.duration, g.startsAt, h.startsAt)
       \/ Ahead(h.duration, h.startsAt, g.startsAt)

PlannedIn(P, o) == \E i \in DOMAIN P: P[i].order = o

\* The window of group g once the plans are carried out.
GroupIs(P, g, start, end) ==
  \/ ~PlannedIn(P, g.order) /\ g.startsAt = start /\ g.expiresAt = end
  \/ \E i \in DOMAIN P: /\ P[i].order = g.order
                        /\ P[i].startsAt = start /\ P[i].expiresAt = end

\* A window that is there before the day and until the day.
Lasts(start, end, day) == start < day /\ (end = Forever \/ day <= end)

\* Some group of another order than o lasts until the day.
Reached(s, P, o, day) ==
  \E h \in s: h.order # o /\ \E start, end \in Nat:
    GroupIs(P, h, start, end) /\ Lasts(start, end, day)

\* Plans are for groups that wait, and none before t.
OfWaiting(s, P, t) ==
  \A i \in DOMAIN P:
    /\ t <= P[i].startsAt
    /\ \E g \in s: /\ g.order = P[i].order /\ g.startsAt = P[i].previousStartsAt
                   /\ t < g.startsAt /\ g.expiresAt # Forever

\* They are in the order of the old starts and of the new windows.
InOrder(P) ==
  \A i, j \in DOMAIN P: i < j =>
    /\ P[i].order # P[j].order
    /\ P[i].expiresAt <= P[j].startsAt
    /\ P[i].previousStartsAt < P[j].previousStartsAt

\* A group that stays is over before a new window or starts after the old one.
Clear(s, P) ==
  \A i \in DOMAIN P: \A g \in s: ~PlannedIn(P, g.order) /\ g.expiresAt # Forever =>
    g.expiresAt <= P[i].startsAt \/ P[i].previousStartsAt <= g.startsAt

\* The cursor is where the cover so far ends: the end of a window that is where
\* it was or earlier.
AtCursor(s, w, t) ==
  w.done = FALSE =>
    /\ \A g \in s: g.expiresAt # Forever
    /\ \A g \in s: ~PlannedIn(w.plans, g.order) => g.expiresAt <= w.cursor
    /\ \A i \in DOMAIN w.plans: w.plans[i].expiresAt <= w.cursor
    /\ t <= w.cursor
    /\ \/ w.cursor = t
       \/ \E g \in s: \E c \in Nat:
            /\ c <= g.startsAt /\ w.cursor = ExpiresAt(g.duration, c)
            /\ GroupIs(w.plans, g, c, w.cursor)

\* A walk that is over has met a group without end and planned nothing.
Endless(s, w) ==
  w.done = TRUE => w.plans = <<>> /\ \E g \in s: g.expiresAt = Forever

\* Whoever waits has another group until then.
NoHole(s, P, t) ==
  /\ \A g \in s: ~PlannedIn(P, g.order) =>
       g.startsAt <= t \/ Reached(s, P, g.order, g.startsAt)
  /\ \A i \in DOMAIN P:
       P[i].startsAt <= t \/ Reached(s, P, P[i].order, P[i].startsAt)

Walked(s, w, t) ==
  /\ w \in WalkState
  /\ OfWaiting(s, w.plans, t)
  /\ InOrder(w.plans)
  /\ Clear(s, w.plans)
  /\ AtCursor(s, w, t)
  /\ Endless(s, w)
  /\ NoHole(s, w.plans, t)

\* The group a walk takes next: the others are of other orders, start no later
\* and are, where they end, ahead of it.
NextGroup(s, g, t) ==
  /\ g \in s
  /\ \A h \in s \ {g}:
       /\ h.order # g.order /\ h.startsAt <= g.startsAt
       /\ h.expiresAt # Forever /\ g.expiresAt # Forever =>
            /\ Ahead(h.duration, h.startsAt, g.startsAt)
            /\ h.startsAt < g.startsAt

\* The latest of some packed groups is the next one.
LEMMA LatestIsNext ==
  ASSUME NEW S, NEW t \in Nat, PackedGroups(S, t), NEW s \in SUBSET S, s # {}
  PROVE  NextGroup(s, Latest(s), t)
<1>1. PICK g : g = Latest(s)
  OBVIOUS
<1>2. g \in s /\ \A h \in s : h.startsAt <= g.startsAt
  <2>1. S \in SUBSET PurchaseGroup /\ IsFiniteSet(s)
    BY FS_Subset DEF PackedGroups, GroupsOf
  <2>2. QED
    BY <1>1, <2>1, LatestIsLast
<1>3. ASSUME NEW h \in s \ {g}
      PROVE  /\ h.order # g.order /\ h.startsAt <= g.startsAt
             /\ h.expiresAt # Forever /\ g.expiresAt # Forever =>
                  /\ Ahead(h.duration, h.startsAt, g.startsAt)
                  /\ h.startsAt < g.startsAt
  <2>1. h.order # g.order /\ h.startsAt <= g.startsAt
    BY <1>2 DEF PackedGroups
  <2>2. ASSUME h.expiresAt # Forever, g.expiresAt # Forever
        PROVE  /\ Ahead(h.duration, h.startsAt, g.startsAt)
               /\ h.startsAt < g.startsAt
    <3>1. h \in PurchaseGroup /\ g \in PurchaseGroup
      BY <1>2 DEF PackedGroups, GroupsOf
    <3>2. /\ h.startsAt \in Nat /\ h.duration \in Presets /\ h.duration # Lifetime
          /\ g.startsAt \in Nat /\ g.duration \in Presets /\ g.duration # Lifetime
      BY <1>2, <2>2, <3>1 DEF PackedGroups, PurchaseGroup
    <3>3. \/ Ahead(h.duration, h.startsAt, g.startsAt)
          \/ Ahead(g.duration, g.startsAt, h.startsAt)
      BY <1>2, <2>2 DEF PackedGroups
    <3>4. ~Ahead(g.duration, g.startsAt, h.startsAt)
      BY <2>1, <3>2, AheadOf
    <3>5. QED
      BY <3>2, <3>3, <3>4, AheadOf
  <2>3. QED
    BY <2>1, <2>2
<1>4. QED
  BY <1>1, <1>2, <1>3 DEF NextGroup

\* The next group has no plan yet, and none waits in front of one that has started.
LEMMA NextIsUnplanned ==
  ASSUME NEW s, NEW g, NEW t \in Nat, NextGroup(s, g, t),
         s \in SUBSET PurchaseGroup,
         NEW P \in Seq(Plan), OfWaiting(s \ {g}, P, t)
  PROVE  ~PlannedIn(P, g.order) /\ (g.startsAt <= t => P = <<>>)
<1>1. ~PlannedIn(P, g.order)
  BY DEF PlannedIn, OfWaiting, NextGroup
<1>2. ASSUME g.startsAt <= t PROVE P = <<>>
  <2>1. g.startsAt \in Nat
    BY DEF NextGroup, PurchaseGroup
  <2>2. DOMAIN P = {}
    <3> SUFFICES ASSUME NEW i \in DOMAIN P PROVE FALSE
      OBVIOUS
    <3>1. PICK h \in s \ {g} : t < h.startsAt
      BY DEF OfWaiting
    <3>2. h.startsAt <= g.startsAt /\ h.startsAt \in Nat
      BY <3>1 DEF NextGroup, PurchaseGroup
    <3>3. QED
      BY <1>2, <2>1, <3>1, <3>2
  <2>3. QED
    BY <2>2
<1>3. QED
  BY <1>1, <1>2

\* A walk that is over passes the next group by.
LEMMA PassedBy ==
  ASSUME NEW S, NEW t \in Nat, PackedGroups(S, t), NEW s \in SUBSET S, NEW g, NextGroup(s, g, t),
         NEW w, Walked(s \ {g}, w, t), w.done = TRUE
  PROVE  Walked(s, w, t)
<1>1. PICK h \in s \ {g} : h.expiresAt = Forever
  BY DEF Walked, Endless
<1>2. w.plans = <<>> /\ w \in WalkState
  BY DEF Walked, Endless
<1>3. \A x \in s : ~PlannedIn(w.plans, x.order)
  BY <1>2 DEF PlannedIn
<1>4. OfWaiting(s, w.plans, t) /\ InOrder(w.plans) /\ Clear(s, w.plans)
  BY <1>2 DEF OfWaiting, InOrder, Clear
<1>5. AtCursor(s, w, t) /\ Endless(s, w)
  BY <1>1, <1>2 DEF AtCursor, Endless
<1>6. NoHole(s, w.plans, t)
  <2>1. /\ GroupIs(w.plans, h, h.startsAt, Forever) /\ h.startsAt <= t
        /\ h.startsAt \in Nat /\ g.startsAt \in Nat /\ Forever \in Nat
    BY <1>1, <1>3 DEF GroupIs, PackedGroups, GroupsOf, PurchaseGroup, NextGroup, Forever
  <2>2. h.order # g.order
    BY DEF NextGroup
  <2>3. g.startsAt <= t \/ Lasts(h.startsAt, Forever, g.startsAt)
    BY <2>1 DEF Lasts
  <2>4. g.startsAt <= t \/ Reached(s, w.plans, g.order, g.startsAt)
    BY <2>1, <2>2, <2>3 DEF Reached
  <2>5. NoHole(s \ {g}, w.plans, t)
    BY DEF Walked
  <2>6. QED
    BY <2>4, <2>5 DEF NoHole, Reached
<1>7. QED
  BY <1>2, <1>4, <1>5, <1>6 DEF Walked

\* A group that stays put is walked over.
LEMMA StayedPut ==
  ASSUME NEW S, NEW t \in Nat, PackedGroups(S, t), NEW s \in SUBSET S, NEW g, NextGroup(s, g, t),
         NEW w, Walked(s \ {g}, w, t), NEW v \in WalkState, StaysPut(t, w, g, v)
  PROVE  Walked(s, v, t)
<1> DEFINE r == s \ {g}
<1>0. s \in SUBSET PurchaseGroup
  BY DEF PackedGroups, GroupsOf
<1>1. /\ g \in s /\ g \in PurchaseGroup /\ g.startsAt \in Nat /\ g.expiresAt \in Nat
      /\ \A x \in s : x.startsAt \in Nat /\ x.expiresAt \in Nat
  BY <1>0 DEF NextGroup, PurchaseGroup
<1>2. w \in WalkState /\ w.cursor \in Nat /\ w.plans \in Seq(Plan) /\ v.cursor \in Nat
  BY DEF Walked, WalkState
<1>3. w.done = FALSE /\ v.plans = w.plans
  BY DEF StaysPut
<1>4. /\ OfWaiting(r, w.plans, t) /\ InOrder(w.plans) /\ Clear(r, w.plans) /\ AtCursor(r, w, t)
      /\ NoHole(r, w.plans, t)
  BY DEF Walked
<1>5. /\ \A x \in r : x.expiresAt # Forever
      /\ \A x \in r : ~PlannedIn(w.plans, x.order) => x.expiresAt <= w.cursor
      /\ \A i \in DOMAIN w.plans : w.plans[i].expiresAt <= w.cursor
      /\ t <= w.cursor
      /\ \/ w.cursor = t
         \/ \E x \in r : \E c \in Nat :
              /\ c <= x.startsAt /\ w.cursor = ExpiresAt(x.duration, c)
              /\ GroupIs(w.plans, x, c, w.cursor)
  BY <1>3, <1>4 DEF AtCursor
<1>6. ~PlannedIn(w.plans, g.order) /\ (g.startsAt <= t => w.plans = <<>>)
  BY <1>0, <1>2, <1>4, NextIsUnplanned
<1>7. OfWaiting(s, w.plans, t)
  BY <1>4 DEF OfWaiting
<1>8. Clear(s, w.plans)
  <2> SUFFICES ASSUME NEW i \in DOMAIN w.plans
               PROVE  w.plans[i].previousStartsAt <= g.startsAt
    BY <1>4 DEF Clear
  <2>1. PICK x \in r : x.startsAt = w.plans[i].previousStartsAt
    BY <1>4 DEF OfWaiting
  <2>2. QED
    BY <2>1 DEF NextGroup
<1>9. g.expiresAt = Forever => g.startsAt <= t
  BY <1>1 DEF PackedGroups
<1>10. ASSUME g.expiresAt # Forever, ~(g.startsAt <= t)
       PROVE  /\ v.cursor = g.expiresAt /\ w.cursor <= v.cursor
              /\ Reached(r, w.plans, g.order, g.startsAt)
  <2>1. v.cursor = g.expiresAt /\ w.cursor >= g.startsAt
    BY <1>10 DEF StaysPut
  <2>2. w.cursor # t
    BY <1>1, <1>2, <1>10, <2>1
  <2>3. PICK x \in r, c \in Nat :
          /\ c <= x.startsAt /\ w.cursor = ExpiresAt(x.duration, c)
          /\ GroupIs(w.plans, x, c, w.cursor)
    BY <1>5, <2>2
  <2>4. /\ x.order # g.order /\ Ahead(x.duration, x.startsAt, g.startsAt)
        /\ x.startsAt < g.startsAt /\ x.startsAt \in Nat
    BY <1>1, <1>5, <1>10, <2>3 DEF NextGroup
  <2>5. /\ x.duration \in Presets /\ x.duration # Lifetime
        /\ g.duration \in Presets /\ g.duration # Lifetime
        /\ g.expiresAt = ExpiresAt(g.duration, g.startsAt)
    BY <1>0, <1>1, <1>5, <1>10, <2>3 DEF PackedGroups, PurchaseGroup
  <2>6. w.cursor < g.startsAt + Slip
    <3>1. Ahead(x.duration, c, g.startsAt)
      BY <1>1, <2>3, <2>4, <2>5, AheadOf
    <3>2. QED
      BY <1>1, <2>3, <2>5, <3>1, AheadOf
  <2>7. g.startsAt + 28 <= g.expiresAt
    BY <1>1, <2>5, ExpiryOf
  <2>8. w.cursor <= v.cursor
    BY <1>1, <1>2, <2>1, <2>6, <2>7 DEF Slip
  <2>9. Lasts(c, w.cursor, g.startsAt)
    BY <1>1, <1>2, <2>1, <2>3, <2>4 DEF Lasts
  <2>10. QED
    BY <1>2, <2>1, <2>3, <2>4, <2>8, <2>9 DEF Reached
<1>11. AtCursor(s, v, t)
  <2> SUFFICES ASSUME v.done = FALSE PROVE AtCursor(s, v, t)
    BY DEF AtCursor
  <2>1. g.expiresAt # Forever
    BY DEF StaysPut
  <2>2. /\ w.cursor <= v.cursor /\ g.expiresAt <= v.cursor
        /\ v.cursor \in {w.cursor, g.expiresAt}
    <3>1. CASE g.startsAt <= t
      BY <2>1, <3>1 DEF StaysPut
    <3>2. CASE ~(g.startsAt <= t)
      BY <1>1, <1>10, <2>1, <3>2
    <3>3. QED
      BY <3>1, <3>2
  <2>3. /\ \A x \in s : x.expiresAt # Forever
        /\ \A x \in s : ~PlannedIn(w.plans, x.order) => x.expiresAt <= v.cursor
        /\ t <= v.cursor
    BY <1>1, <1>2, <1>5, <2>1, <2>2
  <2>4. \A i \in DOMAIN w.plans : w.plans[i].expiresAt <= v.cursor
    <3> SUFFICES ASSUME NEW i \in DOMAIN w.plans PROVE w.plans[i].expiresAt <= v.cursor
      OBVIOUS
    <3>0. PICK p \in Plan : p = w.plans[i]
      BY <1>2
    <3>1. p.expiresAt \in Nat /\ p.expiresAt <= w.cursor
      BY <1>5, <3>0 DEF Plan
    <3>2. QED
      BY <1>2, <2>2, <3>0, <3>1
  <2>5. /\ GroupIs(w.plans, g, g.startsAt, g.expiresAt) /\ g.startsAt <= g.startsAt
        /\ g.expiresAt = ExpiresAt(g.duration, g.startsAt)
    BY <1>1, <1>6, <2>1 DEF GroupIs, PackedGroups
  <2>6. \/ v.cursor = t
        \/ \E x \in s : \E c \in Nat :
             /\ c <= x.startsAt /\ v.cursor = ExpiresAt(x.duration, c)
             /\ GroupIs(w.plans, x, c, v.cursor)
    <3>1. CASE v.cursor = w.cursor
      BY <1>5, <3>1
    <3>2. CASE v.cursor = g.expiresAt
      BY <1>1, <2>5, <3>2
    <3>3. QED
      BY <2>2, <3>1, <3>2
  <2>7. QED
    BY <1>3, <2>3, <2>4, <2>6 DEF AtCursor
<1>12. Endless(s, v)
  <2> SUFFICES ASSUME v.done = TRUE PROVE w.plans = <<>> /\ g.expiresAt = Forever
    BY <1>1, <1>3 DEF Endless
  <2>1. g.expiresAt = Forever
    BY DEF StaysPut
  <2>2. QED
    BY <1>6, <1>9, <2>1
<1>13. NoHole(s, w.plans, t)
  <2>1. g.startsAt <= t \/ Reached(s, w.plans, g.order, g.startsAt)
    BY <1>9, <1>10 DEF Reached
  <2>2. QED
    BY <1>4, <2>1 DEF NoHole, Reached
<1>14. QED
  BY <1>3, <1>4, <1>7, <1>8, <1>11, <1>12, <1>13 DEF Walked

\* So is one that moves to the cursor.
LEMMA Moved ==
  ASSUME NEW S, NEW t \in Nat, PackedGroups(S, t), NEW s \in SUBSET S, NEW g, NextGroup(s, g, t),
         NEW w, Walked(s \ {g}, w, t), NEW v \in WalkState, Moves(t, w, g, v)
  PROVE  Walked(s, v, t)
<1> DEFINE r == s \ {g}
<1>0. s \in SUBSET PurchaseGroup
  BY DEF PackedGroups, GroupsOf
<1>1. /\ g \in s /\ g \in PurchaseGroup /\ g.startsAt \in Nat /\ g.expiresAt \in Nat
      /\ g.duration \in Presets
      /\ \A x \in s : x.startsAt \in Nat /\ x.expiresAt \in Nat
  BY <1>0 DEF NextGroup, PurchaseGroup
<1>2. /\ w \in WalkState /\ w.cursor \in Nat /\ w.plans \in Seq(Plan)
      /\ v.cursor \in Nat /\ v.plans \in Seq(Plan)
  BY DEF Walked, WalkState
<1>3. PICK P, Q : P = w.plans /\ Q = v.plans
  OBVIOUS
<1>4. /\ OfWaiting(r, P, t) /\ InOrder(P) /\ Clear(r, P) /\ AtCursor(r, w, t)
      /\ NoHole(r, P, t)
  BY <1>3 DEF Walked
<1>5. w.done = FALSE /\ t < g.startsAt /\ w.cursor < g.startsAt
  BY DEF Moves
<1>6. /\ \A x \in r : x.expiresAt # Forever
      /\ \A x \in r : ~PlannedIn(P, x.order) => x.expiresAt <= w.cursor
      /\ \A i \in DOMAIN P : P[i].expiresAt <= w.cursor
      /\ t <= w.cursor
      /\ \/ w.cursor = t
         \/ \E x \in r : \E c \in Nat :
              /\ c <= x.startsAt /\ w.cursor = ExpiresAt(x.duration, c)
              /\ GroupIs(P, x, c, w.cursor)
  BY <1>3, <1>4, <1>5 DEF AtCursor
<1>7. ~PlannedIn(P, g.order)
  BY <1>0, <1>2, <1>3, <1>4, NextIsUnplanned
<1>8. g.expiresAt # Forever /\ g.duration # Lifetime
  BY <1>1, <1>5 DEF PackedGroups
<1>9. PICK n, plan :
        /\ n = Len(P) + 1 /\ n \in Nat /\ plan \in Plan
        /\ plan.order = g.order /\ plan.previousStartsAt = g.startsAt
        /\ plan.startsAt = w.cursor
        /\ plan.expiresAt = ExpiresAt(g.duration, w.cursor)
        /\ w.cursor + 28 <= plan.expiresAt
        /\ Q = Append(P, plan) /\ v.cursor = plan.expiresAt
  <2>1. PICK plan : plan = PlanFor(w, g)
    OBVIOUS
  <2>2. /\ plan.order = g.order /\ plan.previousStartsAt = g.startsAt
        /\ plan.startsAt = w.cursor
        /\ plan.expiresAt = ExpiresAt(g.duration, w.cursor)
    BY <2>1 DEF PlanFor
  <2>3. plan \in Plan /\ w.cursor + 28 <= plan.expiresAt
    BY <1>1, <1>2, <1>8, <2>1, <2>2, ExpiryOf DEF PlanFor, Plan, PurchaseGroup
  <2>4. QED
    BY <1>2, <1>3, <2>1, <2>2, <2>3 DEF Moves
<1>10. /\ P \in Seq(Plan) /\ DOMAIN P = 1..(n - 1) /\ DOMAIN Q = 1..n /\ Q[n] = plan
       /\ \A i \in DOMAIN P : i \in DOMAIN Q /\ Q[i] = P[i] /\ i < n
       /\ \A i \in DOMAIN Q : i \in DOMAIN P \/ i = n
  BY <1>2, <1>3, <1>9
<1>11. /\ PlannedIn(Q, g.order)
       /\ \A x \in r : PlannedIn(Q, x.order) <=> PlannedIn(P, x.order)
  BY <1>9, <1>10 DEF PlannedIn, NextGroup
<1>12. /\ \A x \in r : \A b, e : GroupIs(P, x, b, e) => GroupIs(Q, x, b, e)
       /\ GroupIs(Q, g, w.cursor, v.cursor)
  <2>1. GroupIs(Q, g, w.cursor, v.cursor)
    BY <1>9, <1>10 DEF GroupIs
  <2>2. ASSUME NEW x \in r, NEW b, NEW e, GroupIs(P, x, b, e)
        PROVE  GroupIs(Q, x, b, e)
    <3>1. CASE ~PlannedIn(P, x.order) /\ x.startsAt = b /\ x.expiresAt = e
      BY <1>11, <3>1 DEF GroupIs
    <3>2. CASE \E i \in DOMAIN P : /\ P[i].order = x.order
                                   /\ P[i].startsAt = b /\ P[i].expiresAt = e
      BY <1>10, <3>2 DEF GroupIs
    <3>3. QED
      BY <2>2, <3>1, <3>2 DEF GroupIs
  <2>3. QED
    BY <2>1, <2>2
<1>13. OfWaiting(s, Q, t)
  BY <1>1, <1>4, <1>5, <1>6, <1>8, <1>9, <1>10 DEF OfWaiting
<1>14. \A i \in DOMAIN P : \E x \in r : /\ x.order = P[i].order
                                        /\ x.startsAt = P[i].previousStartsAt
                                        /\ x.expiresAt # Forever
  BY <1>4 DEF OfWaiting
<1>15. InOrder(Q)
  <2> SUFFICES ASSUME NEW i \in DOMAIN Q, NEW j \in DOMAIN Q, i < j
               PROVE  /\ Q[i].order # Q[j].order
                      /\ Q[i].expiresAt <= Q[j].startsAt
                      /\ Q[i].previousStartsAt < Q[j].previousStartsAt
    BY DEF InOrder
  <2>1. i \in DOMAIN P /\ Q[i] = P[i]
    BY <1>9, <1>10
  <2>2. CASE j \in DOMAIN P
    BY <1>4, <1>10, <2>1, <2>2 DEF InOrder
  <2>3. CASE j = n
    <3>1. PICK x \in r : /\ x.order = P[i].order /\ x.startsAt = P[i].previousStartsAt
                         /\ x.expiresAt # Forever
      BY <1>14, <2>1
    <3>2. x.order # g.order /\ x.startsAt < g.startsAt
      BY <1>8, <3>1 DEF NextGroup
    <3>3. QED
      BY <1>6, <1>9, <1>10, <2>1, <2>3, <3>1, <3>2
  <2>4. QED
    BY <1>10, <2>2, <2>3
<1>16. Clear(s, Q)
  <2> SUFFICES ASSUME NEW i \in DOMAIN Q, NEW x \in s, ~PlannedIn(Q, x.order)
               PROVE  x.expiresAt <= Q[i].startsAt \/ Q[i].previousStartsAt <= x.startsAt
    BY DEF Clear
  <2>1. x \in r /\ ~PlannedIn(P, x.order) /\ x.expiresAt # Forever
    BY <1>6, <1>11
  <2>2. CASE i \in DOMAIN P
    BY <1>4, <1>10, <2>1, <2>2 DEF Clear
  <2>3. CASE i = n
    BY <1>6, <1>9, <1>10, <2>1, <2>3
  <2>4. QED
    BY <1>10, <2>2, <2>3
<1>17. AtCursor(s, v, t)
  <2>1. \A x \in s : x.expiresAt # Forever
    BY <1>6, <1>8
  <2>2. w.cursor <= v.cursor /\ t <= v.cursor
    BY <1>2, <1>6, <1>9
  <2>3. ASSUME NEW x \in s, ~PlannedIn(Q, x.order) PROVE x.expiresAt <= v.cursor
    <3>1. x \in r /\ x.expiresAt <= w.cursor
      BY <1>6, <1>11, <2>3
    <3>2. QED
      BY <1>1, <1>2, <2>2, <3>1
  <2>4. ASSUME NEW i \in DOMAIN Q PROVE Q[i].expiresAt <= v.cursor
    <3>1. CASE i \in DOMAIN P
      <4>0. P \in Seq(Plan)
        BY <1>10
      <4>1. PICK p \in Plan : p = P[i]
        BY <3>1, <4>0
      <4>2. p.expiresAt \in Nat /\ p.expiresAt <= w.cursor /\ Q[i] = p
        BY <1>6, <1>10, <3>1, <4>1 DEF Plan
      <4>3. QED
        BY <1>2, <2>2, <4>2
    <3>2. CASE i = n
      BY <1>2, <1>9, <1>10, <3>2
    <3>3. QED
      BY <1>10, <3>1, <3>2
  <2>5. \E c \in Nat :
          /\ c <= g.startsAt /\ v.cursor = ExpiresAt(g.duration, c)
          /\ GroupIs(Q, g, c, v.cursor)
    BY <1>1, <1>2, <1>5, <1>9, <1>12
  <2>6. QED
    BY <1>1, <1>3, <2>1, <2>2, <2>3, <2>4, <2>5 DEF AtCursor
<1>18. Endless(s, v)
  <2>1. v.cursor # Forever
    BY <1>2, <1>9 DEF Forever
  <2>2. v.done = FALSE
    BY <2>1 DEF Moves
  <2>3. QED
    BY <2>2 DEF Endless
<1>19. NoHole(s, Q, t)
  <2>1. ASSUME NEW o, NEW day, Reached(r, P, o, day) PROVE Reached(s, Q, o, day)
    BY <1>12, <2>1 DEF Reached
  <2>2. ASSUME NEW x \in s, ~PlannedIn(Q, x.order)
        PROVE  x.startsAt <= t \/ Reached(s, Q, x.order, x.startsAt)
    <3>1. x \in r /\ ~PlannedIn(P, x.order)
      BY <1>11, <2>2
    <3>2. QED
      BY <1>4, <2>1, <3>1 DEF NoHole
  <2>3. ASSUME NEW i \in DOMAIN Q
        PROVE  Q[i].startsAt <= t \/ Reached(s, Q, Q[i].order, Q[i].startsAt)
    <3>1. CASE i \in DOMAIN P
      BY <1>4, <1>10, <2>1, <3>1 DEF NoHole
    <3>2. CASE i = n
      <4>1. Q[i].startsAt = w.cursor /\ Q[i].order = g.order
        BY <1>9, <1>10, <3>2
      <4>2. CASE w.cursor = t
        BY <1>2, <4>1, <4>2
      <4>3. CASE w.cursor # t
        <5>1. PICK x \in r, c \in Nat :
                /\ c <= x.startsAt /\ w.cursor = ExpiresAt(x.duration, c)
                /\ GroupIs(P, x, c, w.cursor)
          BY <1>6, <4>3
        <5>2. x.order # g.order /\ x.startsAt \in Nat /\ x.startsAt <= g.startsAt
          BY <1>1 DEF NextGroup
        <5>3. x.duration \in Presets /\ x.duration # Lifetime
          BY <1>0, <1>6, <5>1 DEF PackedGroups, PurchaseGroup
        <5>4. c < w.cursor
          BY <1>2, <5>1, <5>3, ExpiryOf
        <5>5. Lasts(c, w.cursor, w.cursor)
          BY <1>2, <5>4 DEF Lasts
        <5>6. Reached(r, P, g.order, w.cursor)
          BY <1>2, <5>1, <5>2, <5>5 DEF Reached
        <5>7. QED
          BY <2>1, <4>1, <5>6
      <4>4. QED
        BY <4>2, <4>3
    <3>3. QED
      BY <1>10, <3>1, <3>2
  <2>4. QED
    BY <2>2, <2>3 DEF NoHole
<1>20. QED
  BY <1>3, <1>13, <1>15, <1>16, <1>17, <1>18, <1>19 DEF Walked

\* What a whole walk has done, so what the plans of a re-anchor are like.
LEMMA ReanchorIsWalked ==
  ASSUME NEW S, NEW t \in Nat, PackedGroups(S, t)
  PROVE  \E w : Walked(S, w, t) /\ Reanchor(S, t) = w.plans
<1>0. GroupsOf(S) /\ S \in SUBSET PurchaseGroup /\ IsFiniteSet(S)
  BY DEF PackedGroups, GroupsOf
<1>1. PICK h : Walks(h, t, SUBSET S) /\ Reanchor(S, t) = h[S].plans
  BY <1>0, ReanchorWalks
<1> DEFINE F == {s \in SUBSET S : Walked(s, h[s], t)}
<1>2. ASSUME NEW s \in SUBSET S, \A x \in s : s \ {x} \in F PROVE s \in F
  <2>1. CASE s = {}
    <3>1. PICK w : w = h[s]
      OBVIOUS
    <3>2. w = [cursor |-> t, done |-> FALSE, plans |-> <<>>]
      BY <1>1, <2>1, <3>1 DEF Walks, NewWalk
    <3>3. w \in WalkState /\ w.cursor = t /\ w.done = FALSE /\ w.plans = <<>>
      BY <3>2 DEF WalkState
    <3>4. Walked(s, w, t)
      BY <2>1, <3>3 DEF Walked, OfWaiting, InOrder, Clear, AtCursor, Endless, NoHole
    <3>5. QED
      BY <3>1, <3>4
  <2>2. CASE s # {}
    <3>1. PICK g \in PurchaseGroup : g \in s /\ g = Latest(s) /\ NextGroup(s, g, t)
      BY <1>0, <2>2, LatestIsTaken, LatestIsNext
    <3>2. PICK w : w = h[s \ {g}] /\ Walked(s \ {g}, w, t)
      BY <1>2, <3>1
    <3>3. PICK v : v = h[s] /\ v = ReanchorOne(t, w, g)
      BY <1>1, <2>2, <3>1, <3>2 DEF Walks
    <3>4. w \in WalkState /\ s \in SUBSET PurchaseGroup
      BY <1>0, <3>2 DEF Walked
    <3>5. /\ v \in WalkState
          /\ \/ w.done = TRUE /\ v = w
             \/ StaysPut(t, w, g, v)
             \/ Moves(t, w, g, v)
      BY <3>3, <3>4, OneStep
    <3>6. Walked(s, v, t)
      BY <3>1, <3>2, <3>4, <3>5, PassedBy, StayedPut, Moved
    <3>7. QED
      BY <3>3, <3>6
  <2>3. QED
    BY <2>1, <2>2
<1>3. S \in F
  <2> HIDE DEF F
  <2>1. QED
    BY <1>0, <1>2, SubsetInduct
<1>4. QED
  BY <1>1, <1>3

-----------------------------------------------------------------------------
(* The types, and what the plans of a job are like.                           *)

JobPlans(j) ==
  PlansMoveEarlier(j.plans) /\ (j.at = "apply" => j.plans # <<>>)

TypeInv == TypeOK /\ \A w \in Workers: JobPlans(job[w])

\* OnlyMovesEarlier, of one step.
RowsMoveEarlier ==
  \A o \in Orders: \A g \in Grants:
    Exists(o, g) /\ ent'[o][g] # ent[o][g] =>
      \/ ent'[o][g].status = "REVOKED"
      \/ /\ Active(o, g) /\ ent'[o][g].status = "ACTIVE"
         /\ ent'[o][g].startsAt < ent[o][g].startsAt
         /\ ent'[o][g].expiresAt =
              ExpiresAt(Durations[o], ent'[o][g].startsAt)

\* The fields of a job record.
LEMMA JobFieldTypes ==
  ASSUME NEW j
  PROVE  j \in Job <=>
           /\ j = [op |-> j.op, at |-> j.at, order |-> j.order, now |-> j.now,
                   window |-> j.window, next |-> j.next, todo |-> j.todo, plans |-> j.plans]
           /\ j.op \in {"none", "provision", "refund", "revoke"}
           /\ j.at \in {"start", "revoke", "lock", "window", "insert", "plan",
                        "apply", "unlock", "finish"}
           /\ j.order \in Orders /\ j.now \in Nat /\ j.window \in Window
           /\ j.next \in Nat /\ j.todo \in SUBSET Grants /\ j.plans \in Seq(Plan)
  BY DEF Job

\* The record of a worker without a request.
LEMMA IdleType ==
  /\ Idle \in Job /\ JobPlans(Idle)
  /\ Idle.op = "none" /\ Idle.at = "start" /\ Idle.plans = <<>> /\ Idle.now = 0
<1>1. PICK o \in Orders : o = CHOOSE x \in Orders : TRUE
  BY OrdersAreFinite
<1>2. PICK e : e = <<>> /\ e \in Seq(Plan) /\ DOMAIN e = {}
  <2>1. <<>> \in Seq(Plan) /\ DOMAIN <<>> = {}
    OBVIOUS
  <2>2. QED
    BY <2>1
<1>3. PICK j : j = Idle
  OBVIOUS
<1>4. j = [op |-> "none", at |-> "start", order |-> o,
           now |-> 0, window |-> [startsAt |-> 0, expiresAt |-> 0], next |-> 1,
           todo |-> {}, plans |-> e]
  BY <1>1, <1>2, <1>3 DEF Idle
<1>5. j \in Job
  BY <1>2, <1>4 DEF Job, Window
<1>6. JobPlans(j)
  BY <1>2, <1>4 DEF JobPlans, PlansMoveEarlier
<1>7. QED
  BY <1>2, <1>3, <1>4, <1>5, <1>6

\* A step of one worker leaves every job well-typed when its own is.
LEMMA JobTypes ==
  ASSUME TypeInv, NEW w \in Workers, NEW j \in Job, JobPlans(j),
         job' = [job EXCEPT ![w] = j]
  PROVE  job' \in [Workers -> Job] /\ \A v \in Workers: JobPlans(job'[v])
<1>1. job \in [Workers -> Job]
  BY DEF TypeInv, TypeOK
<1>2. \A v \in Workers : job'[v] = IF v = w THEN j ELSE job[v]
  BY <1>1
<1>3. QED
  BY <1>1, <1>2 DEF TypeInv

\* So is a job that moves to another point, except to carry out no plans.
LEMMA GoneToTypes ==
  ASSUME TypeInv, NEW w \in Workers, NEW point, Goto(w, point),
         point \in {"start", "revoke", "lock", "window", "insert", "plan",
                    "unlock", "finish"}
  PROVE  job' \in [Workers -> Job] /\ \A v \in Workers: JobPlans(job'[v])
<1>1. job \in [Workers -> Job] /\ JobPlans(job[w])
  BY DEF TypeInv, TypeOK
<1>2. PICK i \in Job : i = job[w] /\ JobPlans(i)
  BY <1>1
<1>3. PICK j : j = [i EXCEPT !.at = point]
  OBVIOUS
<1>4. job' = [job EXCEPT ![w] = j]
  BY <1>1, <1>2, <1>3 DEF Goto
<1>5. j \in Job /\ j.plans = i.plans /\ j.at = point
  BY <1>2, <1>3 DEF Job
<1>6. JobPlans(j)
  BY <1>2, <1>5 DEF JobPlans
<1>7. QED
  BY <1>4, <1>5, <1>6, JobTypes

\* And so is a job that is over.
LEMMA ReturnTypes ==
  ASSUME TypeInv, NEW w \in Workers, Return(w)
  PROVE  job' \in [Workers -> Job] /\ \A v \in Workers: JobPlans(job'[v])
  BY IdleType, JobTypes DEF Return

\* A worker that leaves the section keeps only its order.
LEMMA LeaveTypes ==
  ASSUME TypeInv, NEW w \in Workers, LeaveSection(w)
  PROVE  \E j \in Job :
           /\ job' = [job EXCEPT ![w] = j] /\ j.at = "unlock" /\ j.op = job[w].op
           /\ j.order = job[w].order /\ j.now = 0 /\ j.plans = <<>> /\ JobPlans(j)
<1>1. PICK i \in Job : i = job[w]
  BY DEF TypeInv, TypeOK
<1>2. PICK k \in Job : k = Idle /\ JobPlans(k) /\ k.plans = <<>> /\ k.now = 0
  BY IdleType
<1>3. PICK j : j = [k EXCEPT !.op = i.op, !.at = "unlock", !.order = i.order]
  OBVIOUS
<1>4. job' = [job EXCEPT ![w] = j]
  BY <1>1, <1>2, <1>3 DEF LeaveSection
<1>5. /\ j \in Job /\ j.plans = k.plans /\ j.at = "unlock" /\ j.op = i.op
      /\ j.order = i.order /\ j.now = k.now
  BY <1>1, <1>2, <1>3 DEF Job
<1>6. QED
  BY <1>1, <1>2, <1>4, <1>5 DEF JobPlans

\* A request begins with a record that differs from Idle.
LEMMA BeginTypes ==
  ASSUME TypeInv, NEW w \in Workers, NEW j \in Job, JobPlans(j), Begin(w, j)
  PROVE  job' \in [Workers -> Job] /\ \A v \in Workers: JobPlans(job'[v])
  BY JobTypes DEF Begin

-----------------------------------------------------------------------------
(* What the steps write: windows, plans and rows.                             *)

\* A row of a purchase or an admin's ends on the day.
EndsOn(day) ==
  \/ \E p \in Orders: \E h \in Grants: Active(p, h) /\ ent[p][h].expiresAt = day
  \/ \E a \in Admins: admin[a].status = "ACTIVE" /\ admin[a].expiresAt = day

\* The window that provisioning finds for job i.
WindowFor(i, win) ==
  \/ /\ win.startsAt = i.now /\ win.expiresAt = Forever
  \/ /\ Durations[i.order] # Lifetime
     /\ win.expiresAt = ExpiresAt(Durations[i.order], win.startsAt)
     /\ \A p \in Orders: \A h \in Grants: Active(p, h) =>
          ent[p][h].expiresAt # Forever /\ ent[p][h].expiresAt <= win.startsAt
     /\ win.startsAt = i.now \/ EndsOn(win.startsAt)

\* The ends of the active rows are finitely many.
LEMMA EndsAreFinite ==
  ASSUME TypeInv, NEW ends,
         ends = {row.expiresAt:
                   row \in (UNION {RowsOf(o): o \in Orders}) \cup GrantedRows}
  PROVE  /\ IsFiniteSet(ends) /\ ends \in SUBSET Nat
         /\ \A e \in ends: EndsOn(e)
         /\ \A p \in Orders: \A h \in Grants: Active(p, h) => ent[p][h].expiresAt \in ends
<1> DEFINE C == Orders \X Grants
           f == [x \in C |-> ent[x[1]][x[2]].expiresAt]
           T == {f[x] : x \in C}
           e2 == [a \in Admins |-> admin[a].expiresAt]
           T2 == {e2[a] : a \in Admins}
<1>1. IsFiniteSet(C)
  <2>1. IsFiniteSet(Grants)
    BY FS_Interval, BoundsAreNat DEF Grants
  <2>2. QED
    BY <2>1, OrdersAreFinite, FS_Product
<1>2. IsFiniteSet(T) /\ IsFiniteSet(T2) /\ IsFiniteSet(T \cup T2)
  <2>1. IsFiniteSet(T)
    <3> HIDE DEF C, f
    <3>1. QED
      BY <1>1, ImageIsFinite
  <2>2. IsFiniteSet(T2)
    <3> HIDE DEF e2
    <3>1. QED
      BY OrdersAreFinite, ImageIsFinite
  <2>3. QED
    BY <2>1, <2>2, FS_Union
<1>3. ASSUME NEW e \in ends
      PROVE  EndsOn(e)
  <2>1. PICK row \in (UNION {RowsOf(o): o \in Orders}) \cup GrantedRows : e = row.expiresAt
    OBVIOUS
  <2>2. CASE row \in GrantedRows
    BY <2>1, <2>2 DEF GrantedRows, EndsOn
  <2>3. CASE \E p \in Orders : row \in RowsOf(p)
    BY <2>1, <2>3 DEF RowsOf, EndsOn
  <2>4. QED
    BY <2>1, <2>2, <2>3
<1>4. ASSUME NEW p \in Orders, NEW h \in Grants, Active(p, h)
      PROVE  ent[p][h].expiresAt \in ends
  <2>1. ent[p][h] \in RowsOf(p)
    BY <1>4 DEF RowsOf
  <2>2. QED
    BY <2>1
<1>5. ends \subseteq T \cup T2
  <2> SUFFICES ASSUME NEW e \in ends PROVE e \in T \cup T2
    OBVIOUS
  <2>1. EndsOn(e)
    BY <1>3
  <2>2. CASE \E p \in Orders: \E h \in Grants: Active(p, h) /\ ent[p][h].expiresAt = e
    <3>1. PICK p \in Orders, h \in Grants : ent[p][h].expiresAt = e
      BY <2>2
    <3>2. <<p, h>> \in C /\ f[<<p, h>>] = e
      BY <3>1
    <3>3. QED
      BY <3>2
  <2>3. CASE \E a \in Admins: admin[a].status = "ACTIVE" /\ admin[a].expiresAt = e
    BY <2>3
  <2>4. QED
    BY <2>1, <2>2, <2>3 DEF EndsOn
<1>6. /\ \A p \in Orders: \A h \in Grants: ent[p][h].expiresAt \in Nat
      /\ \A a \in Admins: admin[a].expiresAt \in Nat
  BY DEF TypeInv, TypeOK, Row
<1>7. ends \in SUBSET Nat
  BY <1>3, <1>6 DEF EndsOn
<1>8. IsFiniteSet(ends)
  BY <1>2, <1>5, FS_Subset
<1>9. QED
  BY <1>3, <1>4, <1>7, <1>8

\* FindWindow gives its job a window, and nothing else of the state changes.
LEMMA FoundWindow ==
  ASSUME TypeInv, NEW w \in Workers, FindWindow(w)
  PROVE  \E j \in Job, win \in Window :
           /\ job' = [job EXCEPT ![w] = j] /\ WindowFor(job[w], win) /\ j.window = win
           /\ j.op = "provision" /\ j.at = "insert" /\ j.order = job[w].order
           /\ j.next = job[w].next /\ j.plans = job[w].plans /\ j.now = 0 /\ JobPlans(j)
<1>1. job \in [Workers -> Job] /\ JobPlans(job[w])
  BY DEF TypeInv, TypeOK
<1>2. PICK i \in Job : i = job[w] /\ JobPlans(i)
  BY <1>1
<1>3. PICK ends : ends = {row.expiresAt:
                   row \in (UNION {RowsOf(o): o \in Orders}) \cup GrantedRows}
  OBVIOUS
<1>4. PICK live : live = {end \in ends : end = Forever \/ end > i.now}
  OBVIOUS
<1>5. PICK win : win = StackWindow(Durations[i.order], i.now, live)
  OBVIOUS
<1>6. job' = [job EXCEPT ![w].window = win, ![w].now = 0, ![w].at = "insert"]
  BY <1>2, <1>3, <1>4, <1>5 DEF FindWindow
<1>7. /\ IsFiniteSet(ends) /\ ends \in SUBSET Nat
      /\ \A e \in ends: EndsOn(e)
      /\ \A p \in Orders: \A h \in Grants: Active(p, h) => ent[p][h].expiresAt \in ends
  BY <1>3, EndsAreFinite
<1>8. i.now \in Nat /\ i.order \in Orders /\ Durations[i.order] \in Presets
  BY DurationsArePresets DEF Job
<1>9. PICK T : T = {i.now} \cup {end \in live: end > i.now}
  OBVIOUS
<1>10. IsFiniteSet(T) /\ T \in SUBSET Nat /\ T # {}
  <2>1. IsFiniteSet({end \in live: end > i.now}) /\ IsFiniteSet({i.now})
    BY <1>4, <1>7, FS_Subset, FS_Singleton
  <2>2. IsFiniteSet(T)
    BY <1>9, <2>1, FS_Union
  <2>3. QED
    BY <1>4, <1>7, <1>8, <1>9, <2>2
<1>11. PICK a \in Nat : a = Max(T) /\ a \in T /\ \A e \in T : e <= a
  BY <1>10, MaxOf
<1>12. win = IF Durations[i.order] = Lifetime \/ Forever \in live
               THEN [startsAt |-> i.now, expiresAt |-> Forever]
               ELSE [startsAt |-> a, expiresAt |-> ExpiresAt(Durations[i.order], a)]
  BY <1>5, <1>9, <1>11 DEF StackWindow
<1>13. win \in Window
  <2>1. ExpiresAt(Durations[i.order], a) \in Nat
    BY <1>8, ExpiryOf
  <2>2. QED
    BY <1>8, <1>12, <2>1 DEF Window, Forever
<1>14. WindowFor(i, win)
  <2>1. CASE Durations[i.order] = Lifetime \/ Forever \in live
    BY <1>12, <2>1 DEF WindowFor
  <2>2. CASE ~(Durations[i.order] = Lifetime \/ Forever \in live)
    <3>1. /\ win.startsAt = a /\ win.expiresAt = ExpiresAt(Durations[i.order], win.startsAt)
          /\ Durations[i.order] # Lifetime
      BY <1>12, <2>2
    <3>2. ASSUME NEW e \in ends PROVE e # Forever /\ e <= a
      <4>1. e # Forever /\ e \in Nat
        BY <1>4, <1>7, <2>2
      <4>2. CASE e > i.now
        <5>1. e \in live
          BY <1>4, <4>2
        <5>2. e \in T
          BY <1>9, <4>2, <5>1
        <5>3. QED
          BY <1>11, <4>1, <5>2
      <4>3. CASE ~(e > i.now)
        BY <1>8, <1>9, <1>11, <4>1, <4>3
      <4>4. QED
        BY <4>1, <4>2, <4>3
    <3>3. a = i.now \/ a \in ends
      BY <1>4, <1>9, <1>11
    <3>4. QED
      BY <1>7, <3>1, <3>2, <3>3 DEF WindowFor
  <2>3. QED
    BY <2>1, <2>2
<1>15. PICK j : j = [i EXCEPT !.window = win, !.now = 0, !.at = "insert"]
  OBVIOUS
<1>16. job' = [job EXCEPT ![w] = j]
  BY <1>1, <1>2, <1>6, <1>15
<1>17. /\ j \in Job /\ j.window = win /\ j.op = i.op /\ j.at = "insert" /\ j.order = i.order
       /\ j.next = i.next /\ j.plans = i.plans /\ j.now = 0
  BY <1>13, <1>15 DEF Job
<1>18. JobPlans(j) /\ i.op = "provision"
  BY <1>2, <1>17 DEF JobPlans, FindWindow, At
<1>19. QED
  BY <1>2, <1>13, <1>14, <1>16, <1>17, <1>18

\* Every row of a planned purchase is a row of some order, and the other way round.
LEMMA EarliestIsOne ==
  ASSUME TypeInv, NEW o \in Orders, RowsOf(o) # {}
  PROVE  Earliest(o) \in RowsOf(o)
<1> DEFINE T == {row.startsAt : row \in RowsOf(o)}
<1>1. \A row \in RowsOf(o) : row.startsAt \in Nat
  BY DEF TypeInv, TypeOK, Row, RowsOf
<1>2. T \subseteq Nat /\ T # {}
  BY <1>1
<1>3. PICK a \in T : \A b \in T : a <= b
  <2> HIDE DEF T
  <2>1. QED
    BY <1>2, LeastOf
<1>4. \E row \in RowsOf(o) : \A other \in RowsOf(o) : row.startsAt <= other.startsAt
  BY <1>3
<1>5. QED
  BY <1>4 DEF Earliest

\* A group for each order with an active row, with the window of one of its rows.
LEMMA GroupsAre ==
  ASSUME TypeInv
  PROVE  /\ GroupsOf(Groups)
         /\ \A G \in Groups : G.order \in Orders /\ \E g \in Grants :
              /\ Active(G.order, g) /\ G.startsAt = ent[G.order][g].startsAt
              /\ G.expiresAt = ent[G.order][g].expiresAt
         /\ \A o \in Orders : \A g \in Grants : Active(o, g) => \E G \in Groups : G.order = o
         /\ \A G, H \in Groups : G.order = H.order => G = H
<1>1. ASSUME NEW o \in Orders, RowsOf(o) # {}
      PROVE  /\ Group(o) \in PurchaseGroup /\ Group(o).order = o
             /\ Group(o).duration = Durations[o]
             /\ \E g \in Grants :
                  /\ Active(o, g) /\ Group(o).startsAt = ent[o][g].startsAt
                  /\ Group(o).expiresAt = ent[o][g].expiresAt
  <2>1. PICK row : row = Earliest(o) /\ row \in RowsOf(o)
    BY <1>1, EarliestIsOne
  <2>2. PICK g \in Grants : Active(o, g) /\ row = ent[o][g]
    BY <2>1 DEF RowsOf
  <2>3. row.startsAt \in Nat /\ row.expiresAt \in Nat
    BY <2>2 DEF TypeInv, TypeOK, Row
  <2>4. PICK G : G = Group(o)
    OBVIOUS
  <2>5. G = [order |-> o, startsAt |-> row.startsAt, expiresAt |-> row.expiresAt,
             duration |-> Durations[o]]
    BY <2>1, <2>4 DEF Group
  <2>6. G \in PurchaseGroup
    BY <2>3, <2>5, DurationsArePresets DEF PurchaseGroup
  <2>7. QED
    BY <2>2, <2>4, <2>5, <2>6
<1>2. IsFiniteSet(Groups)
  <2> DEFINE A == {x \in Orders: RowsOf(x) # {}}
             f == [o \in A |-> Group(o)]
  <2>1. IsFiniteSet(A)
    BY OrdersAreFinite, FS_Subset
  <2>2. Groups = {f[o] : o \in A}
    BY DEF Groups
  <2> HIDE DEF A, f
  <2>3. QED
    BY <2>1, <2>2, ImageIsFinite
<1>3. \A G \in Groups : \E o \in Orders : RowsOf(o) # {} /\ G = Group(o)
  BY DEF Groups
<1>4. ASSUME NEW o \in Orders, NEW g \in Grants, Active(o, g)
      PROVE  \E G \in Groups : G.order = o
  <2>1. RowsOf(o) # {}
    BY <1>4 DEF RowsOf
  <2>2. Group(o) \in Groups
    BY <2>1 DEF Groups
  <2>3. QED
    BY <1>1, <2>1, <2>2
<1>5. GroupsOf(Groups)
  BY <1>1, <1>2, <1>3 DEF GroupsOf
<1>6. QED
  BY <1>1, <1>3, <1>4, <1>5

\* The re-anchor gives its job plans that move earlier.
LEMMA PlannedMoves ==
  ASSUME TypeInv, NEW w \in Workers, PlanMoves(w)
  PROVE  \E j \in Job, plans \in Seq(Plan) :
           /\ plans = Reanchor(Groups, now)
           /\ job' = [job EXCEPT ![w] = j] /\ JobPlans(j)
           /\ j.op = job[w].op /\ j.order = job[w].order /\ j.plans = plans
           /\ j.now = job[w].now
           /\ j.at = IF plans = <<>> THEN "unlock" ELSE "apply"
<1>1. job \in [Workers -> Job] /\ now \in Nat
  BY DaysAreNat DEF TypeInv, TypeOK
<1>2. PICK i \in Job : i = job[w]
  BY <1>1
<1>3. PICK plans \in Seq(Plan) : plans = Reanchor(Groups, now) /\ PlansMoveEarlier(plans)
  BY <1>1, GroupsAre, ReanchorMovesEarlier
<1>4. PICK point : point = IF plans = <<>> THEN "unlock" ELSE "apply"
  OBVIOUS
<1>5. job' = [job EXCEPT ![w].plans = plans, ![w].at = point]
  BY <1>3, <1>4 DEF PlanMoves
<1>6. PICK j : j = [i EXCEPT !.plans = plans, !.at = point]
  OBVIOUS
<1>7. job' = [job EXCEPT ![w] = j]
  BY <1>1, <1>2, <1>5, <1>6
<1>8. point \in {"unlock", "apply"}
  BY <1>4
<1>9. /\ j \in Job /\ j.op = i.op /\ j.order = i.order /\ j.plans = plans
      /\ j.at = point /\ j.now = i.now
  BY <1>3, <1>6, <1>8 DEF Job
<1>10. JobPlans(j)
  BY <1>3, <1>4, <1>9 DEF JobPlans
<1>11. QED
  BY <1>2, <1>3, <1>4, <1>7, <1>9, <1>10

\* A move is carried out: the rows of its order that still start where the plan
\* found them get its window, and the other plans stay to be carried out.
LEMMA MoveApplied ==
  ASSUME TypeInv, NEW w \in Workers, ApplyMove(w)
  PROVE  \E j \in Job, plan \in Plan, P \in Seq(Plan) :
           /\ P = job[w].plans /\ P # <<>> /\ plan = P[1] /\ MovesEarlier(plan)
           /\ \A o \in Orders : \A g \in Grants :
                ent'[o][g] = IF /\ o = plan.order /\ Active(o, g)
                                /\ ent[o][g].startsAt = plan.previousStartsAt
                               THEN [status |-> "ACTIVE", startsAt |-> plan.startsAt,
                                     expiresAt |-> plan.expiresAt]
                               ELSE ent[o][g]
           /\ ent' \in [Orders -> [Grants -> Row]]
           /\ job' = [job EXCEPT ![w] = j] /\ JobPlans(j)
           /\ j.op = job[w].op /\ j.order = job[w].order /\ j.now \in {0, job[w].now}
           /\ IF Len(P) > 1 THEN j.at = "apply" /\ j.plans = Tail(P)
                            ELSE j.at = "unlock" /\ j.plans = <<>>
<1>1. job \in [Workers -> Job] /\ JobPlans(job[w]) /\ job[w].at = "apply"
  BY DEF TypeInv, TypeOK, ApplyMove
<1>2. PICK i \in Job : i = job[w] /\ JobPlans(i) /\ i.at = "apply"
  BY <1>1
<1>3. PICK P \in Seq(Plan) : P = i.plans /\ P # <<>> /\ PlansMoveEarlier(P)
  BY <1>2 DEF Job, JobPlans
<1>4. PICK plan \in Plan : plan = P[1] /\ plan = Head(P) /\ MovesEarlier(plan)
  BY <1>3 DEF PlansMoveEarlier
<1>5. PICK m : m = [g \in Grants |->
           IF Active(plan.order, g) /\ ent[plan.order][g].startsAt = plan.previousStartsAt
             THEN [ent[plan.order][g] EXCEPT !.startsAt = plan.startsAt,
                                             !.expiresAt = plan.expiresAt]
             ELSE ent[plan.order][g]]
  OBVIOUS
<1>6. ent' = [ent EXCEPT ![plan.order] = m]
  BY <1>2, <1>3, <1>4, <1>5 DEF ApplyMove
<1>7. ent \in [Orders -> [Grants -> Row]]
  BY DEF TypeInv, TypeOK
<1>8. plan.order \in Orders /\ plan.startsAt \in Nat /\ plan.expiresAt \in Nat
  BY DEF Plan
<1>9. ASSUME NEW g \in Grants
      PROVE  m[g] = IF /\ Active(plan.order, g)
                       /\ ent[plan.order][g].startsAt = plan.previousStartsAt
                      THEN [status |-> "ACTIVE", startsAt |-> plan.startsAt,
                            expiresAt |-> plan.expiresAt]
                      ELSE ent[plan.order][g]
  <2>1. PICK row \in Row : row = ent[plan.order][g]
    BY <1>7, <1>8
  <2>2. CASE Active(plan.order, g) /\ row.startsAt = plan.previousStartsAt
    <3>1. m[g] = [row EXCEPT !.startsAt = plan.startsAt, !.expiresAt = plan.expiresAt]
      BY <1>5, <2>1, <2>2
    <3>2. row.status = "ACTIVE"
      BY <2>1, <2>2 DEF Active
    <3>3. QED
      BY <2>1, <2>2, <3>1, <3>2 DEF Row
  <2>3. CASE ~(Active(plan.order, g) /\ row.startsAt = plan.previousStartsAt)
    BY <1>5, <2>1, <2>3
  <2>4. QED
    BY <2>2, <2>3
<1>10. \A o \in Orders : \A g \in Grants :
         ent'[o][g] = IF /\ o = plan.order /\ Active(o, g)
                         /\ ent[o][g].startsAt = plan.previousStartsAt
                        THEN [status |-> "ACTIVE", startsAt |-> plan.startsAt,
                              expiresAt |-> plan.expiresAt]
                        ELSE ent[o][g]
  BY <1>6, <1>7, <1>8, <1>9
<1>11. ASSUME NEW g \in Grants PROVE m[g] \in Row
  <2>1. PICK row \in Row : row = ent[plan.order][g]
    BY <1>7, <1>8
  <2>2. PICK new : new = [status |-> "ACTIVE", startsAt |-> plan.startsAt,
                          expiresAt |-> plan.expiresAt]
    OBVIOUS
  <2>3. new \in Row
    BY <1>8, <2>2 DEF Row
  <2>4. m[g] = new \/ m[g] = row
    BY <1>9, <2>1, <2>2
  <2>5. QED
    BY <2>1, <2>3, <2>4
<1>12. m \in [Grants -> Row]
  BY <1>5, <1>11
<1>13. ent' \in [Orders -> [Grants -> Row]]
  BY <1>6, <1>7, <1>12
<1>14. \E j \in Job :
           /\ job' = [job EXCEPT ![w] = j] /\ JobPlans(j)
           /\ j.op = job[w].op /\ j.order = job[w].order /\ j.now \in {0, job[w].now}
           /\ IF Len(P) > 1 THEN j.at = "apply" /\ j.plans = Tail(P)
                            ELSE j.at = "unlock" /\ j.plans = <<>>
  <2>1. CASE Len(P) > 1
    <3>1. job' = [job EXCEPT ![w].plans = Tail(P)]
      BY <1>1, <1>2, <1>3, <2>1 DEF ApplyMove
    <3>2. PICK Q \in Seq(Plan) : Q = Tail(P) /\ Q # <<>> /\ PlansMoveEarlier(Q)
      <4>1. PICK Q : Q = Tail(P)
        OBVIOUS
      <4>2. /\ Q \in Seq(Plan) /\ Q # <<>>
            /\ \A k \in DOMAIN Q : k + 1 \in DOMAIN P /\ Q[k] = P[k + 1]
        <5>1. Q \in Seq(Plan) /\ Len(P) \in Nat /\ Len(Q) = Len(P) - 1
          BY <1>3, <2>1, <4>1
        <5>2. \A k \in 1..Len(Q) : Q[k] = P[k + 1]
          BY <1>3, <2>1, <4>1, <5>1
        <5>3. DOMAIN Q = 1..Len(Q) /\ DOMAIN P = 1..Len(P) /\ Q # <<>>
          BY <1>3, <2>1, <5>1
        <5>4. QED
          BY <5>1, <5>2, <5>3
      <4>3. QED
        BY <1>3, <4>1, <4>2 DEF PlansMoveEarlier
    <3>3. PICK j : j = [i EXCEPT !.plans = Q]
      OBVIOUS
    <3>4. job' = [job EXCEPT ![w] = j]
      BY <1>1, <1>2, <3>1, <3>2, <3>3
    <3>5. j \in Job /\ j.plans = Q /\ j.op = i.op /\ j.order = i.order /\ j.at = i.at
          /\ j.now = i.now
      BY <3>2, <3>3 DEF Job
    <3>6. JobPlans(j)
      BY <3>2, <3>5 DEF JobPlans
    <3>7. QED
      BY <1>2, <2>1, <3>2, <3>4, <3>5, <3>6
  <2>2. CASE ~(Len(P) > 1)
    <3>1. LeaveSection(w)
      BY <1>2, <1>3, <2>2 DEF ApplyMove
    <3>2. QED
      BY <2>2, <3>1, LeaveTypes
  <2>3. QED
    BY <2>1, <2>2
<1>15. QED
  BY <1>2, <1>3, <1>4, <1>10, <1>13, <1>14

\* The rows stay well-typed and no window moves later.
RowsTyped == ent' \in [Orders -> [Grants -> Row]] /\ RowsMoveEarlier

\* The jobs stay well-typed.
JobsTyped == job' \in [Workers -> Job] /\ \A w \in Workers: JobPlans(job'[w])

\* Rows that are not written stay.
LEMMA RowsStand ==
  ASSUME TypeInv, UNCHANGED ent
  PROVE  RowsTyped
  BY DEF TypeInv, TypeOK, RowsTyped, RowsMoveEarlier

\* The rest of the state is well-typed after a step that leaves the history alone.
LEMMA RestTyped ==
  ASSUME TypeInv, RowsTyped, JobsTyped,
         UNCHANGED <<now, orderVars, admin, lockVars, history>>
  PROVE  TypeInv' /\ RowsMoveEarlier
  BY DEF TypeInv, TypeOK, RowsTyped, JobsTyped, orderVars, lockVars, history

\* Before the first request the types hold.
LEMMA InitTypes == Init => TypeInv
<1> SUFFICES ASSUME Init PROVE TypeInv
  OBVIOUS
<1>1. job \in [Workers -> Job] /\ \A w \in Workers: JobPlans(job[w])
  BY IdleType DEF Init
<1>2. NoRow \in Row
  BY DEF NoRow, Row
<1>3. ent \in [Orders -> [Grants -> Row]]
  BY <1>2 DEF Init
<1>4. now \in Days /\ aborts \in 0..MaxFaults /\ overruns \in 0..MaxFaults
  BY DaysAreNat, BoundsAreNat DEF Init
<1>5. /\ late \subseteq Workers /\ admin \in [Admins -> Row] /\ lost \subseteq {"provision", "reanchor"}
      /\ leaseOver \in BOOLEAN /\ lock \in Workers \cup {NoOne, Gone}
      /\ orderStatus \in [Orders -> {"PAID", "REFUNDED"}]
      /\ provisioned \in [Orders -> BOOLEAN]
      /\ completed \in [Orders -> BOOLEAN]
  BY <1>2 DEF Init
<1>6. QED
  BY <1>1, <1>3, <1>4, <1>5 DEF TypeInv, TypeOK

\* A revoke leaves a row of no window.
LEMMA RevokeRows ==
  ASSUME TypeInv, NEW o, NEW g, Revoke(o, g)
  PROVE  /\ RowsTyped
         /\ \A p \in Orders : \A h \in Grants :
              \/ ent'[p][h] = ent[p][h]
              \/ Exists(p, h) /\ ent'[p][h].status = "REVOKED"
<1>1. ent \in [Orders -> [Grants -> Row]]
  BY DEF TypeInv, TypeOK
<1>2. PICK r : r = [NoRow EXCEPT !.status = "REVOKED"]
  OBVIOUS
<1>3. r \in Row /\ r.status = "REVOKED"
  BY <1>2 DEF NoRow, Row
<1>4. ent' = ent \/ (Active(o, g) /\ ent' = [ent EXCEPT ![o][g] = r])
  BY <1>2 DEF Revoke
<1>5. ent' \in [Orders -> [Grants -> Row]]
  BY <1>1, <1>3, <1>4
<1>6. \A p \in Orders : \A h \in Grants :
        ent'[p][h] = ent[p][h] \/ (Active(p, h) /\ ent'[p][h] = r)
  BY <1>1, <1>4
<1>7. QED
  BY <1>3, <1>5, <1>6 DEF RowsTyped, RowsMoveEarlier, Active, Exists

\* The row that provisioning inserts is a new one.
LEMMA InsertRows ==
  ASSUME TypeInv, NEW w \in Workers, InsertGrant(w)
  PROVE  /\ RowsTyped
         /\ \A p \in Orders : \A h \in Grants :
              ent'[p][h] = IF p = job[w].order /\ h = job[w].next /\ ~Exists(p, h)
                             THEN NewRow(w) ELSE ent[p][h]
         /\ NewRow(w) \in Row /\ NewRow(w).status = "ACTIVE"
         /\ NewRow(w).startsAt = job[w].window.startsAt
         /\ NewRow(w).expiresAt = job[w].window.expiresAt
<1>1. /\ ent \in [Orders -> [Grants -> Row]] /\ job[w].order \in Orders
      /\ job[w].window.startsAt \in Nat /\ job[w].window.expiresAt \in Nat
  BY DEF TypeInv, TypeOK, Job, Window
<1>2. PICK r : r = NewRow(w)
  OBVIOUS
<1>3. /\ r \in Row /\ r.status = "ACTIVE"
      /\ r.startsAt = job[w].window.startsAt /\ r.expiresAt = job[w].window.expiresAt
  BY <1>1, <1>2 DEF NewRow, Row
<1>4. PICK o, n : o = job[w].order /\ n = job[w].next /\ o \in Orders
  BY <1>1
<1>5. ent' = IF Exists(o, n) THEN ent ELSE [ent EXCEPT ![o][n] = r]
  BY <1>2, <1>4 DEF InsertGrant
<1>6. ent' \in [Orders -> [Grants -> Row]]
  BY <1>1, <1>3, <1>5
<1>7. \A p \in Orders : \A h \in Grants :
        ent'[p][h] = IF p = o /\ h = n /\ ~Exists(p, h) THEN r ELSE ent[p][h]
  BY <1>1, <1>4, <1>5
<1>8. RowsMoveEarlier
  BY <1>7 DEF RowsMoveEarlier
<1>9. QED
  BY <1>2, <1>3, <1>4, <1>6, <1>7, <1>8 DEF RowsTyped

\* The loop over the grants goes on or is left.
LEMMA InsertJob ==
  ASSUME TypeInv, NEW w \in Workers, InsertGrant(w)
  PROVE  \E j \in Job :
           /\ job' = [job EXCEPT ![w] = j] /\ JobPlans(j)
           /\ j.op = "provision" /\ j.order = job[w].order /\ j.now \in {0, job[w].now}
           /\ \/ /\ job[w].next < NumGrants /\ j.at = "insert"
                 /\ j.next = job[w].next + 1 /\ j.window = job[w].window
              \/ ~(job[w].next < NumGrants) /\ j.at = "unlock"
<1>1. job \in [Workers -> Job] /\ JobPlans(job[w])
  BY DEF TypeInv, TypeOK
<1>2. PICK i \in Job : i = job[w] /\ JobPlans(i) /\ i.op = "provision" /\ i.at = "insert"
  BY <1>1 DEF InsertGrant, At
<1>3. CASE i.next < NumGrants
  <2>1. PICK j : j = [i EXCEPT !.next = i.next + 1]
    OBVIOUS
  <2>2. job' = [job EXCEPT ![w] = j]
    BY <1>1, <1>2, <1>3, <2>1 DEF InsertGrant, AfterGrant
  <2>3. /\ j \in Job /\ j.op = "provision" /\ j.at = "insert" /\ j.order = i.order
        /\ j.next = i.next + 1 /\ j.window = i.window /\ j.plans = i.plans
        /\ j.now = i.now
    BY <1>2, <2>1 DEF Job
  <2>4. JobPlans(j)
    BY <1>2, <2>3 DEF JobPlans
  <2>5. QED
    BY <1>2, <1>3, <2>2, <2>3, <2>4
<1>4. CASE ~(i.next < NumGrants)
  <2>1. LeaveSection(w)
    BY <1>2, <1>4 DEF InsertGrant, AfterGrant
  <2>2. QED
    BY <1>2, <1>4, <2>1, LeaveTypes
<1>5. QED
  BY <1>3, <1>4

\* Jobs that begin, and jobs of a refund that has rows to revoke.
LEMMA StartTypes ==
  ASSUME TypeInv, NEW w \in Workers, Start(w)
  PROVE  JobsTyped
<1>1. PICK k \in Job : k = Idle /\ JobPlans(k) /\ k.plans = <<>>
  BY IdleType
<1>2. now \in Nat
  BY DaysAreNat DEF TypeInv, TypeOK
<1>3. PICK o \in Orders :
        \/ StartProvision(w, o) \/ ClaimRefund(w, o)
        \/ \E g \in Grants: AdminRevoke(w, o, g)
  BY DEF Start
<1>4. PICK j : /\ Begin(w, j)
               /\ \/ j = [k EXCEPT !.op = "provision", !.at = "lock", !.order = o, !.now = now]
                  \/ j = [k EXCEPT !.op = "refund", !.order = o]
                  \/ j = [k EXCEPT !.op = "revoke", !.at = "lock"]
  BY <1>1, <1>3 DEF StartProvision, ClaimRefund, AdminRevoke
<1>5. k.at = "start"
  BY <1>1 DEF Idle
<1>6. j \in Job /\ j.plans = k.plans /\ j.at \in {"lock", "start"}
  BY <1>1, <1>2, <1>4, <1>5 DEF Job
<1>7. JobPlans(j)
  BY <1>1, <1>6 DEF JobPlans
<1>8. QED
  BY <1>4, <1>6, <1>7, BeginTypes DEF JobsTyped

\* What a worker's own step does to its job keeps the jobs well-typed.
LEMMA StepTypes ==
  ASSUME TypeInv, NEW w \in Workers, Step(w)
  PROVE  TypeInv' /\ RowsMoveEarlier
<1>0. job \in [Workers -> Job] /\ JobPlans(job[w]) /\ ent \in [Orders -> [Grants -> Row]]
  BY DEF TypeInv, TypeOK
<1>1. CASE AcquireLock(w)
  <2>1. JobsTyped
    BY <1>1, GoneToTypes DEF AcquireLock, JobsTyped
  <2>2. RowsTyped
    BY <1>1, RowsStand DEF AcquireLock
  <2>3. QED
    BY <1>1, <2>1, <2>2 DEF AcquireLock, TypeInv, TypeOK, RowsTyped, JobsTyped,
                            orderVars, history
<1>2. CASE ReleaseLock(w)
  <2>1. JobsTyped
    BY <1>2, GoneToTypes, ReturnTypes DEF ReleaseLock, ExitSection, JobsTyped
  <2>2. RowsTyped
    BY <1>2, RowsStand DEF ReleaseLock, ExitSection
  <2>3. lock' \in Workers \cup {NoOne, Gone}
    BY <1>2 DEF ReleaseLock, TypeInv, TypeOK
  <2>4. leaseOver' \in BOOLEAN /\ late' \subseteq Workers
    BY <1>2 DEF ReleaseLock, ExitSection, TypeInv, TypeOK
  <2>5. UNCHANGED <<now, orderVars, admin, aborts, overruns, lost>>
    BY <1>2 DEF ReleaseLock, ExitSection
  <2>6. QED
    BY <2>1, <2>2, <2>3, <2>4, <2>5
       DEF TypeInv, TypeOK, RowsTyped, JobsTyped, orderVars
<1>3. CASE FindWindow(w)
  <2>1. JobsTyped
    BY <1>3, FoundWindow, JobTypes DEF JobsTyped
  <2>2. RowsTyped
    BY <1>3, RowsStand DEF FindWindow
  <2>3. QED
    BY <1>3, <2>1, <2>2, RestTyped DEF FindWindow
<1>4. CASE InsertGrant(w)
  <2>1. JobsTyped
    BY <1>4, InsertJob, JobTypes DEF JobsTyped
  <2>2. QED
    BY <1>4, <2>1, InsertRows, RestTyped DEF InsertGrant
<1>5. CASE SaveProvisioned(w)
  <2>1. JobsTyped /\ RowsTyped
    BY <1>5, ReturnTypes, RowsStand DEF SaveProvisioned, JobsTyped
  <2>2. provisioned' \in [Orders -> BOOLEAN]
    BY <1>5 DEF SaveProvisioned, TypeInv, TypeOK
  <2>3. QED
    BY <1>5, <2>1, <2>2
       DEF SaveProvisioned, TypeInv, TypeOK, RowsTyped, JobsTyped, lockVars, history
<1>6. CASE FindRows(w)
  <2>1. PICK i \in Job : i = job[w] /\ JobPlans(i)
    BY <1>0
  <2>2. PICK rows, point :
          /\ rows \in SUBSET Grants /\ point \in {"finish", "revoke"}
          /\ job' = [job EXCEPT ![w].todo = rows, ![w].at = point]
    BY <1>6 DEF FindRows
  <2>3. PICK j : j = [i EXCEPT !.todo = rows, !.at = point]
    OBVIOUS
  <2>4. job' = [job EXCEPT ![w] = j]
    BY <1>0, <2>1, <2>2, <2>3
  <2>5. j \in Job /\ j.plans = i.plans /\ j.at = point
    BY <2>2, <2>3 DEF Job
  <2>6. JobPlans(j)
    BY <2>1, <2>2, <2>5 DEF JobPlans
  <2>7. JobsTyped
    BY <2>4, <2>5, <2>6, JobTypes DEF JobsTyped
  <2>8. RowsTyped
    BY <1>6, RowsStand DEF FindRows
  <2>9. QED
    BY <1>6, <2>7, <2>8, RestTyped DEF FindRows
<1>7. CASE RevokeRow(w)
  <2>1. PICK i \in Job : i = job[w] /\ JobPlans(i)
    BY <1>0
  <2>2. PICK g, point :
          /\ Revoke(job[w].order, g) /\ point \in {"lock", "revoke"}
          /\ job' = [job EXCEPT ![w].todo = @ \ {g}, ![w].at = point]
    BY <1>7 DEF RevokeRow
  <2>3. PICK j : j = [i EXCEPT !.todo = i.todo \ {g}, !.at = point]
    OBVIOUS
  <2>4. job' = [job EXCEPT ![w] = j]
    BY <1>0, <2>1, <2>2, <2>3
  <2>5. j \in Job /\ j.plans = i.plans /\ j.at = point
    BY <2>2, <2>3 DEF Job
  <2>6. JobPlans(j)
    BY <2>1, <2>2, <2>5 DEF JobPlans
  <2>7. JobsTyped
    BY <2>4, <2>5, <2>6, JobTypes DEF JobsTyped
  <2>8. RowsTyped
    BY <2>2, RevokeRows
  <2>9. QED
    BY <1>7, <2>7, <2>8, RestTyped DEF RevokeRow
<1>8. CASE PlanMoves(w)
  <2>1. JobsTyped
    BY <1>8, PlannedMoves, JobTypes DEF JobsTyped
  <2>2. RowsTyped
    BY <1>8, RowsStand DEF PlanMoves
  <2>3. QED
    BY <1>8, <2>1, <2>2, RestTyped DEF PlanMoves
<1>9. CASE ApplyMove(w)
  <2>1. PICK j \in Job, plan \in Plan :
           /\ MovesEarlier(plan) /\ JobPlans(j) /\ job' = [job EXCEPT ![w] = j]
           /\ ent' \in [Orders -> [Grants -> Row]]
           /\ \A o \in Orders : \A g \in Grants :
                ent'[o][g] = IF /\ o = plan.order /\ Active(o, g)
                                /\ ent[o][g].startsAt = plan.previousStartsAt
                               THEN [status |-> "ACTIVE", startsAt |-> plan.startsAt,
                                     expiresAt |-> plan.expiresAt]
                               ELSE ent[o][g]
    BY <1>9, MoveApplied
  <2>2. JobsTyped
    BY <2>1, JobTypes DEF JobsTyped
  <2>3. RowsMoveEarlier
    BY <2>1 DEF RowsMoveEarlier, MovesEarlier
  <2>4. QED
    BY <1>9, <2>1, <2>2, <2>3, RestTyped DEF ApplyMove, RowsTyped
<1>10. CASE MarkRefunded(w)
  <2>1. JobsTyped /\ RowsTyped
    BY <1>10, ReturnTypes, RowsStand DEF MarkRefunded, JobsTyped
  <2>2. orderStatus' \in [Orders -> {"PAID", "REFUNDED"}]
    BY <1>10 DEF MarkRefunded, TypeInv, TypeOK
  <2>3. QED
    BY <1>10, <2>1, <2>2
       DEF MarkRefunded, TypeInv, TypeOK, RowsTyped, JobsTyped, lockVars, history
<1>11. QED
  BY <1>1, <1>2, <1>3, <1>4, <1>5, <1>6, <1>7, <1>8, <1>9, <1>10 DEF Step

\* An admin's row gets a window from the calendar, and keeps it when it is revoked.
LEMMA AdminTypes ==
  ASSUME TypeInv, NEW a \in Admins, AdminGrant(a) \/ RevokeGrant(a)
  PROVE  admin' \in [Admins -> Row]
<1>1. now \in Nat /\ admin \in [Admins -> Row]
  BY DaysAreNat DEF TypeInv, TypeOK
<1>2. CASE AdminGrant(a)
  <2>1. PICK end \in Nat : end = ExpiresAt(AdminMonths[a], now)
    BY <1>1, DurationsArePresets, ExpiryOf
  <2>2. PICK row : row = [status |-> "ACTIVE", startsAt |-> now, expiresAt |-> end]
    OBVIOUS
  <2>3. row \in Row
    BY <1>1, <2>2 DEF Row
  <2>4. admin' = [admin EXCEPT ![a] = row]
    BY <1>2, <2>1, <2>2 DEF AdminGrant
  <2>5. QED
    BY <1>1, <2>3, <2>4
<1>3. CASE RevokeGrant(a)
  <2>1. PICK old \in Row : old = admin[a]
    BY <1>1
  <2>2. PICK row : row = [old EXCEPT !.status = "REVOKED"]
    OBVIOUS
  <2>3. row \in Row
    BY <2>1, <2>2 DEF Row
  <2>4. admin' = [admin EXCEPT ![a] = row]
    BY <1>1, <1>3, <2>1, <2>2 DEF RevokeGrant
  <2>5. QED
    BY <1>1, <2>3, <2>4
<1>4. QED
  BY <1>2, <1>3

\* Every step keeps the types, and moves a window earlier or not at all.
THEOREM NextTypes == TypeInv /\ [Next]_vars => TypeInv' /\ RowsMoveEarlier
<1> SUFFICES ASSUME TypeInv, [Next]_vars PROVE TypeInv' /\ RowsMoveEarlier
  OBVIOUS
<1>1. CASE Tick
  <2>1. now' \in Days
    BY <1>1, BoundsAreNat DEF Tick, TypeInv, TypeOK
  <2>2. RowsTyped
    BY <1>1, RowsStand DEF Tick
  <2>3. QED
    BY <1>1, <2>1, <2>2 DEF Tick, TypeInv, TypeOK, RowsTyped, orderVars, lockVars, history
<1>2. CASE LeaseEnds
  <2>1. overruns' \in 0..MaxFaults /\ late' \subseteq Workers
    BY <1>2, BoundsAreNat DEF LeaseEnds, CanFail, TypeInv, TypeOK
  <2>2. RowsTyped
    BY <1>2, RowsStand DEF LeaseEnds
  <2>3. QED
    BY <1>2, <2>1, <2>2 DEF LeaseEnds, TypeInv, TypeOK, RowsTyped, orderVars
<1>3. ASSUME NEW w \in Workers, Start(w) PROVE TypeInv' /\ RowsMoveEarlier
  <2>1. JobsTyped
    BY <1>3, StartTypes
  <2>2. PICK o \in Orders :
          \/ StartProvision(w, o) \/ ClaimRefund(w, o)
          \/ \E g \in Grants: AdminRevoke(w, o, g)
    BY <1>3 DEF Start
  <2>3. CASE StartProvision(w, o)
    BY <2>1, <2>3, RowsStand, RestTyped DEF StartProvision
  <2>4. CASE ClaimRefund(w, o)
    <3>1. completed' \in [Orders -> BOOLEAN]
      BY <2>4 DEF ClaimRefund, TypeInv, TypeOK
    <3>2. RowsTyped
      BY <2>4, RowsStand DEF ClaimRefund
    <3>3. QED
      BY <2>1, <2>4, <3>1, <3>2
         DEF ClaimRefund, TypeInv, TypeOK, RowsTyped, JobsTyped, lockVars, history
  <2>5. CASE \E g \in Grants: AdminRevoke(w, o, g)
    BY <2>1, <2>5, RevokeRows, RestTyped DEF AdminRevoke
  <2>6. QED
    BY <2>2, <2>3, <2>4, <2>5
<1>4. ASSUME NEW w \in Workers, LockBusy(w) PROVE TypeInv' /\ RowsMoveEarlier
  <2>1. JobsTyped /\ RowsTyped
    BY <1>4, ReturnTypes, RowsStand DEF LockBusy, JobsTyped
  <2>2. lost' \subseteq {"provision", "reanchor"}
    BY <1>4 DEF LockBusy, LeavesUndone, TypeInv, TypeOK
  <2>3. QED
    BY <1>4, <2>1, <2>2 DEF LockBusy, TypeInv, TypeOK, RowsTyped, JobsTyped,
                            orderVars, lockVars
<1>5. ASSUME NEW w \in Workers, Abort(w) PROVE TypeInv' /\ RowsMoveEarlier
  <2>1. JobsTyped /\ RowsTyped
    BY <1>5, ReturnTypes, RowsStand DEF Abort, JobsTyped
  <2>2. lost' \subseteq {"provision", "reanchor"}
    BY <1>5 DEF Abort, LeavesUndone, TypeInv, TypeOK
  <2>3. aborts' \in 0..MaxFaults
    BY <1>5, BoundsAreNat DEF Abort, CanFail, TypeInv, TypeOK
  <2>4. lock' \in Workers \cup {NoOne, Gone}
    BY <1>5 DEF Abort, TypeInv, TypeOK
  <2>5. leaseOver' \in BOOLEAN /\ late' \subseteq Workers
    BY <1>5 DEF Abort, TypeInv, TypeOK
  <2>6. QED
    BY <1>5, <2>1, <2>2, <2>3, <2>4, <2>5
       DEF Abort, TypeInv, TypeOK, RowsTyped, JobsTyped, orderVars
<1>6. ASSUME NEW a \in Admins, AdminGrant(a) \/ RevokeGrant(a)
      PROVE  TypeInv' /\ RowsMoveEarlier
  <2>1. admin' \in [Admins -> Row]
    BY <1>6, AdminTypes
  <2>2. RowsTyped
    BY <1>6, RowsStand DEF AdminGrant, RevokeGrant
  <2>3. UNCHANGED <<now, orderVars, ent, lockVars, job, history>>
    BY <1>6 DEF AdminGrant, RevokeGrant
  <2>4. QED
    BY <2>1, <2>2, <2>3 DEF TypeInv, TypeOK, RowsTyped, orderVars, lockVars, history
<1>7. CASE UNCHANGED vars
  BY <1>7, RowsStand DEF vars, TypeInv, TypeOK, RowsTyped, orderVars, lockVars, history
<1>8. QED
  BY <1>1, <1>2, <1>3, <1>4, <1>5, <1>6, <1>7, StepTypes DEF Next

\* The types hold in every reachable state.
THEOREM TypesHold == Spec => []TypeInv
<1>1. QED
  BY InitTypes, NextTypes, PTL DEF Spec

\* Every variable has its type: among others, every window found and every plan
\* made is one of numbers, and the counters stay within their bounds.
THEOREM TypeCorrect == Spec => []TypeOK
<1>1. TypeInv => TypeOK
  BY DEF TypeInv
<1>2. QED
  BY <1>1, TypesHold, PTL

\* D-23: a window only ever moves earlier, keeps its full duration, and a revoked
\* row stays revoked, even when leases are outlived and plans go stale.
THEOREM WindowsOnlyMoveEarlier == Spec => OnlyMovesEarlier
<1>1. TypeInv /\ [Next]_vars => [RowsMoveEarlier]_vars
  BY NextTypes
<1>2. QED
  BY <1>1, TypesHold, PTL DEF Spec, OnlyMovesEarlier, RowsMoveEarlier

-----------------------------------------------------------------------------
(* Packed windows, while no lease is outlived and no provisioning is lost.     *)

Calm == overruns = 0 /\ "provision" \notin lost

AllExist(o) == \A g \in Grants: Exists(o, g)
NoneExist(o) == \A g \in Grants: ~Exists(o, g)

\* A window has the full duration of its order, or no end and has started.
RowFits(o, r) ==
  \/ r.expiresAt = Forever /\ r.startsAt <= now
  \/ Durations[o] # Lifetime /\ r.expiresAt = ExpiresAt(Durations[o], r.startsAt)

SameWindow ==
  \A o \in Orders: \A g, h \in Grants: Active(o, g) /\ Active(o, h) =>
    /\ ent[o][g].startsAt = ent[o][h].startsAt
    /\ ent[o][g].expiresAt = ent[o][h].expiresAt

FullWindows == \A o \in Orders: \A g \in Grants: Active(o, g) => RowFits(o, ent[o][g])

\* Of two purchases one is ahead.
Apart ==
  \A o, p \in Orders: \A g, h \in Grants:
    o # p /\ Finite(o, g) /\ Finite(p, h) =>
      \/ Ahead(Durations[o], ent[o][g].startsAt, ent[p][h].startsAt)
      \/ Ahead(Durations[p], ent[p][h].startsAt, ent[o][g].startsAt)

RowsPacked == SameWindow /\ FullWindows /\ Apart

Inserts(j) == j.op = "provision" /\ j.at = "insert"

\* An order has all of its rows or none, unless they are being inserted.
Whole ==
  \A o \in Orders: \/ AllExist(o) \/ NoneExist(o)
                   \/ \E w \in Workers: Inserts(job[w]) /\ job[w].order = o

\* What is inserted by job j goes behind every other window.
InsertFits(j) ==
  Inserts(j) =>
    \/ AllExist(j.order)
    \/ /\ \A g \in Grants: Exists(j.order, g) => g < j.next
       /\ \A g \in Grants: Active(j.order, g) =>
            /\ ent[j.order][g].startsAt = j.window.startsAt
            /\ ent[j.order][g].expiresAt = j.window.expiresAt
       /\ RowFits(j.order, j.window)
       /\ j.window.expiresAt # Forever =>
            \A p \in Orders \ {j.order}: \A h \in Grants: Active(p, h) =>
              /\ ent[p][h].expiresAt # Forever
              /\ ent[p][h].expiresAt <= j.window.startsAt

\* The rows are where plans P found them, and there is room where they go.
PlansFit(P) ==
  /\ \A o \in Orders: \A g \in Grants: Active(o, g) => ent[o][g].expiresAt # Forever
  /\ InOrder(P)
  /\ \A i \in DOMAIN P:
       /\ Durations[P[i].order] # Lifetime
       /\ \A g \in Grants: Active(P[i].order, g) =>
            ent[P[i].order][g].startsAt = P[i].previousStartsAt
  /\ \A i \in DOMAIN P: \A q \in Orders: \A h \in Grants:
       Active(q, h) /\ ~PlannedIn(P, q) =>
         \/ ent[q][h].expiresAt <= P[i].startsAt
         \/ P[i].previousStartsAt <= ent[q][h].startsAt

JobFits(j) ==
  /\ j.now <= now
  /\ InsertFits(j)
  /\ j.at = "apply" => PlansFit(j.plans)

PackedInv == Calm => RowsPacked /\ Whole /\ \A w \in Workers: JobFits(job[w])

\* No row is written, except that one or the other may be revoked.
QuietRows ==
  \A o \in Orders: \A g \in Grants:
    \/ ent'[o][g] = ent[o][g]
    \/ Exists(o, g) /\ ent'[o][g].status = "REVOKED"

\* What quiet rows keep.
LEMMA QuietRowsStay ==
  ASSUME QuietRows, NEW o \in Orders, NEW g \in Grants
  PROVE  /\ Exists(o, g)' <=> Exists(o, g)
         /\ Active(o, g)' => Active(o, g) /\ ent'[o][g] = ent[o][g]
         /\ Finite(o, g)' => Finite(o, g) /\ ent'[o][g] = ent[o][g]
  BY DEF QuietRows, Exists, Active, Finite

\* A window that fits goes on to fit.
LEMMA FitsOn ==
  ASSUME TypeInv, TypeInv', now <= now', NEW o, NEW r, r.startsAt \in Nat, RowFits(o, r)
  PROVE  RowFits(o, r)'
  BY DaysAreNat DEF RowFits, TypeInv, TypeOK

\* Revoking leaves packed rows packed.
LEMMA QuietPacked ==
  ASSUME TypeInv, TypeInv', QuietRows, now <= now', RowsPacked
  PROVE  RowsPacked'
<1>1. SameWindow'
  BY QuietRowsStay DEF RowsPacked, SameWindow
<1>2. Apart'
  BY QuietRowsStay DEF RowsPacked, Apart
<1>3. FullWindows'
  <2> SUFFICES ASSUME NEW o \in Orders, NEW g \in Grants, Active(o, g)'
               PROVE  RowFits(o, ent[o][g])'
    BY DEF FullWindows
  <2>1. PICK r \in Row : r = ent[o][g]
    BY DEF TypeInv, TypeOK
  <2>2. r = ent'[o][g] /\ Active(o, g)
    BY <2>1, QuietRowsStay
  <2>3. RowFits(o, r) /\ r.startsAt \in Nat
    BY <2>1, <2>2 DEF RowsPacked, FullWindows, Row
  <2>4. RowFits(o, r)'
    BY <2>3, FitsOn
  <2>5. QED
    BY <2>2, <2>4 DEF RowFits
<1>4. QED
  BY <1>1, <1>2, <1>3 DEF RowsPacked

\* So do they leave a job with what it relies on.
LEMMA QuietFits ==
  ASSUME TypeInv, TypeInv', QuietRows, now <= now', NEW j \in Job, JobFits(j)
  PROVE  JobFits(j)'
<1>1. j.now <= now'
  BY DaysAreNat DEF JobFits, TypeInv, TypeOK, Job
<1>2. InsertFits(j)'
  <2> SUFFICES ASSUME Inserts(j) PROVE InsertFits(j)'
    BY DEF InsertFits, Inserts
  <2>1. j.order \in Orders
    BY DEF Job
  <2>2. CASE AllExist(j.order)
    BY <2>1, <2>2, QuietRowsStay DEF InsertFits, AllExist
  <2>3. CASE ~AllExist(j.order)
    <3>1. RowFits(j.order, j.window) /\ j.window.startsAt \in Nat
      BY <2>3 DEF JobFits, InsertFits, Job, Window
    <3>2. RowFits(j.order, j.window)'
      BY <3>1, FitsOn
    <3>3. \A g \in Grants: Exists(j.order, g)' => g < j.next
      BY <2>1, <2>3, QuietRowsStay DEF JobFits, InsertFits
    <3>4. \A g \in Grants: Active(j.order, g)' =>
            /\ ent'[j.order][g].startsAt = j.window.startsAt
            /\ ent'[j.order][g].expiresAt = j.window.expiresAt
      BY <2>1, <2>3, QuietRowsStay DEF JobFits, InsertFits
    <3>5. j.window.expiresAt # Forever =>
            \A p \in Orders \ {j.order}: \A h \in Grants: Active(p, h)' =>
              /\ ent'[p][h].expiresAt # Forever
              /\ ent'[p][h].expiresAt <= j.window.startsAt
      BY <2>3, QuietRowsStay DEF JobFits, InsertFits
    <3>6. QED
      BY <3>2, <3>3, <3>4, <3>5 DEF InsertFits
  <2>4. QED
    BY <2>2, <2>3
<1>3. ASSUME j.at = "apply" PROVE PlansFit(j.plans)'
  <2>1. PICK P \in Seq(Plan) : P = j.plans /\ PlansFit(P)
    BY <1>3 DEF JobFits, Job
  <2>2. \A i \in DOMAIN P : P[i].order \in Orders
    <3> SUFFICES ASSUME NEW i \in DOMAIN P PROVE P[i].order \in Orders
      OBVIOUS
    <3>1. P[i] \in Plan
      OBVIOUS
    <3>2. QED
      BY <3>1 DEF Plan
  <2>3. PlansFit(P)'
    BY <2>1, <2>2, QuietRowsStay DEF PlansFit
  <2>4. QED
    BY <2>1, <2>3
<1>4. QED
  BY <1>1, <1>2, <1>3 DEF JobFits

\* The job of worker v moves, and it neither inserted nor inserts or applies now.
QuietMove(v) ==
  /\ ~Inserts(job[v])
  /\ job'[v].at \notin {"insert", "apply"}
  /\ job'[v].now <= now'

\* A step that writes no window keeps the rows packed.
LEMMA QuietStep ==
  ASSUME TypeInv, TypeInv', PackedInv, QuietRows, now <= now', Calm' => Calm,
         \A v \in Workers: job'[v] = job[v] \/ QuietMove(v)
  PROVE  PackedInv'
<1> SUFFICES ASSUME Calm' PROVE RowsPacked' /\ Whole' /\ \A v \in Workers: JobFits(job[v])'
  BY DEF PackedInv
<1>1. RowsPacked /\ Whole /\ \A v \in Workers: JobFits(job[v])
  BY DEF PackedInv
<1>2. RowsPacked'
  BY <1>1, QuietPacked
<1>3. Whole'
  <2> SUFFICES ASSUME NEW o \in Orders, ~AllExist(o)', ~NoneExist(o)'
               PROVE  \E v \in Workers: Inserts(job'[v]) /\ job'[v].order = o
    BY DEF Whole, Inserts
  <2>1. ~AllExist(o) /\ ~NoneExist(o)
    BY QuietRowsStay DEF AllExist, NoneExist
  <2>2. PICK v \in Workers : Inserts(job[v]) /\ job[v].order = o
    BY <1>1, <2>1 DEF Whole
  <2>3. job'[v] = job[v]
    BY <2>2 DEF QuietMove
  <2>4. QED
    BY <2>2, <2>3
<1>4. ASSUME NEW v \in Workers PROVE JobFits(job[v])'
  <2>1. CASE job'[v] = job[v]
    <3>1. PICK j \in Job : j = job[v]
      BY DEF TypeInv, TypeOK
    <3>2. JobFits(j)'
      BY <1>1, <3>1, QuietFits
    <3>3. QED
      BY <2>1, <3>1, <3>2
  <2>2. CASE QuietMove(v)
    BY <2>2 DEF QuietMove, JobFits, InsertFits, Inserts
  <2>3. QED
    BY <2>1, <2>2
<1>5. QED
  BY <1>2, <1>3, <1>4

\* The only worker in the section, while no lease is outlived.
LEMMA Alone ==
  ASSUME IInv, overruns = 0, NEW w \in Workers, job[w].at \in Section,
         NEW v \in Workers, v # w
  PROVE  job[v].at \notin Section
  BY DEF IInv, HoldersHold

\* A worker's step in the section need only look after the rows and its own job.
LEMMA SectionStep ==
  ASSUME IInv, TypeInv, PackedInv, Calm, NEW w \in Workers, NEW j,
         job' = [job EXCEPT ![w] = j], job[w].at \in Section,
         UNCHANGED now, RowsPacked', Whole', JobFits(j)'
  PROVE  PackedInv'
<1> SUFFICES ASSUME NEW v \in Workers PROVE JobFits(job[v])'
  BY DEF PackedInv
<1>1. job \in [Workers -> Job]
  BY DEF TypeInv, TypeOK
<1>2. CASE v = w
  BY <1>1, <1>2
<1>3. CASE v # w
  <2>1. job'[v] = job[v] /\ job[v].at \notin {"insert", "apply"} /\ job[v].now <= now
    BY <1>1, <1>3, Alone DEF Calm, Section, PackedInv, JobFits
  <2>2. QED
    BY <2>1 DEF JobFits, InsertFits, Inserts
<1>4. QED
  BY <1>2, <1>3

\* Provisioning finds a window behind all others.
LEMMA FindWindowPacked ==
  ASSUME IInv, TypeInv, PackedInv, Calm, NEW w \in Workers, FindWindow(w)
  PROVE  PackedInv'
<1>1. PICK j \in Job, win \in Window :
           /\ job' = [job EXCEPT ![w] = j] /\ WindowFor(job[w], win) /\ j.window = win
           /\ j.op = "provision" /\ j.at = "insert" /\ j.order = job[w].order /\ j.now = 0
  BY FoundWindow
<1>2. PICK i \in Job : i = job[w]
  BY DEF TypeInv, TypeOK
<1>3. PICK o \in Orders : o = i.order
  BY <1>2 DEF Job
<1>4. /\ job[w].at = "window" /\ UNCHANGED <<now, ent>>
      /\ RowsPacked /\ Whole /\ JobFits(job[w])
  BY DEF FindWindow, At, PackedInv
<1>5. job \in [Workers -> Job]
  BY DEF TypeInv, TypeOK
<1>6. \A v \in Workers : ~Inserts(job[v])
  BY <1>4, Alone DEF Calm, Inserts, Section
<1>7. RowsPacked'
  BY <1>4 DEF RowsPacked, SameWindow, FullWindows, Apart, RowFits, Active, Finite
<1>8. Whole'
  BY <1>4, <1>6 DEF Whole, AllExist, NoneExist, Exists
<1>9. AllExist(o) \/ NoneExist(o)
  BY <1>4, <1>6 DEF Whole
<1>10. i.now <= now /\ j.order = o /\ WindowFor(i, win)
  BY <1>1, <1>2, <1>3, <1>4 DEF JobFits
<1>11. RowFits(o, win)
  BY <1>3, <1>10 DEF WindowFor, RowFits
<1>12. win.expiresAt # Forever =>
          \A p \in Orders : \A h \in Grants: Active(p, h) =>
              ent[p][h].expiresAt # Forever /\ ent[p][h].expiresAt <= win.startsAt
  BY <1>10 DEF WindowFor
<1>13. InsertFits(j)
  <2>1. CASE AllExist(o)
    BY <1>10, <2>1 DEF InsertFits
  <2>2. CASE NoneExist(o)
    <3>1. \A g \in Grants : ~Exists(o, g) /\ ~Active(o, g)
      BY <2>2 DEF NoneExist, Exists, Active
    <3>2. QED
      BY <1>1, <1>10, <1>11, <1>12, <3>1 DEF InsertFits
  <2>3. QED
    BY <1>9, <2>1, <2>2
<1>14. j.now <= now
  BY <1>1, DaysAreNat DEF TypeInv, TypeOK
<1>15. JobFits(j)'
  BY <1>1, <1>4, <1>13, <1>14 DEF JobFits, InsertFits, AllExist, Exists, Active, RowFits
<1>16. QED
  BY <1>1, <1>4, <1>7, <1>8, <1>15, SectionStep DEF Section

\* What provisioning inserts fits.
LEMMA InsertGrantPacked ==
  ASSUME IInv, TypeInv, PackedInv, Calm, NEW w \in Workers, InsertGrant(w)
  PROVE  PackedInv'
<1>1. PICK i \in Job, o \in Orders, n \in Grants, win \in Window :
        /\ i = job[w] /\ o = i.order /\ n = i.next /\ win = i.window
        /\ Inserts(i) /\ \A g \in Grants: g < n => Exists(o, g)
  <2>1. PICK i \in Job : i = job[w]
    BY DEF TypeInv, TypeOK
  <2>2. Inserts(i) /\ Inserted(i)
    BY <2>1 DEF InsertGrant, At, Inserts, IInv, JobsInserted
  <2>3. i.window \in Window
    BY DEF Job
  <2>4. QED
    BY <2>1, <2>2, <2>3 DEF Inserted, Inserts
<1>2. PICK r \in Row :
        /\ r.status = "ACTIVE" /\ r.startsAt = win.startsAt /\ r.expiresAt = win.expiresAt
        /\ \A p \in Orders : \A h \in Grants :
             ent'[p][h] = IF p = o /\ h = n /\ ~Exists(p, h) THEN r ELSE ent[p][h]
  BY <1>1, InsertRows
<1>3. PICK j \in Job :
           /\ job' = [job EXCEPT ![w] = j]
           /\ j.op = "provision" /\ j.order = o /\ j.now \in {0, i.now}
           /\ \/ n < NumGrants /\ j.at = "insert" /\ j.next = n + 1 /\ j.window = win
              \/ ~(n < NumGrants) /\ j.at = "unlock"
  BY <1>1, InsertJob
<1>4. UNCHANGED now /\ job[w].at \in Section
  BY <1>1 DEF InsertGrant, Inserts, Section
<1>5. RowsPacked /\ Whole /\ JobFits(i)
  BY <1>1 DEF PackedInv
<1>6. \/ AllExist(o)
      \/ /\ \A g \in Grants: Exists(o, g) => g < n
         /\ \A g \in Grants: Active(o, g) =>
              ent[o][g].startsAt = win.startsAt /\ ent[o][g].expiresAt = win.expiresAt
         /\ RowFits(o, win)
         /\ win.expiresAt # Forever =>
              \A p \in Orders \ {o}: \A h \in Grants: Active(p, h) =>
                ent[p][h].expiresAt # Forever /\ ent[p][h].expiresAt <= win.startsAt
  BY <1>1, <1>5 DEF JobFits, InsertFits
<1>7. Exists(o, n)' /\ \A p \in Orders : \A h \in Grants :
        /\ Exists(p, h) => ent'[p][h] = ent[p][h] /\ Exists(p, h)'
        /\ p # o => ent'[p][h] = ent[p][h]
  BY <1>1, <1>2 DEF Exists
<1>8. Whole'
  <2> SUFFICES ASSUME NEW p \in Orders
               PROVE  \/ AllExist(p)' \/ NoneExist(p)'
                      \/ \E v \in Workers: Inserts(job'[v]) /\ job'[v].order = p
    BY DEF Whole, Inserts
  <2>1. CASE p # o
    <3>1. AllExist(p) \/ NoneExist(p)
      <4>1. \A v \in Workers : Inserts(job[v]) => v = w
        BY <1>4, Alone DEF Calm, Inserts, Section
      <4>2. QED
        BY <1>1, <1>5, <2>1, <4>1 DEF Whole
    <3>2. QED
      BY <1>7, <2>1, <3>1 DEF AllExist, NoneExist, Exists
  <2>2. CASE p = o /\ n < NumGrants
    <3>1. job'[w] = j
      BY <1>3 DEF TypeInv, TypeOK
    <3>2. QED
      BY <1>3, <2>2, <3>1 DEF Inserts
  <2>3. CASE p = o /\ ~(n < NumGrants)
    <3>1. \A g \in Grants : g = n \/ g < n
      BY <1>1, <2>3, BoundsAreNat DEF Grants
    <3>2. QED
      BY <1>1, <1>7, <2>3, <3>1 DEF AllExist
  <2>4. QED
    BY <2>1, <2>2, <2>3
<1>9. j.now <= now
  BY <1>3, <1>5, DaysAreNat DEF JobFits, TypeInv, TypeOK
<1>10. CASE AllExist(o)
  <2>1. \A p \in Orders : \A h \in Grants : ent'[p][h] = ent[p][h]
    BY <1>2, <1>10 DEF AllExist
  <2>2. RowsPacked'
    BY <1>4, <1>5, <2>1 DEF RowsPacked, SameWindow, FullWindows, Apart, RowFits, Active, Finite
  <2>3. AllExist(o)'
    BY <1>10, <2>1 DEF AllExist, Exists
  <2>4. JobFits(j)'
    BY <1>3, <1>4, <1>9, <2>3 DEF JobFits, InsertFits
  <2>5. QED
    BY <1>1, <1>3, <1>4, <1>8, <2>2, <2>4, SectionStep
<1>11. CASE ~AllExist(o)
  <2>0. ~Exists(o, n)
    <3>1. ~(n < n)
      BY BoundsAreNat DEF Grants
    <3>2. QED
      BY <1>6, <1>11, <3>1
  <2>1. \A p \in Orders : \A h \in Grants :
          ent'[p][h] = IF p = o /\ h = n THEN r ELSE ent[p][h]
    BY <1>2, <2>0
  <2>2. \A g \in Grants: Active(o, g)' =>
          ent'[o][g].startsAt = win.startsAt /\ ent'[o][g].expiresAt = win.expiresAt
    BY <1>2, <1>6, <1>11, <2>1 DEF Active
  <2>3. \A p \in Orders \ {o} : \A h \in Grants :
          ent'[p][h] = ent[p][h] /\ (Active(p, h)' <=> Active(p, h))
    BY <2>1 DEF Active
  <2>4. SameWindow'
    <3> SUFFICES ASSUME NEW p \in Orders, NEW g \in Grants, NEW h \in Grants,
                        Active(p, g)', Active(p, h)'
                 PROVE  /\ ent'[p][g].startsAt = ent'[p][h].startsAt
                        /\ ent'[p][g].expiresAt = ent'[p][h].expiresAt
      BY DEF SameWindow
    <3>1. CASE p = o
      BY <2>2, <3>1
    <3>2. CASE p # o
      BY <1>5, <2>3, <3>2 DEF RowsPacked, SameWindow
    <3>3. QED
      BY <3>1, <3>2
  <2>5. FullWindows'
    <3> SUFFICES ASSUME NEW p \in Orders, NEW g \in Grants, Active(p, g)'
                 PROVE  RowFits(p, ent[p][g])'
      BY DEF FullWindows
    <3>1. CASE p = o
      BY <1>4, <1>6, <1>11, <2>2, <3>1 DEF RowFits
    <3>2. CASE p # o
      BY <1>4, <1>5, <2>3, <3>2 DEF RowsPacked, FullWindows, RowFits
    <3>3. QED
      BY <3>1, <3>2
  <2>6. Apart'
    <3>1. ASSUME NEW p \in Orders \ {o}, NEW g \in Grants, NEW h \in Grants,
                 Finite(o, g)', Finite(p, h)'
          PROVE  Ahead(Durations[p], ent'[p][h].startsAt, ent'[o][g].startsAt)
      <4>1. Active(o, g)' /\ ent'[o][g].expiresAt # Forever /\ Active(p, h)'
        BY <3>1 DEF Finite
      <4>2. ent'[o][g].startsAt = win.startsAt /\ win.expiresAt # Forever
        BY <2>2, <4>1
      <4>3. Active(p, h) /\ ent'[p][h] = ent[p][h]
        BY <2>3, <4>1
      <4>4. PICK row \in Row : row = ent[p][h]
        BY DEF TypeInv, TypeOK
      <4>5. row.expiresAt # Forever /\ row.expiresAt <= win.startsAt
        BY <1>6, <1>11, <4>2, <4>3, <4>4
      <4>6. RowFits(p, row)
        BY <1>5, <4>3, <4>4 DEF RowsPacked, FullWindows
      <4>7. /\ Durations[p] \in Presets /\ Durations[p] # Lifetime
            /\ row.startsAt \in Nat /\ win.startsAt \in Nat
            /\ ExpiresAt(Durations[p], row.startsAt) <= win.startsAt
        BY <4>5, <4>6, DurationsArePresets DEF RowFits, Row, Window
      <4>8. Ahead(Durations[p], row.startsAt, win.startsAt)
        BY <4>7, AheadOf
      <4>9. QED
        BY <4>2, <4>3, <4>4, <4>8
    <3>2. ASSUME NEW p \in Orders \ {o}, NEW q \in Orders \ {o}, p # q,
                 NEW g \in Grants, NEW h \in Grants, Finite(p, g)', Finite(q, h)'
          PROVE  \/ Ahead(Durations[p], ent'[p][g].startsAt, ent'[q][h].startsAt)
                 \/ Ahead(Durations[q], ent'[q][h].startsAt, ent'[p][g].startsAt)
      BY <1>5, <2>3, <3>2 DEF RowsPacked, Apart, Finite
    <3>3. QED
      BY <3>1, <3>2 DEF Apart
  <2>7. InsertFits(j)'
    <3> SUFFICES ASSUME Inserts(j) PROVE InsertFits(j)'
      BY DEF InsertFits, Inserts
    <3>1. j.next = n + 1 /\ j.window = win /\ j.order = o
      BY <1>3 DEF Inserts
    <3>2. \A g \in Grants: Exists(o, g)' => g < n + 1
      <4> SUFFICES ASSUME NEW g \in Grants, Exists(o, g)' PROVE g < n + 1
        OBVIOUS
      <4>1. g = n \/ g < n
        BY <1>6, <1>11, <2>1 DEF Exists
      <4>2. QED
        BY <4>1, BoundsAreNat DEF Grants
    <3>3. RowFits(o, win)'
      BY <1>4, <1>6, <1>11 DEF RowFits
    <3>4. win.expiresAt # Forever =>
            \A p \in Orders \ {o}: \A h \in Grants: Active(p, h)' =>
              ent'[p][h].expiresAt # Forever /\ ent'[p][h].expiresAt <= win.startsAt
      BY <1>6, <1>11, <2>3
    <3>5. QED
      BY <2>2, <3>1, <3>2, <3>3, <3>4 DEF InsertFits
  <2>8. JobFits(j)'
    BY <1>3, <1>4, <1>9, <2>7 DEF JobFits
  <2>9. QED
    BY <1>1, <1>3, <1>4, <1>8, <2>4, <2>5, <2>6, <2>8, SectionStep DEF RowsPacked
<1>12. QED
  BY <1>10, <1>11

\* While the rows are packed, a group has the window of every row of its order.
LEMMA RowsOfGroup ==
  ASSUME TypeInv, SameWindow
  PROVE  \A o \in Orders : \A g \in Grants : Active(o, g) =>
           \E G \in Groups : /\ G.order = o /\ G.startsAt = ent[o][g].startsAt
                             /\ G.expiresAt = ent[o][g].expiresAt
<1> SUFFICES ASSUME NEW o \in Orders, NEW g \in Grants, Active(o, g)
             PROVE  \E G \in Groups : /\ G.order = o /\ G.startsAt = ent[o][g].startsAt
                                      /\ G.expiresAt = ent[o][g].expiresAt
  OBVIOUS
<1>1. PICK G \in Groups : G.order = o
  BY GroupsAre
<1>2. PICK h \in Grants : /\ Active(o, h) /\ G.startsAt = ent[o][h].startsAt
                          /\ G.expiresAt = ent[o][h].expiresAt
  BY <1>1, GroupsAre
<1>3. QED
  BY <1>1, <1>2 DEF SameWindow

\* Packed rows make packed groups.
LEMMA GroupsArePacked ==
  ASSUME TypeInv, RowsPacked
  PROVE  PackedGroups(Groups, now)
<1>1. \A G \in Groups : G.order \in Orders /\ \E g \in Grants :
        /\ Active(G.order, g) /\ G.startsAt = ent[G.order][g].startsAt
        /\ G.expiresAt = ent[G.order][g].expiresAt
  BY GroupsAre
<1>2. GroupsOf(Groups)
  BY GroupsAre
<1>3. ASSUME NEW G \in Groups
      PROVE  /\ G.expiresAt = Forever => G.startsAt <= now
             /\ G.expiresAt # Forever =>
                  /\ G.duration # Lifetime
                  /\ G.expiresAt = ExpiresAt(G.duration, G.startsAt)
  <2>1. G.duration = Durations[G.order] /\ G \in PurchaseGroup
    BY <1>2 DEF GroupsOf
  <2>2. G.startsAt \in Nat /\ G.duration \in Presets
    BY <2>1 DEF PurchaseGroup
  <2>3. \/ G.expiresAt = Forever /\ G.startsAt <= now
        \/ G.duration # Lifetime /\ G.expiresAt = ExpiresAt(G.duration, G.startsAt)
    BY <1>1, <2>1 DEF RowsPacked, FullWindows, RowFits
  <2>4. G.duration # Lifetime => G.startsAt + 28 <= ExpiresAt(G.duration, G.startsAt)
    BY <2>2, ExpiryOf
  <2>5. QED
    BY <2>2, <2>3, <2>4 DEF Forever
<1>4. ASSUME NEW G \in Groups, NEW H \in Groups, G # H, G.expiresAt # Forever,
             H.expiresAt # Forever
      PROVE  \/ Ahead(G.duration, G.startsAt, H.startsAt)
             \/ Ahead(H.duration, H.startsAt, G.startsAt)
  <2>1. G.order # H.order /\ G.order \in Orders /\ H.order \in Orders
    BY <1>4, GroupsAre
  <2>2. PICK g \in Grants :
        /\ Active(G.order, g) /\ G.startsAt = ent[G.order][g].startsAt
        /\ G.expiresAt = ent[G.order][g].expiresAt
    BY <1>1
  <2>3. PICK h \in Grants :
        /\ Active(H.order, h) /\ H.startsAt = ent[H.order][h].startsAt
        /\ H.expiresAt = ent[H.order][h].expiresAt
    BY <1>1
  <2>4. Finite(G.order, g) /\ Finite(H.order, h)
    BY <1>4, <2>2, <2>3 DEF Finite
  <2>5. \/ Ahead(Durations[G.order], ent[G.order][g].startsAt, ent[H.order][h].startsAt)
        \/ Ahead(Durations[H.order], ent[H.order][h].startsAt, ent[G.order][g].startsAt)
    BY <2>1, <2>4 DEF RowsPacked, Apart
  <2>6. G.duration = Durations[G.order] /\ H.duration = Durations[H.order]
    BY <1>2 DEF GroupsOf
  <2>7. QED
    BY <2>2, <2>3, <2>5, <2>6
<1>5. \A G, H \in Groups : G.order = H.order => G = H
  BY GroupsAre
<1>6. QED
  BY <1>2, <1>3, <1>4, <1>5 DEF PackedGroups

\* The plans of a re-anchor fit the rows they are made from.
LEMMA PlansFitRows ==
  ASSUME TypeInv, RowsPacked, Reanchor(Groups, now) # <<>>
  PROVE  PlansFit(Reanchor(Groups, now))
<1>1. PackedGroups(Groups, now) /\ now \in Nat
  BY GroupsArePacked, DaysAreNat DEF TypeInv, TypeOK
<1>2. PICK v : Walked(Groups, v, now) /\ Reanchor(Groups, now) = v.plans
  BY <1>1, ReanchorIsWalked
<1>3. PICK P \in Seq(Plan) : P = v.plans /\ P = Reanchor(Groups, now)
  BY <1>2 DEF Walked, WalkState
<1>4. v.done = FALSE
  BY <1>2, <1>3 DEF Walked, WalkState, Endless
<1>5. \A G \in Groups : G.expiresAt # Forever
  BY <1>2, <1>4 DEF Walked, AtCursor
<1>6. \A o \in Orders : \A g \in Grants : Active(o, g) =>
           \E G \in Groups : /\ G.order = o /\ G.startsAt = ent[o][g].startsAt
                             /\ G.expiresAt = ent[o][g].expiresAt
  BY RowsOfGroup DEF RowsPacked
<1>7. \A G, H \in Groups : G.order = H.order => G = H
  BY <1>1 DEF PackedGroups
<1>8. \A o \in Orders: \A g \in Grants: Active(o, g) => ent[o][g].expiresAt # Forever
  BY <1>5, <1>6
<1>9. InOrder(P)
  BY <1>2, <1>3 DEF Walked
<1>10. ASSUME NEW i \in DOMAIN P
       PROVE  /\ Durations[P[i].order] # Lifetime
              /\ \A g \in Grants: Active(P[i].order, g) =>
                   ent[P[i].order][g].startsAt = P[i].previousStartsAt
  <2>1. PICK G \in Groups : G.order = P[i].order /\ G.startsAt = P[i].previousStartsAt
    BY <1>2, <1>3 DEF Walked, OfWaiting
  <2>2. G.duration # Lifetime /\ G.duration = Durations[G.order] /\ G.order \in Orders
    BY <1>1, <1>5, GroupsAre DEF PackedGroups, GroupsOf
  <2>3. QED
    BY <1>6, <1>7, <2>1, <2>2
<1>11. ASSUME NEW i \in DOMAIN P, NEW q \in Orders, NEW h \in Grants, Active(q, h),
              ~PlannedIn(P, q)
       PROVE  \/ ent[q][h].expiresAt <= P[i].startsAt
              \/ P[i].previousStartsAt <= ent[q][h].startsAt
  <2>1. PICK G \in Groups : /\ G.order = q /\ G.startsAt = ent[q][h].startsAt
                            /\ G.expiresAt = ent[q][h].expiresAt
    BY <1>6, <1>11
  <2>2. Clear(Groups, P)
    BY <1>2, <1>3 DEF Walked
  <2>3. QED
    BY <1>5, <1>11, <2>1, <2>2 DEF Clear
<1>12. PlansFit(P)
  BY <1>8, <1>9, <1>10, <1>11 DEF PlansFit
<1>13. QED
  BY <1>3, <1>12

\* Planning writes no row.
LEMMA PlanMovesPacked ==
  ASSUME IInv, TypeInv, PackedInv, Calm, NEW w \in Workers, PlanMoves(w)
  PROVE  PackedInv'
<1>1. PICK j \in Job, plans \in Seq(Plan) :
           /\ plans = Reanchor(Groups, now)
           /\ job' = [job EXCEPT ![w] = j]
           /\ j.now = job[w].now /\ j.plans = plans
           /\ j.at = IF plans = <<>> THEN "unlock" ELSE "apply"
  BY PlannedMoves
<1>2. /\ job[w].at = "plan" /\ UNCHANGED <<now, ent>>
      /\ RowsPacked /\ Whole /\ JobFits(job[w])
  BY DEF PlanMoves, PackedInv
<1>3. \A v \in Workers : ~Inserts(job[v])
  BY <1>2, Alone DEF Calm, Inserts, Section
<1>4. RowsPacked'
  BY <1>2 DEF RowsPacked, SameWindow, FullWindows, Apart, RowFits, Active, Finite
<1>5. Whole'
  BY <1>2, <1>3 DEF Whole, AllExist, NoneExist, Exists
<1>6. j.at = "apply" => PlansFit(plans)
  BY <1>1, <1>2, PlansFitRows
<1>7. j.at # "insert" /\ j.now <= now
  BY <1>1, <1>2 DEF JobFits
<1>8. PlansFit(plans) => PlansFit(plans)'
  BY <1>2 DEF PlansFit, Active
<1>9. JobFits(j)'
  BY <1>1, <1>2, <1>6, <1>7, <1>8 DEF JobFits, InsertFits, Inserts
<1>10. QED
  BY <1>1, <1>2, <1>4, <1>5, <1>9, SectionStep DEF Section

\* What is left of some plans after the first one.
LEMMA PlansLeft ==
  ASSUME NEW P \in Seq(Plan), P # <<>>, NEW Q, Q = Tail(P)
  PROVE  /\ Q \in Seq(Plan) /\ (Len(P) > 1 \/ Q = <<>>)
         /\ \A k \in DOMAIN Q: k \in Nat \ {0} /\ k + 1 \in DOMAIN P /\ Q[k] = P[k + 1]
         /\ \A q : PlannedIn(P, q) => q = P[1].order \/ PlannedIn(Q, q)
<1>1. Q \in Seq(Plan) /\ Len(P) \in Nat /\ Len(Q) = Len(P) - 1
  OBVIOUS
<1>2. \A k \in 1..Len(Q) : Q[k] = P[k + 1]
  BY <1>1
<1>3. DOMAIN Q = 1..Len(Q) /\ DOMAIN P = 1..Len(P)
  BY <1>1
<1>4. ASSUME NEW q, NEW i \in DOMAIN P, P[i].order = q, i # 1 PROVE PlannedIn(Q, q)
  <2>1. i - 1 \in DOMAIN Q /\ i - 1 + 1 = i
    BY <1>1, <1>3, <1>4
  <2>2. Q[i - 1] = P[i]
    BY <1>2, <1>3, <2>1
  <2>3. QED
    BY <1>4, <2>1, <2>2 DEF PlannedIn
<1>5. Len(P) > 1 \/ Q = <<>>
  BY <1>1
<1>6. QED
  BY <1>1, <1>2, <1>3, <1>4, <1>5 DEF PlannedIn

\* Carrying out a move leaves room around the rows, and for the other moves.
LEMMA ApplyMovePacked ==
  ASSUME IInv, TypeInv, PackedInv, Calm, NEW w \in Workers, ApplyMove(w)
  PROVE  PackedInv'
<1>1. PICK j \in Job, plan \in Plan, P \in Seq(Plan) :
           /\ P = job[w].plans /\ P # <<>> /\ plan = P[1] /\ MovesEarlier(plan)
           /\ \A q \in Orders : \A g \in Grants :
                ent'[q][g] = IF /\ q = plan.order /\ Active(q, g)
                                /\ ent[q][g].startsAt = plan.previousStartsAt
                               THEN [status |-> "ACTIVE", startsAt |-> plan.startsAt,
                                     expiresAt |-> plan.expiresAt]
                               ELSE ent[q][g]
           /\ job' = [job EXCEPT ![w] = j]
           /\ j.now \in {0, job[w].now}
           /\ IF Len(P) > 1 THEN j.at = "apply" /\ j.plans = Tail(P)
                            ELSE j.at = "unlock" /\ j.plans = <<>>
  BY MoveApplied
<1>2. /\ job[w].at = "apply" /\ UNCHANGED now
      /\ RowsPacked /\ Whole /\ JobFits(job[w])
  BY DEF ApplyMove, PackedInv
<1>3. PICK o \in Orders : o = plan.order
  BY DEF Plan
<1>4. /\ plan.startsAt \in Nat /\ plan.previousStartsAt \in Nat /\ 1 \in DOMAIN P
      /\ Durations[o] \in Presets
  BY <1>1, DurationsArePresets DEF Plan
<1>5. /\ \A q \in Orders: \A g \in Grants: Active(q, g) => ent[q][g].expiresAt # Forever
      /\ InOrder(P)
      /\ \A i \in DOMAIN P:
           /\ Durations[P[i].order] # Lifetime
           /\ \A g \in Grants: Active(P[i].order, g) =>
                ent[P[i].order][g].startsAt = P[i].previousStartsAt
      /\ \A i \in DOMAIN P: \A q \in Orders: \A h \in Grants:
           Active(q, h) /\ ~PlannedIn(P, q) =>
             \/ ent[q][h].expiresAt <= P[i].startsAt
             \/ P[i].previousStartsAt <= ent[q][h].startsAt
  BY <1>1, <1>2 DEF JobFits, PlansFit
<1>6. /\ Durations[o] # Lifetime
      /\ plan.expiresAt = ExpiresAt(Durations[o], plan.startsAt)
      /\ plan.startsAt < plan.previousStartsAt
      /\ \A g \in Grants: Active(o, g) => ent[o][g].startsAt = plan.previousStartsAt
  BY <1>1, <1>3, <1>4, <1>5 DEF MovesEarlier
<1>7. \A q \in Orders : \A g \in Grants :
        ent'[q][g] = IF q = o /\ Active(q, g)
                       THEN [status |-> "ACTIVE", startsAt |-> plan.startsAt,
                             expiresAt |-> plan.expiresAt]
                       ELSE ent[q][g]
  BY <1>1, <1>3, <1>6
<1>8. \A q \in Orders : \A g \in Grants :
        /\ Active(q, g)' <=> Active(q, g)
        /\ Exists(q, g)' <=> Exists(q, g)
        /\ q # o => ent'[q][g] = ent[q][g]
        /\ q = o /\ Active(q, g) => /\ ent'[q][g].startsAt = plan.startsAt
                                    /\ ent'[q][g].expiresAt = plan.expiresAt
  BY <1>7 DEF Active, Exists
<1>9. ASSUME NEW q \in Orders, NEW g \in Grants, Active(q, g)
      PROVE  /\ ent[q][g].startsAt \in Nat /\ Durations[q] \in Presets \ {Lifetime}
             /\ ent[q][g].expiresAt = ExpiresAt(Durations[q], ent[q][g].startsAt)
  <2>1. PICK r \in Row : r = ent[q][g]
    BY DEF TypeInv, TypeOK
  <2>2. r.startsAt \in Nat /\ r.expiresAt # Forever /\ Durations[q] \in Presets
    BY <1>5, <1>9, <2>1, DurationsArePresets DEF Row
  <2>3. RowFits(q, r)
    BY <1>2, <1>9, <2>1 DEF RowsPacked, FullWindows
  <2>4. QED
    BY <2>1, <2>2, <2>3 DEF RowFits
<1>10. SameWindow'
  BY <1>2, <1>8 DEF RowsPacked, SameWindow
<1>11. FullWindows'
  <2> SUFFICES ASSUME NEW q \in Orders, NEW g \in Grants, Active(q, g)'
               PROVE  RowFits(q, ent[q][g])'
    BY DEF FullWindows
  <2>1. CASE q = o
    BY <1>6, <1>8, <2>1 DEF RowFits
  <2>2. CASE q # o
    BY <1>2, <1>8, <2>2 DEF RowsPacked, FullWindows, RowFits
  <2>3. QED
    BY <2>1, <2>2
<1>12. ASSUME NEW g \in Grants, NEW q \in Orders \ {o}, NEW h \in Grants,
              Active(o, g), Active(q, h)
       PROVE  \/ Ahead(Durations[q], ent[q][h].startsAt, plan.startsAt)
              \/ Ahead(Durations[o], plan.startsAt, ent[q][h].startsAt)
  <2>0. /\ ent[q][h].startsAt \in Nat
        /\ Durations[q] \in Presets /\ Durations[q] # Lifetime
        /\ ent[q][h].expiresAt = ExpiresAt(Durations[q], ent[q][h].startsAt)
    BY <1>9, <1>12
  <2>1. CASE ent[q][h].expiresAt <= plan.startsAt
    BY <1>4, <2>0, <2>1, AheadOf
  <2>2. CASE ~(ent[q][h].expiresAt <= plan.startsAt)
    <3>1. plan.previousStartsAt <= ent[q][h].startsAt
      <4>1. CASE PlannedIn(P, q)
        <5>1. PICK i \in DOMAIN P : P[i].order = q
          BY <4>1 DEF PlannedIn
        <5>2. 1 < i /\ P[i].previousStartsAt \in Nat
          <6>1. i # 1 /\ i \in Nat /\ i >= 1 /\ P[i] \in Plan
            BY <1>1, <1>3, <5>1
          <6>2. QED
            BY <6>1 DEF Plan
        <5>3. P[1].previousStartsAt < P[i].previousStartsAt
          BY <1>4, <1>5, <5>2 DEF InOrder
        <5>4. ent[q][h].startsAt = P[i].previousStartsAt
          BY <1>5, <1>12, <5>1
        <5>5. QED
          BY <1>1, <1>4, <5>2, <5>3, <5>4
      <4>2. CASE ~PlannedIn(P, q)
        BY <1>1, <1>4, <1>5, <1>12, <2>2, <4>2
      <4>3. QED
        BY <4>1, <4>2
    <3>2. ent[o][g].startsAt = plan.previousStartsAt
      BY <1>6, <1>12
    <3>3. \/ Ahead(Durations[o], plan.previousStartsAt, ent[q][h].startsAt)
          \/ Ahead(Durations[q], ent[q][h].startsAt, plan.previousStartsAt)
      BY <1>2, <1>5, <1>12, <3>2 DEF RowsPacked, Apart, Finite
    <3>4. ~Ahead(Durations[q], ent[q][h].startsAt, plan.previousStartsAt)
      <4>1. ~(ent[q][h].startsAt < plan.previousStartsAt)
        BY <1>4, <2>0, <3>1
      <4>2. QED
        BY <1>4, <2>0, <4>1, AheadOf
    <3>5. plan.startsAt <= plan.previousStartsAt /\ ent[q][h].startsAt <= ent[q][h].startsAt
      BY <1>4, <1>6, <2>0
    <3>6. QED
      BY <1>4, <1>6, <2>0, <3>3, <3>4, <3>5, AheadOf
  <2>3. QED
    BY <2>1, <2>2
<1>13. Apart'
  <2>1. ASSUME NEW q \in Orders \ {o}, NEW g \in Grants, NEW h \in Grants,
               Finite(o, g)', Finite(q, h)'
        PROVE  \/ Ahead(Durations[q], ent'[q][h].startsAt, ent'[o][g].startsAt)
               \/ Ahead(Durations[o], ent'[o][g].startsAt, ent'[q][h].startsAt)
    <3>1. Active(o, g) /\ Active(q, h)
      BY <1>8, <2>1 DEF Finite
    <3>2. QED
      BY <1>8, <1>12, <3>1
  <2>2. ASSUME NEW p \in Orders \ {o}, NEW q \in Orders \ {o}, p # q,
               NEW g \in Grants, NEW h \in Grants, Finite(p, g)', Finite(q, h)'
        PROVE  \/ Ahead(Durations[p], ent'[p][g].startsAt, ent'[q][h].startsAt)
               \/ Ahead(Durations[q], ent'[q][h].startsAt, ent'[p][g].startsAt)
    BY <1>2, <1>8, <2>2 DEF RowsPacked, Apart, Finite
  <2>3. QED
    BY <2>1, <2>2 DEF Apart
<1>14. Whole'
  <2>1. \A v \in Workers : ~Inserts(job[v])
    BY <1>2, Alone DEF Calm, Inserts, Section
  <2>2. \A q \in Orders : AllExist(q) \/ NoneExist(q)
    BY <1>2, <2>1 DEF Whole
  <2>3. QED
    BY <1>8, <2>2 DEF Whole, AllExist, NoneExist
<1>15. j.at = "apply" => PlansFit(j.plans)'
  <2> SUFFICES ASSUME j.at = "apply" PROVE PlansFit(j.plans)'
    OBVIOUS
  <2>1. PICK Q : Q = Tail(P) /\ Q = j.plans /\ Len(P) > 1
    BY <1>1
  <2>2. /\ Q \in Seq(Plan)
        /\ \A k \in DOMAIN Q: k \in Nat \ {0} /\ k + 1 \in DOMAIN P /\ Q[k] = P[k + 1]
        /\ \A q : PlannedIn(P, q) => q = o \/ PlannedIn(Q, q)
    BY <1>1, <1>3, <2>1, PlansLeft
  <2>3. \A q \in Orders: \A g \in Grants: Active(q, g)' => ent'[q][g].expiresAt # Forever
    <3>1. plan.expiresAt # Forever
      <4>1. /\ plan.startsAt + 28 <= ExpiresAt(Durations[o], plan.startsAt)
            /\ ExpiresAt(Durations[o], plan.startsAt) \in Nat
        BY <1>4, <1>6, ExpiryOf
      <4>2. QED
        BY <1>4, <1>6, <4>1 DEF Forever
    <3>2. QED
      BY <1>5, <1>8, <3>1
  <2>4. InOrder(Q)
    <3> SUFFICES ASSUME NEW k \in DOMAIN Q, NEW l \in DOMAIN Q, k < l
                 PROVE  /\ Q[k].order # Q[l].order
                        /\ Q[k].expiresAt <= Q[l].startsAt
                        /\ Q[k].previousStartsAt < Q[l].previousStartsAt
      BY DEF InOrder
    <3>1. /\ k + 1 \in DOMAIN P /\ l + 1 \in DOMAIN P /\ k + 1 < l + 1
          /\ Q[k] = P[k + 1] /\ Q[l] = P[l + 1]
      BY <2>2
    <3>2. QED
      BY <1>5, <3>1 DEF InOrder
  <2>5. ASSUME NEW k \in DOMAIN Q
        PROVE  /\ Q[k].order # o /\ plan.expiresAt <= Q[k].startsAt /\ Q[k].order \in Orders
               /\ \E i \in DOMAIN P : Q[k] = P[i]
    <3>1. 1 < k + 1 /\ k + 1 \in DOMAIN P /\ Q[k] = P[k + 1]
      BY <2>2
    <3>2. Q[k] \in Plan
      BY <2>2
    <3>3. QED
      BY <1>1, <1>3, <1>4, <1>5, <3>1, <3>2, SMTT(30) DEF InOrder, Plan
  <2>6. ASSUME NEW k \in DOMAIN Q
        PROVE  /\ Durations[Q[k].order] # Lifetime
               /\ \A g \in Grants: Active(Q[k].order, g)' =>
                    ent'[Q[k].order][g].startsAt = Q[k].previousStartsAt
    BY <1>5, <1>8, <2>5
  <2>7. ASSUME NEW k \in DOMAIN Q, NEW q \in Orders, NEW h \in Grants, Active(q, h)',
               ~PlannedIn(Q, q)
        PROVE  \/ ent'[q][h].expiresAt <= Q[k].startsAt
               \/ Q[k].previousStartsAt <= ent'[q][h].startsAt
    <3>1. CASE q = o
      BY <1>8, <2>5, <2>7, <3>1
    <3>2. CASE q # o
      <4>1. ~PlannedIn(P, q) /\ Active(q, h) /\ ent'[q][h] = ent[q][h]
        BY <1>8, <2>2, <2>7, <3>2
      <4>2. QED
        BY <1>5, <2>5, <4>1
    <3>3. QED
      BY <3>1, <3>2
  <2>8. PlansFit(Q)'
    BY <2>3, <2>4, <2>6, <2>7 DEF PlansFit
  <2>9. QED
    BY <2>1, <2>8
<1>16. j.now <= now
  BY <1>1, <1>2, DaysAreNat DEF JobFits, TypeInv, TypeOK
<1>17. j.at # "insert"
  BY <1>1
<1>18. JobFits(j)'
  BY <1>2, <1>15, <1>16, <1>17 DEF JobFits, InsertFits, Inserts
<1>19. QED
  BY <1>1, <1>2, <1>10, <1>11, <1>13, <1>14, <1>18, SectionStep DEF RowsPacked, Section

\* Nothing that was lost or outlived is forgotten.
LEMMA HistoryGrows ==
  ASSUME TypeInv, Next
  PROVE  lost \subseteq lost' /\ (overruns' = 0 => overruns = 0)
<1>1. CASE Tick
  BY <1>1 DEF Tick, history
<1>2. CASE LeaseEnds
  BY <1>2 DEF LeaseEnds, TypeInv, TypeOK
<1>3. CASE \E w \in Workers : Start(w)
  BY <1>3 DEF Start, StartProvision, ClaimRefund, AdminRevoke, history
<1>4. CASE \E w \in Workers : Step(w)
  BY <1>4 DEF Step, AcquireLock, ReleaseLock, ExitSection, FindWindow, InsertGrant, SaveProvisioned,
              FindRows, RevokeRow, PlanMoves, ApplyMove, MarkRefunded, history
<1>5. CASE \E w \in Workers : LockBusy(w) \/ Abort(w)
  BY <1>5 DEF LockBusy, Abort
<1>6. CASE \E a \in Admins : AdminGrant(a) \/ RevokeGrant(a)
  BY <1>6 DEF AdminGrant, RevokeGrant, history
<1>7. QED
  BY <1>1, <1>2, <1>3, <1>4, <1>5, <1>6 DEF Next

\* A worker's step is quiet for the others.
LEMMA QuietWorker ==
  ASSUME TypeInv, TypeInv', PackedInv, QuietRows, now <= now', Calm' => Calm,
         NEW w \in Workers, NEW j, job' = [job EXCEPT ![w] = j],
         ~Inserts(job[w]), j.at \notin {"insert", "apply"}, j.now <= now'
  PROVE  PackedInv'
<1>1. job \in [Workers -> Job]
  BY DEF TypeInv, TypeOK
<1>2. \A v \in Workers : job'[v] = job[v] \/ QuietMove(v)
  BY <1>1 DEF QuietMove
<1>3. QED
  BY <1>2, QuietStep

\* The job that goes on at another point, seen from the windows.
LEMMA QuietGoto ==
  ASSUME TypeInv, TypeInv', PackedInv, UNCHANGED <<now, ent>>, Calm' => Calm, Calm,
         NEW w \in Workers, NEW point, Goto(w, point), ~Inserts(job[w]),
         point \notin {"insert", "apply"}
  PROVE  PackedInv'
<1>1. PICK i \in Job : i = job[w]
  BY DEF TypeInv, TypeOK
<1>2. PICK j : j = [i EXCEPT !.at = point]
  OBVIOUS
<1>3. job' = [job EXCEPT ![w] = j]
  BY <1>1, <1>2 DEF Goto, TypeInv, TypeOK
<1>4. j.at = point /\ j.now = i.now
  BY <1>2 DEF Job
<1>5. j.now <= now' /\ now <= now' /\ QuietRows
  BY <1>1, <1>4, DaysAreNat DEF PackedInv, JobFits, QuietRows, TypeInv, TypeOK
<1>6. QED
  BY <1>3, <1>4, <1>5, QuietWorker

\* A job that is over.
LEMMA QuietReturn ==
  ASSUME TypeInv, TypeInv', PackedInv, UNCHANGED <<now, ent>>, Calm' => Calm,
         NEW w \in Workers, Return(w), ~Inserts(job[w])
  PROVE  PackedInv'
<1>1. PICK j : j = Idle /\ j.at = "start" /\ j.now = 0
  BY IdleType
<1>2. job' = [job EXCEPT ![w] = j]
  BY <1>1 DEF Return
<1>3. j.now <= now' /\ now <= now' /\ QuietRows
  BY <1>1, DaysAreNat DEF QuietRows, TypeInv, TypeOK
<1>4. QED
  BY <1>1, <1>2, <1>3, QuietWorker

\* A request that starts writes no window.
LEMMA StartPacked ==
  ASSUME TypeInv, TypeInv', PackedInv, Calm' => Calm, NEW w \in Workers, Start(w)
  PROVE  PackedInv'
<1>1. PICK k \in Job : k = Idle /\ k.op = "none" /\ k.at = "start" /\ k.now = 0
  BY IdleType
<1>2. PICK o \in Orders :
        \/ StartProvision(w, o) \/ ClaimRefund(w, o)
        \/ \E g \in Grants: AdminRevoke(w, o, g)
  BY DEF Start
<1>3. PICK j : /\ Begin(w, j)
               /\ \/ j = [k EXCEPT !.op = "provision", !.at = "lock", !.order = o, !.now = now]
                  \/ j = [k EXCEPT !.op = "refund", !.order = o]
                  \/ j = [k EXCEPT !.op = "revoke", !.at = "lock"]
  BY <1>1, <1>2 DEF StartProvision, ClaimRefund, AdminRevoke
<1>4. j.at \in {"lock", "start"} /\ j.now \in {0, now}
  BY <1>1, <1>3 DEF Job
<1>5. UNCHANGED now
  BY <1>2 DEF StartProvision, ClaimRefund, AdminRevoke
<1>6. QuietRows
  <2>1. UNCHANGED ent \/ \E g \in Grants : Revoke(o, g)
    BY <1>2 DEF StartProvision, ClaimRefund, AdminRevoke
  <2>2. QED
    BY <2>1, RevokeRows DEF QuietRows
<1>7. job' = [job EXCEPT ![w] = j] /\ ~Inserts(job[w])
  BY <1>1, <1>3 DEF Begin, Inserts
<1>8. j.now <= now' /\ now <= now'
  BY <1>4, <1>5, DaysAreNat DEF TypeInv, TypeOK
<1>9. QED
  BY <1>4, <1>6, <1>7, <1>8, QuietWorker

\* A worker's own step keeps the rows packed.
LEMMA StepPacked ==
  ASSUME IInv, TypeInv, TypeInv', PackedInv, Calm' => Calm, Calm, NEW w \in Workers, Step(w)
  PROVE  PackedInv'
<1>0. job \in [Workers -> Job]
  BY DEF TypeInv, TypeOK
<1>1. CASE AcquireLock(w)
  BY <1>1, QuietGoto DEF AcquireLock, Inserts
<1>2. CASE ReleaseLock(w)
  BY <1>2, QuietGoto, QuietReturn DEF ReleaseLock, ExitSection, Inserts
<1>3. CASE SaveProvisioned(w)
  BY <1>3, QuietReturn DEF SaveProvisioned, At, Inserts
<1>4. CASE MarkRefunded(w)
  BY <1>4, QuietReturn DEF MarkRefunded, At, Inserts
<1>5. CASE FindRows(w) \/ RevokeRow(w)
  <2>1. PICK i \in Job : i = job[w] /\ i.op = "refund"
    BY <1>0, <1>5 DEF FindRows, RevokeRow, At
  <2>2. PICK rows, point :
          /\ point \in {"finish", "revoke", "lock"}
          /\ job' = [job EXCEPT ![w].todo = rows, ![w].at = point]
    BY <1>5 DEF FindRows, RevokeRow
  <2>3. PICK j : j = [i EXCEPT !.todo = rows, !.at = point]
    OBVIOUS
  <2>4. job' = [job EXCEPT ![w] = j]
    BY <1>0, <2>1, <2>2, <2>3
  <2>5. j.at = point /\ j.now = i.now
    BY <2>3 DEF Job
  <2>6. UNCHANGED now
    BY <1>5 DEF FindRows, RevokeRow
  <2>7. j.now <= now' /\ now <= now'
    BY <2>1, <2>5, <2>6, DaysAreNat DEF PackedInv, JobFits, TypeInv, TypeOK
  <2>8. QuietRows
    <3>1. UNCHANGED ent \/ \E g : Revoke(job[w].order, g)
      BY <1>5 DEF FindRows, RevokeRow
    <3>2. QED
      BY <3>1, RevokeRows DEF QuietRows
  <2>9. QED
    BY <2>1, <2>2, <2>4, <2>5, <2>7, <2>8, QuietWorker DEF Inserts
<1>6. QED
  BY <1>1, <1>2, <1>3, <1>4, <1>5, FindWindowPacked, InsertGrantPacked, PlanMovesPacked,
     ApplyMovePacked DEF Step

\* Every step keeps the rows packed, while no lease is outlived and no provisioning lost.
THEOREM NextPacked == IInv /\ TypeInv /\ PackedInv /\ [Next]_vars => PackedInv'
<1> SUFFICES ASSUME IInv, TypeInv, PackedInv, [Next]_vars, Calm' PROVE PackedInv'
  BY DEF PackedInv
<1>0. TypeInv'
  BY NextTypes
<1>1. CASE UNCHANGED vars
  <2>1. \A v \in Workers : job'[v] = job[v]
    BY <1>1 DEF vars
  <2>2. QuietRows /\ now <= now' /\ (Calm' => Calm)
    BY <1>1, DaysAreNat DEF vars, QuietRows, TypeInv, TypeOK, Calm, history
  <2>3. QED
    BY <1>0, <2>1, <2>2, QuietStep
<1>2. CASE Next
  <2>0. Calm
    BY <1>2, HistoryGrows DEF Calm
  <2>1. CASE Tick \/ LeaseEnds \/ \E a \in Admins : AdminGrant(a) \/ RevokeGrant(a)
    <3>1. QuietRows /\ now <= now'
      BY <2>1, DaysAreNat
         DEF Tick, LeaseEnds, AdminGrant, RevokeGrant, QuietRows, TypeInv, TypeOK
    <3>2. \A v \in Workers : job'[v] = job[v]
      BY <2>1 DEF Tick, LeaseEnds, AdminGrant, RevokeGrant
    <3>3. QED
      BY <1>0, <2>0, <3>1, <3>2, QuietStep
  <2>2. CASE \E w \in Workers : Start(w)
    BY <1>0, <2>0, <2>2, StartPacked
  <2>3. CASE \E w \in Workers : Step(w)
    BY <1>0, <2>0, <2>3, StepPacked
  <2>4. CASE \E w \in Workers : LockBusy(w)
    BY <1>0, <2>0, <2>4, QuietReturn DEF LockBusy, Inserts
  <2>5. CASE \E w \in Workers : Abort(w)
    <3>1. PICK w \in Workers : Abort(w)
      BY <2>5
    <3>2. job[w].op # "provision"
      BY <3>1 DEF Abort, LeavesUndone, Calm
    <3>3. QED
      BY <1>0, <2>0, <3>1, <3>2, QuietReturn DEF Abort, Inserts
  <2>6. QED
    BY <1>2, <2>1, <2>2, <2>3, <2>4, <2>5 DEF Next
<1>3. QED
  BY <1>1, <1>2

\* Without rows nothing is in the way.
LEMMA InitPacked == Init => PackedInv
<1> SUFFICES ASSUME Init PROVE RowsPacked /\ Whole /\ \A w \in Workers: JobFits(job[w])
  BY DEF PackedInv
<1>1. \A o \in Orders : \A g \in Grants : ~Exists(o, g) /\ ~Active(o, g)
  BY DEF Init, NoRow, Exists, Active
<1>2. RowsPacked /\ Whole
  BY <1>1 DEF RowsPacked, SameWindow, FullWindows, Apart, Finite, Whole, NoneExist
<1>3. ASSUME NEW w \in Workers PROVE JobFits(job[w])
  <2>1. job[w].at = "start" /\ job[w].now = 0 /\ now = 0
    BY IdleType DEF Init
  <2>2. QED
    BY <2>1 DEF JobFits, InsertFits, Inserts
<1>4. QED
  BY <1>2, <1>3

\* PackedInv holds in every reachable state.
THEOREM RowsStayPacked == Spec => []PackedInv
<1>1. QED
  BY InitPacked, NextPacked, Invariant, TypesHold, PTL DEF Spec

\* D-09: the finite windows of two orders share less than three days, and only
\* where the calendar makes a window that moved up run into the next one, while no
\* lease is outlived and no provisioning lost.
THEOREM PurchasesNeverOverlap == Spec => []NoOverlap
<1>1. TypeInv /\ PackedInv => NoOverlap
  <2> SUFFICES ASSUME TypeInv, RowsPacked, NEW o \in Orders, NEW p \in Orders,
                      NEW g \in Grants, NEW h \in Grants,
                      o # p, Finite(o, g), Finite(p, h)
               PROVE  \/ ent[o][g].expiresAt < ent[p][h].startsAt + Slip
                      \/ ent[p][h].expiresAt < ent[o][g].startsAt + Slip
    BY DEF PackedInv, Calm, NoOverlap
  <2>1. ASSUME NEW q \in Orders, NEW f \in Grants, Finite(q, f)
        PROVE  /\ Durations[q] \in Presets /\ Durations[q] # Lifetime
               /\ ent[q][f].startsAt \in Nat
               /\ ent[q][f].expiresAt = ExpiresAt(Durations[q], ent[q][f].startsAt)
    <3>1. PICK row \in Row : row = ent[q][f]
      BY DEF TypeInv, TypeOK
    <3>2. RowFits(q, row) /\ row.expiresAt # Forever
      BY <2>1, <3>1 DEF RowsPacked, FullWindows, Finite
    <3>3. QED
      BY <3>1, <3>2, DurationsArePresets DEF RowFits, Row
  <2>2. \/ Ahead(Durations[o], ent[o][g].startsAt, ent[p][h].startsAt)
        \/ Ahead(Durations[p], ent[p][h].startsAt, ent[o][g].startsAt)
    BY DEF RowsPacked, Apart
  <2>3. QED
    BY <2>1, <2>2, AheadOf
<1>2. QED
  BY <1>1, TypesHold, RowsStayPacked, PTL

-----------------------------------------------------------------------------
(* No gaps, once every revoke has re-anchored.                                *)

\* A re-anchor still has to come.
Pending(w) ==
  job[w].op \in {"refund", "revoke"} /\ job[w].at \in {"revoke", "lock", "plan"}

Settled == overruns = 0 /\ lost = {} /\ \A w \in Workers: ~Pending(w)

\* The window of the row of order q and grant h once plans P are carried out.
RowIs(P, q, h, start, end) ==
  \/ /\ ~PlannedIn(P, q)
     /\ ent[q][h].startsAt = start /\ ent[q][h].expiresAt = end
  \/ \E i \in DOMAIN P: /\ P[i].order = q
                        /\ P[i].startsAt = start /\ P[i].expiresAt = end

\* An admin's row lasts until the day, or did.
GrantLasts(day) ==
  \E a \in Admins: /\ admin[a].status # "NONE"
                   /\ Lasts(admin[a].startsAt, admin[a].expiresAt, day)

\* A purchase of order o that starts at t does not wait for nothing.
Covered(P, o, t) ==
  \/ t <= now
  \/ \E q \in Orders \ {o}: \E h \in Grants:
       Active(q, h) /\ \E start, end \in Nat:
         RowIs(P, q, h, start, end) /\ Lasts(start, end, t)
  \/ GrantLasts(t)

GapFree(P) ==
  \A o \in Orders: \A g \in Grants: Active(o, g) =>
    /\ ~PlannedIn(P, o) => Covered(P, o, ent[o][g].startsAt)
    /\ \A i \in DOMAIN P: P[i].order = o => Covered(P, o, P[i].startsAt)

GapInv ==
  Settled =>
    /\ (\A w \in Workers: job[w].at # "apply") => GapFree(<<>>)
    /\ \A w \in Workers: job[w].at = "apply" => GapFree(job[w].plans)
    /\ \A w \in Workers: Inserts(job[w]) =>
         \/ AllExist(job[w].order)
         \/ Covered(<<>>, job[w].order, job[w].window.startsAt)

\* An admin's row has started, and ends later if at all.
GrantsBegun ==
  \A a \in Admins: admin[a].status # "NONE" =>
    /\ admin[a].startsAt <= now
    /\ admin[a].expiresAt # Forever => admin[a].startsAt < admin[a].expiresAt

\* It keeps its window, also when it is revoked.
GrantsStand ==
  \A a \in Admins: admin[a].status # "NONE" =>
    /\ admin'[a].status # "NONE"
    /\ admin'[a].startsAt = admin[a].startsAt
    /\ admin'[a].expiresAt = admin[a].expiresAt

\* What admins do to their rows.
LEMMA GrantSteps ==
  ASSUME TypeInv, GrantsBegun, NEW a \in Admins, AdminGrant(a) \/ RevokeGrant(a)
  PROVE  GrantsBegun' /\ GrantsStand
<1>1. now \in Nat /\ admin \in [Admins -> Row] /\ now' = now
  BY DaysAreNat DEF TypeInv, TypeOK, AdminGrant, RevokeGrant
<1>2. CASE AdminGrant(a)
  <2>1. PICK end \in Nat : end = ExpiresAt(AdminMonths[a], now)
    BY <1>1, DurationsArePresets, ExpiryOf
  <2>2. end # Forever => now < end
    <3>1. AdminMonths[a] \in Presets
      BY DurationsArePresets
    <3>2. QED
      BY <1>1, <2>1, <3>1, ExpiryOf
  <2>3. PICK row : row = [status |-> "ACTIVE", startsAt |-> now, expiresAt |-> end]
    OBVIOUS
  <2>4. row.status = "ACTIVE" /\ row.startsAt = now /\ row.expiresAt = end
    BY <2>3
  <2>5. /\ admin[a].status = "NONE" /\ admin'[a] = row
        /\ \A b \in Admins : b # a => admin'[b] = admin[b]
    BY <1>1, <1>2, <2>1, <2>3 DEF AdminGrant
  <2>6. QED
    BY <1>1, <2>2, <2>4, <2>5 DEF GrantsBegun, GrantsStand
<1>3. CASE RevokeGrant(a)
  <2>1. PICK old \in Row : old = admin[a]
    BY <1>1
  <2>2. PICK row : row = [old EXCEPT !.status = "REVOKED"]
    OBVIOUS
  <2>3. /\ row.status = "REVOKED" /\ row.startsAt = old.startsAt
        /\ row.expiresAt = old.expiresAt
    BY <2>1, <2>2 DEF Row
  <2>4. /\ admin[a].status = "ACTIVE" /\ admin'[a] = row
        /\ \A b \in Admins : b # a => admin'[b] = admin[b]
    BY <1>1, <1>3, <2>1, <2>2 DEF RevokeGrant
  <2>5. QED
    BY <1>1, <2>1, <2>3, <2>4 DEF GrantsBegun, GrantsStand
<1>4. QED
  BY <1>2, <1>3

\* Every step leaves them so.
LEMMA GrantsKept ==
  ASSUME TypeInv, TypeInv', GrantsBegun, [Next]_vars
  PROVE  GrantsBegun' /\ GrantsStand
<1>1. CASE UNCHANGED admin /\ now <= now'
  <2>1. /\ now \in Nat /\ now' \in Nat
        /\ \A a \in Admins : admin[a].startsAt \in Nat
    BY DaysAreNat DEF TypeInv, TypeOK, Row
  <2>2. QED
    BY <1>1, <2>1 DEF GrantsBegun, GrantsStand
<1>2. now \in Nat
  BY DaysAreNat DEF TypeInv, TypeOK
<1>3. CASE Tick \/ LeaseEnds \/ UNCHANGED vars
  BY <1>1, <1>2, <1>3, DaysAreNat DEF Tick, LeaseEnds, vars
<1>4. CASE \E w \in Workers : Start(w)
  BY <1>1, <1>2, <1>4 DEF Start, StartProvision, ClaimRefund, AdminRevoke
<1>5. CASE \E w \in Workers : Step(w)
  <2>1. UNCHANGED <<now, admin>>
    BY <1>5 DEF Step, AcquireLock, ReleaseLock, ExitSection, FindWindow, InsertGrant,
                SaveProvisioned, FindRows, RevokeRow, PlanMoves, ApplyMove, MarkRefunded
  <2>2. QED
    BY <1>1, <1>2, <2>1
<1>6. CASE \E w \in Workers : LockBusy(w) \/ Abort(w)
  BY <1>1, <1>2, <1>6 DEF LockBusy, Abort
<1>7. CASE \E a \in Admins : AdminGrant(a) \/ RevokeGrant(a)
  BY <1>7, GrantSteps
<1>8. QED
  BY <1>3, <1>4, <1>5, <1>6, <1>7 DEF Next

\* Time and admins only cover more.
LEMMA CoveredOn ==
  ASSUME TypeInv, TypeInv', UNCHANGED ent, GrantsStand, now <= now', NEW P, NEW o,
         NEW t \in Nat, Covered(P, o, t)
  PROVE  Covered(P, o, t)'
<1>1. t <= now => t <= now'
  BY DaysAreNat DEF TypeInv, TypeOK
<1>2. GrantLasts(t) => GrantLasts(t)'
  BY DEF GrantLasts, GrantsStand, Lasts
<1>3. QED
  BY <1>1, <1>2 DEF Covered, RowIs, Active

\* So plans that leave no gap go on to leave none.
LEMMA GapFreeOn ==
  ASSUME TypeInv, TypeInv', UNCHANGED ent, GrantsStand, now <= now',
         NEW P \in Seq(Plan), GapFree(P)
  PROVE  GapFree(P)'
<1> SUFFICES ASSUME NEW o \in Orders, NEW g \in Grants, Active(o, g)'
             PROVE  /\ ~PlannedIn(P, o) => Covered(P, o, ent[o][g].startsAt)'
                    /\ \A i \in DOMAIN P: P[i].order = o => Covered(P, o, P[i].startsAt)'
  BY DEF GapFree
<1>1. Active(o, g)
  BY DEF Active
<1>2. ASSUME ~PlannedIn(P, o) PROVE Covered(P, o, ent[o][g].startsAt)'
  <2>1. PICK t \in Nat : t = ent[o][g].startsAt
    BY DEF TypeInv, TypeOK, Row
  <2>2. Covered(P, o, t)
    BY <1>1, <1>2, <2>1 DEF GapFree
  <2>3. Covered(P, o, t)'
    BY <2>2, CoveredOn
  <2>4. t = ent'[o][g].startsAt
    BY <2>1
  <2>5. QED
    BY <2>3, <2>4 DEF Covered, GrantLasts
<1>3. ASSUME NEW i \in DOMAIN P, P[i].order = o PROVE Covered(P, o, P[i].startsAt)'
  <2>1. PICK t \in Nat : t = P[i].startsAt
    <3>1. P[i] \in Plan
      OBVIOUS
    <3>2. QED
      BY <3>1 DEF Plan
  <2>2. Covered(P, o, t)
    BY <1>1, <1>3, <2>1 DEF GapFree
  <2>3. QED
    BY <2>1, <2>2, CoveredOn
<1>4. QED
  BY <1>2, <1>3

\* A step that writes no row and touches no job that inserts or applies.
LEMMA GapQuiet ==
  ASSUME TypeInv, TypeInv', GapInv, UNCHANGED ent, GrantsStand, now <= now',
         Settled' => Settled,
         \A v \in Workers: job'[v] = job[v]
           \/ /\ ~Inserts(job[v]) /\ job[v].at # "apply"
              /\ job'[v].at \notin {"insert", "apply"}
  PROVE  GapInv'
<1> SUFFICES ASSUME Settled' PROVE GapInv'
  BY DEF GapInv
<1>1. /\ (\A w \in Workers: job[w].at # "apply") => GapFree(<<>>)
      /\ \A w \in Workers: job[w].at = "apply" => GapFree(job[w].plans)
      /\ \A w \in Workers: Inserts(job[w]) =>
           \/ AllExist(job[w].order)
           \/ Covered(<<>>, job[w].order, job[w].window.startsAt)
  BY DEF GapInv
<1>2. (\A w \in Workers: job'[w].at # "apply") => GapFree(<<>>)'
  <2>1. <<>> \in Seq(Plan)
    OBVIOUS
  <2>2. QED
    BY <1>1, <2>1, GapFreeOn
<1>3. ASSUME NEW w \in Workers, job'[w].at = "apply" PROVE GapFree(job[w].plans)'
  <2>1. job'[w] = job[w]
    BY <1>3
  <2>2. PICK P \in Seq(Plan) : P = job[w].plans
    BY DEF TypeInv, TypeOK, Job
  <2>3. GapFree(P)'
    BY <1>1, <1>3, <2>1, <2>2, GapFreeOn
  <2>4. P = job'[w].plans
    BY <2>1, <2>2
  <2>5. QED
    BY <2>3, <2>4
<1>4. ASSUME NEW w \in Workers, Inserts(job[w])'
      PROVE  \/ AllExist(job[w].order)'
             \/ Covered(<<>>, job[w].order, job[w].window.startsAt)'
  <2>1. job'[w] = job[w] /\ Inserts(job[w])
    BY <1>4 DEF Inserts
  <2>2. PICK j \in Job : j = job[w]
    BY DEF TypeInv, TypeOK
  <2>3. j.window.startsAt \in Nat
    BY DEF Job, Window
  <2>4. AllExist(j.order) \/ Covered(<<>>, j.order, j.window.startsAt)
    BY <1>1, <2>1, <2>2
  <2>5. AllExist(j.order)' \/ Covered(<<>>, j.order, j.window.startsAt)'
    BY <2>3, <2>4, CoveredOn DEF AllExist, Exists
  <2>6. j = job'[w]
    BY <2>1, <2>2
  <2>7. QED
    BY <2>5, <2>6
<1>5. QED
  BY <1>2, <1>3, <1>4 DEF GapInv

\* A worker's step in the section.
LEMMA GapSection ==
  ASSUME IInv, TypeInv, Calm, NEW w \in Workers, job[w].at \in Section,
         NEW j, job' = [job EXCEPT ![w] = j],
         j.at # "apply" => GapFree(<<>>)',
         j.at = "apply" => GapFree(j.plans)',
         Inserts(j) => \/ AllExist(j.order)'
                       \/ Covered(<<>>, j.order, j.window.startsAt)'
  PROVE  GapInv'
<1>1. job \in [Workers -> Job]
  BY DEF TypeInv, TypeOK
<1>2. job'[w] = j /\ \A v \in Workers : v # w => /\ job'[v].at # "apply"
                                                /\ ~Inserts(job'[v])
  BY <1>1, Alone DEF Calm, Section, Inserts
<1>3. (\A v \in Workers: job'[v].at # "apply") => GapFree(<<>>)'
  BY <1>2
<1>4. ASSUME NEW v \in Workers, job'[v].at = "apply" PROVE GapFree(job[v].plans)'
  <2>1. v = w
    BY <1>2, <1>4
  <2>2. j = job'[v]
    BY <1>2, <2>1
  <2>3. QED
    BY <1>4, <2>2
<1>5. ASSUME NEW v \in Workers, Inserts(job[v])'
      PROVE  \/ AllExist(job[v].order)'
             \/ Covered(<<>>, job[v].order, job[v].window.startsAt)'
  <2>1. v = w
    BY <1>2, <1>5 DEF Inserts
  <2>2. j = job'[v] /\ Inserts(j)
    BY <1>2, <1>5, <2>1 DEF Inserts
  <2>3. QED
    BY <2>2
<1>6. QED
  BY <1>3, <1>4, <1>5 DEF GapInv

\* Nothing that was not pending becomes settled by what a worker in the section does,
\* except that its plans are made.
LEMMA SettledBefore ==
  ASSUME TypeInv, Next, Settled', NEW w \in Workers, NEW j, job' = [job EXCEPT ![w] = j],
         ~Pending(w)
  PROVE  Settled
<1>1. \A v \in Workers : v # w => job'[v] = job[v]
  BY DEF TypeInv, TypeOK
<1>2. QED
  BY <1>1, HistoryGrows DEF Settled, Pending

\* A purchase that is provisioned starts where another ends, or at once.
LEMMA FindWindowGapFree ==
  ASSUME IInv, TypeInv, PackedInv, Calm, GrantsBegun, GapInv, Settled,
         NEW w \in Workers, FindWindow(w)
  PROVE  GapInv'
<1>1. PICK j \in Job, win \in Window :
           /\ job' = [job EXCEPT ![w] = j] /\ WindowFor(job[w], win) /\ j.window = win
           /\ j.op = "provision" /\ j.at = "insert" /\ j.order = job[w].order
  BY FoundWindow
<1>2. PICK i \in Job : i = job[w]
  BY DEF TypeInv, TypeOK
<1>3. PICK o \in Orders : o = i.order
  BY <1>2 DEF Job
<1>4. /\ job[w].at = "window" /\ UNCHANGED <<now, ent, admin>> /\ Whole
      /\ i.now <= now /\ RowsPacked
  BY <1>2 DEF FindWindow, At, PackedInv, JobFits
<1>5. \A v \in Workers : ~Inserts(job[v]) /\ job[v].at # "apply"
  BY <1>4, Alone DEF Calm, Inserts, Section
<1>6. AllExist(o) \/ NoneExist(o)
  BY <1>4, <1>5 DEF Whole
<1>7. GapFree(<<>>)
  BY <1>5 DEF GapInv
<1>8. GapFree(<<>>)'
  BY <1>4, <1>7 DEF GapFree, Covered, GrantLasts, RowIs, Active
<1>9. AllExist(o)' \/ Covered(<<>>, o, win.startsAt)'
  <2>1. CASE AllExist(o)
    BY <1>4, <2>1 DEF AllExist, Exists
  <2>2. CASE NoneExist(o)
    <3>1. PICK t \in Nat : t = win.startsAt
      BY DEF Window
    <3>2. CASE t = i.now
      BY <1>4, <3>1, <3>2 DEF Covered
    <3>3. CASE t # i.now /\ \E p \in Orders: \E h \in Grants:
                 Active(p, h) /\ ent[p][h].expiresAt = t
      <4>1. PICK p \in Orders, h \in Grants :
              Active(p, h) /\ ent[p][h].expiresAt = t
        BY <3>3
      <4>2. p # o
        BY <2>2, <4>1 DEF NoneExist, Exists, Active
      <4>3. PICK row \in Row : row = ent[p][h]
        BY DEF TypeInv, TypeOK
      <4>4. RowFits(p, row) /\ row.expiresAt # Forever /\ row.startsAt \in Nat
        <5>1. \A q \in Orders: \A f \in Grants: Active(q, f) => ent[q][f].expiresAt # Forever
          BY <1>1, <1>2, <1>3, <3>1, <3>3 DEF WindowFor
        <5>2. QED
          BY <1>4, <4>1, <4>3, <5>1 DEF RowsPacked, FullWindows, Row
      <4>5. row.startsAt + 28 <= t
        <5>1. Durations[p] \in Presets /\ Durations[p] # Lifetime
          BY <4>4, DurationsArePresets DEF RowFits
        <5>2. QED
          BY <4>1, <4>3, <4>4, <5>1, ExpiryOf DEF RowFits
      <4>6. Lasts(row.startsAt, t, t)
        BY <4>4, <4>5 DEF Lasts
      <4>7. RowIs(<<>>, p, h, row.startsAt, t)
        BY <4>1, <4>3 DEF PlannedIn, RowIs
      <4>8. Covered(<<>>, o, t)
        BY <4>1, <4>2, <4>4, <4>6, <4>7 DEF Covered
      <4>9. QED
        BY <1>4, <3>1, <4>8 DEF Covered, GrantLasts, RowIs, Active
    <3>4. CASE \E a \in Admins: admin[a].status = "ACTIVE" /\ admin[a].expiresAt = t
      <4>1. PICK a \in Admins : admin[a].status = "ACTIVE" /\ admin[a].expiresAt = t
        BY <3>4
      <4>2. CASE t = Forever
        <5>1. t <= now
          BY <4>2, DaysAreNat DEF Forever, TypeInv, TypeOK
        <5>2. QED
          BY <1>4, <3>1, <5>1 DEF Covered
      <4>3. CASE t # Forever
        <5>1. Lasts(admin[a].startsAt, t, t)
          BY <4>1, <4>3 DEF GrantsBegun, Lasts
        <5>2. GrantLasts(t)
          BY <4>1, <5>1 DEF GrantLasts
        <5>3. QED
          BY <1>4, <3>1, <5>2 DEF Covered, GrantLasts
      <4>4. QED
        BY <4>2, <4>3
    <3>5. QED
      <4>1. t = i.now \/ EndsOn(t)
        BY <1>1, <1>2, <3>1 DEF WindowFor
      <4>2. QED
        BY <3>2, <3>3, <3>4, <4>1 DEF EndsOn
  <2>3. QED
    BY <1>6, <2>1, <2>2
<1>10. QED
  BY <1>1, <1>2, <1>3, <1>4, <1>8, <1>9, GapSection DEF Section

\* The row that is inserted is covered, and rows that were stay.
LEMMA InsertGrantGapFree ==
  ASSUME IInv, TypeInv, PackedInv, Calm, GapInv, Settled, NEW w \in Workers, InsertGrant(w)
  PROVE  GapInv'
<1>1. PICK i \in Job, o \in Orders, n \in Nat :
        i = job[w] /\ o = i.order /\ n = i.next /\ Inserts(i)
  <2>1. PICK i \in Job : i = job[w]
    BY DEF TypeInv, TypeOK
  <2>2. Inserts(i) /\ i.order \in Orders /\ i.next \in Nat
    BY <2>1 DEF InsertGrant, At, Inserts, Job
  <2>3. QED
    BY <2>1, <2>2
<1>2. PICK j \in Job :
           /\ job' = [job EXCEPT ![w] = j] /\ j.order = o
           /\ (j.at = "insert" /\ j.window = i.window) \/ j.at = "unlock"
  BY <1>1, InsertJob
<1>3. PICK r : /\ r.startsAt = i.window.startsAt /\ r.status = "ACTIVE"
               /\ \A p \in Orders : \A h \in Grants :
                    ent'[p][h] = IF p = o /\ h = n /\ ~Exists(p, h) THEN r ELSE ent[p][h]
  BY <1>1, InsertRows
<1>4. UNCHANGED <<now, admin>> /\ job[w].at = "insert"
  BY <1>1 DEF InsertGrant, Inserts
<1>5. GapFree(<<>>)
  <2>1. \A v \in Workers : job[v].at # "apply"
    BY <1>4, Alone DEF Calm, Section
  <2>2. QED
    BY <2>1 DEF GapInv
<1>6. AllExist(o) \/ Covered(<<>>, o, i.window.startsAt)
  BY <1>1 DEF GapInv
<1>7. \A p : ~PlannedIn(<<>>, p)
  BY DEF PlannedIn
<1>8. \A p \in Orders : \A h \in Grants :
        Active(p, h) => Active(p, h)' /\ ent'[p][h] = ent[p][h]
  BY <1>3 DEF Active, Exists
<1>9. ASSUME NEW p, NEW t, Covered(<<>>, p, t) PROVE Covered(<<>>, p, t)'
  BY <1>4, <1>7, <1>8, <1>9 DEF Covered, GrantLasts, RowIs
<1>10. GapFree(<<>>)'
  <2> SUFFICES ASSUME NEW p \in Orders, NEW g \in Grants, Active(p, g)'
               PROVE  Covered(<<>>, p, ent[p][g].startsAt)'
    BY DEF GapFree
  <2>1. PICK t : t = ent'[p][g].startsAt
    OBVIOUS
  <2>2. Covered(<<>>, p, t)
    <3>1. CASE p = o /\ g = n /\ ~Exists(p, g)
      BY <1>3, <1>6, <2>1, <3>1 DEF AllExist
    <3>2. CASE ~(p = o /\ g = n /\ ~Exists(p, g))
      <4>1. ent'[p][g] = ent[p][g] /\ Active(p, g)
        BY <1>3, <3>2 DEF Active
      <4>2. QED
        BY <1>5, <1>7, <2>1, <4>1 DEF GapFree
    <3>3. QED
      BY <3>1, <3>2
  <2>3. Covered(<<>>, p, t)'
    BY <1>9, <2>2
  <2>4. QED
    BY <2>1, <2>3 DEF Covered, GrantLasts
<1>11. Inserts(j) => AllExist(o)' \/ Covered(<<>>, o, j.window.startsAt)'
  <2>1. AllExist(o) => AllExist(o)'
    BY <1>3 DEF AllExist, Exists
  <2>2. Inserts(j) => j.window = i.window
    BY <1>2 DEF Inserts
  <2>3. QED
    BY <1>6, <1>9, <2>1, <2>2
<1>12. QED
  BY <1>2, <1>4, <1>10, <1>11, GapSection DEF Section

\* The plans of a re-anchor leave no hole.
LEMMA PlanMovesGapFree ==
  ASSUME IInv, TypeInv, PackedInv, Calm, NEW w \in Workers, PlanMoves(w)
  PROVE  GapInv'
<1>1. PICK j \in Job, P \in Seq(Plan) :
           /\ P = Reanchor(Groups, now)
           /\ job' = [job EXCEPT ![w] = j] /\ j.plans = P
           /\ j.at = IF P = <<>> THEN "unlock" ELSE "apply"
  BY PlannedMoves
<1>2. /\ job[w].at = "plan" /\ UNCHANGED <<now, ent, admin>> /\ RowsPacked
      /\ now \in Nat
  BY DaysAreNat DEF PlanMoves, PackedInv, TypeInv, TypeOK
<1>3. NoHole(Groups, P, now)
  BY <1>1, <1>2, GroupsArePacked, ReanchorIsWalked DEF Walked
<1>4. ASSUME NEW H \in Groups, NEW start, NEW end, GroupIs(P, H, start, end)
      PROVE  \E h \in Grants : Active(H.order, h) /\ RowIs(P, H.order, h, start, end)
  BY <1>4, GroupsAre DEF GroupIs, RowIs
<1>5. \A H \in Groups : H.order \in Orders
  BY GroupsAre
<1>6. ASSUME NEW o \in Orders, NEW t, t <= now \/ Reached(Groups, P, o, t)
      PROVE  Covered(P, o, t)
  BY <1>4, <1>5, <1>6 DEF Covered, Reached
<1>7. GapFree(P)
  <2> SUFFICES ASSUME NEW o \in Orders, NEW g \in Grants, Active(o, g)
               PROVE  /\ ~PlannedIn(P, o) => Covered(P, o, ent[o][g].startsAt)
                      /\ \A i \in DOMAIN P: P[i].order = o => Covered(P, o, P[i].startsAt)
    BY DEF GapFree
  <2>1. ASSUME ~PlannedIn(P, o) PROVE Covered(P, o, ent[o][g].startsAt)
    <3>1. PICK G \in Groups : G.order = o /\ G.startsAt = ent[o][g].startsAt
      BY <1>2, RowsOfGroup DEF RowsPacked
    <3>2. G.startsAt <= now \/ Reached(Groups, P, G.order, G.startsAt)
      BY <1>3, <2>1, <3>1 DEF NoHole
    <3>3. QED
      BY <1>6, <3>1, <3>2
  <2>2. ASSUME NEW i \in DOMAIN P, P[i].order = o PROVE Covered(P, o, P[i].startsAt)
    <3>1. P[i].startsAt <= now \/ Reached(Groups, P, P[i].order, P[i].startsAt)
      BY <1>3 DEF NoHole
    <3>2. QED
      BY <1>6, <2>2, <3>1
  <2>3. QED
    BY <2>1, <2>2
<1>8. GapFree(P)'
  BY <1>2, <1>7 DEF GapFree, Covered, GrantLasts, RowIs, Active
<1>9. j.at # "apply" => P = <<>>
  BY <1>1
<1>10. ~Inserts(j)
  BY <1>1 DEF Inserts
<1>11. QED
  BY <1>1, <1>2, <1>8, <1>9, <1>10, GapSection DEF Section

\* A move that is carried out leaves the windows as they were to be.
LEMMA ApplyMoveGapFree ==
  ASSUME IInv, TypeInv, PackedInv, Calm, GapInv, Settled, NEW w \in Workers, ApplyMove(w)
  PROVE  GapInv'
<1>1. PICK j \in Job, plan \in Plan, P \in Seq(Plan) :
           /\ P = job[w].plans /\ P # <<>> /\ plan = P[1]
           /\ \A q \in Orders : \A g \in Grants :
                ent'[q][g] = IF /\ q = plan.order /\ Active(q, g)
                                /\ ent[q][g].startsAt = plan.previousStartsAt
                               THEN [status |-> "ACTIVE", startsAt |-> plan.startsAt,
                                     expiresAt |-> plan.expiresAt]
                               ELSE ent[q][g]
           /\ job' = [job EXCEPT ![w] = j]
           /\ IF Len(P) > 1 THEN j.at = "apply" /\ j.plans = Tail(P)
                            ELSE j.at = "unlock" /\ j.plans = <<>>
  BY MoveApplied
<1>2. job[w].at = "apply" /\ UNCHANGED <<now, admin>> /\ PlansFit(P) /\ GapFree(P)
  BY <1>1 DEF ApplyMove, PackedInv, JobFits, GapInv
<1>3. PICK o \in Orders : o = plan.order /\ 1 \in DOMAIN P
  BY <1>1 DEF Plan
<1>4. InOrder(P) /\ \A g \in Grants: Active(o, g) => ent[o][g].startsAt = plan.previousStartsAt
  BY <1>1, <1>2, <1>3 DEF PlansFit
<1>5. \A q \in Orders : \A g \in Grants :
        /\ Active(q, g)' <=> Active(q, g)
        /\ q # o => ent'[q][g] = ent[q][g]
        /\ q = o /\ Active(q, g) => /\ ent'[q][g].startsAt = plan.startsAt
                                    /\ ent'[q][g].expiresAt = plan.expiresAt
  BY <1>1, <1>3, <1>4 DEF Active
<1>6. PICK Q : /\ Q = Tail(P) /\ Q \in Seq(Plan) /\ (Len(P) > 1 \/ Q = <<>>)
               /\ \A k \in DOMAIN Q: k \in Nat \ {0} /\ k + 1 \in DOMAIN P /\ Q[k] = P[k + 1]
               /\ \A q : PlannedIn(P, q) => q = o \/ PlannedIn(Q, q)
  BY <1>1, <1>3, PlansLeft
<1>7. ~PlannedIn(Q, o) /\ \A q : PlannedIn(Q, q) => PlannedIn(P, q)
  <2>1. \A k \in DOMAIN Q : Q[k].order # o /\ PlannedIn(P, Q[k].order)
    <3> SUFFICES ASSUME NEW k \in DOMAIN Q PROVE Q[k].order # o /\ PlannedIn(P, Q[k].order)
      OBVIOUS
    <3>1. 1 < k + 1 /\ k + 1 \in DOMAIN P /\ Q[k] = P[k + 1]
      BY <1>6
    <3>2. QED
      BY <1>1, <1>3, <1>4, <3>1 DEF InOrder, PlannedIn
  <2>2. QED
    BY <2>1 DEF PlannedIn
<1>8. ASSUME NEW q \in Orders, NEW h \in Grants, NEW start, NEW end, Active(q, h),
             RowIs(P, q, h, start, end)
      PROVE  RowIs(Q, q, h, start, end)'
  <2>1. CASE /\ ~PlannedIn(P, q)
             /\ ent[q][h].startsAt = start /\ ent[q][h].expiresAt = end
    <3>1. q # o
      BY <1>1, <1>3, <2>1 DEF PlannedIn
    <3>2. QED
      BY <1>5, <1>7, <2>1, <3>1 DEF RowIs
  <2>2. CASE \E i \in DOMAIN P: /\ P[i].order = q
                                /\ P[i].startsAt = start /\ P[i].expiresAt = end
    <3>1. PICK i \in DOMAIN P : /\ P[i].order = q
                                /\ P[i].startsAt = start /\ P[i].expiresAt = end
      BY <2>2
    <3>2. CASE i = 1
      BY <1>1, <1>3, <1>5, <1>7, <1>8, <3>1, <3>2 DEF RowIs
    <3>3. CASE i # 1
      <4>1. i - 1 \in DOMAIN Q /\ Q[i - 1] = P[i]
        BY <1>1, <1>6, <3>3
      <4>2. QED
        BY <3>1, <4>1 DEF RowIs
    <3>4. QED
      BY <3>2, <3>3
  <2>3. QED
    BY <1>8, <2>1, <2>2 DEF RowIs
<1>9. ASSUME NEW q \in Orders, NEW t, Covered(P, q, t) PROVE Covered(Q, q, t)'
  <2>1. GrantLasts(t) => GrantLasts(t)'
    BY <1>2 DEF GrantLasts
  <2>2. QED
    BY <1>2, <1>5, <1>8, <1>9, <2>1 DEF Covered
<1>10. GapFree(Q)'
  <2> SUFFICES ASSUME NEW q \in Orders, NEW g \in Grants, Active(q, g)'
               PROVE  /\ ~PlannedIn(Q, q) => Covered(Q, q, ent[q][g].startsAt)'
                      /\ \A i \in DOMAIN Q: Q[i].order = q => Covered(Q, q, Q[i].startsAt)'
    BY DEF GapFree
  <2>1. Active(q, g)
    BY <1>5
  <2>2. ASSUME ~PlannedIn(Q, q) PROVE Covered(Q, q, ent[q][g].startsAt)'
    <3>1. PICK t : t = ent'[q][g].startsAt
      OBVIOUS
    <3>2. Covered(P, q, t)
      <4>1. CASE q = o
        BY <1>1, <1>2, <1>3, <1>5, <2>1, <3>1, <4>1, SMTT(30) DEF GapFree
      <4>2. CASE q # o
        BY <1>2, <1>5, <1>6, <2>1, <2>2, <3>1, <4>2 DEF GapFree
      <4>3. QED
        BY <4>1, <4>2
    <3>3. Covered(Q, q, t)'
      BY <1>9, <3>2
    <3>4. QED
      BY <3>1, <3>3 DEF Covered, GrantLasts
  <2>3. ASSUME NEW k \in DOMAIN Q, Q[k].order = q PROVE Covered(Q, q, Q[k].startsAt)'
    <3>1. k + 1 \in DOMAIN P /\ Q[k] = P[k + 1]
      BY <1>6
    <3>2. Covered(P, q, Q[k].startsAt)
      BY <1>2, <2>1, <2>3, <3>1 DEF GapFree
    <3>3. QED
      BY <1>9, <3>2
  <2>4. QED
    BY <2>2, <2>3
<1>11. j.plans = Q /\ (j.at # "apply" => Q = <<>>) /\ ~Inserts(j)
  BY <1>1, <1>6 DEF Inserts
<1>12. QED
  BY <1>1, <1>2, <1>10, <1>11, GapSection DEF Section

\* A worker's step that writes no row, of a job that neither inserts nor applies.
LEMMA GapWorker ==
  ASSUME TypeInv, TypeInv', Next, GrantsStand, GapInv, Settled', UNCHANGED <<now, ent>>,
         NEW w \in Workers, NEW j, job' = [job EXCEPT ![w] = j], ~Pending(w),
         job[w].at \notin {"insert", "apply"}, j.at \notin {"insert", "apply"}
  PROVE  GapInv'
<1>1. job \in [Workers -> Job]
  BY DEF TypeInv, TypeOK
<1>2. \A v \in Workers: job'[v] = job[v]
        \/ /\ ~Inserts(job[v]) /\ job[v].at # "apply"
           /\ job'[v].at \notin {"insert", "apply"}
  BY <1>1 DEF Inserts
<1>3. Settled
  BY SettledBefore
<1>4. now <= now'
  BY DaysAreNat DEF TypeInv, TypeOK
<1>5. QED
  BY <1>2, <1>3, <1>4, GapQuiet

\* A request that starts.
LEMMA StartGapFree ==
  ASSUME TypeInv, TypeInv', Next, GrantsStand, GapInv, Settled', NEW w \in Workers, Start(w)
  PROVE  GapInv'
<1>1. PICK k \in Job : k = Idle /\ k.op = "none" /\ k.at = "start"
  BY IdleType
<1>2. PICK o \in Orders :
        \/ StartProvision(w, o) \/ ClaimRefund(w, o)
        \/ \E g \in Grants: AdminRevoke(w, o, g)
  BY DEF Start
<1>3. job \in [Workers -> Job]
  BY DEF TypeInv, TypeOK
<1>4. CASE StartProvision(w, o) \/ ClaimRefund(w, o)
  <2>1. PICK j : /\ Begin(w, j)
                 /\ \/ j = [k EXCEPT !.op = "provision", !.at = "lock", !.order = o, !.now = now]
                    \/ j = [k EXCEPT !.op = "refund", !.order = o]
    BY <1>1, <1>4 DEF StartProvision, ClaimRefund
  <2>2. j.at \in {"lock", "start"}
    BY <1>1, <2>1 DEF Job
  <2>3. job[w] = k /\ job' = [job EXCEPT ![w] = j]
    BY <1>1, <2>1 DEF Begin
  <2>4. ~Pending(w) /\ job[w].at = "start"
    BY <1>1, <2>3 DEF Pending
  <2>5. UNCHANGED <<now, ent>>
    BY <1>4 DEF StartProvision, ClaimRefund
  <2>6. QED
    BY <2>2, <2>3, <2>4, <2>5, GapWorker
<1>5. CASE \E g \in Grants: AdminRevoke(w, o, g)
  <2>1. PICK j : /\ Begin(w, j) /\ j = [k EXCEPT !.op = "revoke", !.at = "lock"]
    BY <1>1, <1>5 DEF AdminRevoke
  <2>2. job'[w] = j /\ j.op = "revoke" /\ j.at = "lock"
    BY <1>1, <1>3, <2>1 DEF Begin, Job
  <2>3. Pending(w)'
    BY <2>2 DEF Pending
  <2>4. QED
    BY <2>3 DEF Settled
<1>6. QED
  BY <1>2, <1>4, <1>5

\* A worker's own step.
LEMMA StepGapFree ==
  ASSUME IInv, TypeInv, TypeInv', PackedInv, Next, Calm, GrantsBegun, GrantsStand, GapInv,
         Settled', NEW w \in Workers, Step(w)
  PROVE  GapInv'
<1>0. job \in [Workers -> Job]
  BY DEF TypeInv, TypeOK
<1>1. PICK i \in Job : i = job[w]
  BY <1>0
<1>2. ASSUME NEW point, Goto(w, point), point \notin {"insert", "apply"},
             i.at \in {"lock", "unlock"}, UNCHANGED <<now, ent>>,
             Pending(w) => point = "plan"
      PROVE  GapInv'
  <2>1. PICK j : j = [i EXCEPT !.at = point]
    OBVIOUS
  <2>2. job' = [job EXCEPT ![w] = j] /\ j.at = point /\ j.op = i.op
    BY <1>0, <1>1, <1>2, <2>1 DEF Goto, Job
  <2>3. job'[w] = j
    BY <1>0, <2>2
  <2>4. ~Pending(w)
    <3> SUFFICES ASSUME Pending(w) PROVE FALSE
      OBVIOUS
    <3>1. Pending(w)'
      BY <1>1, <1>2, <2>2, <2>3 DEF Pending
    <3>2. QED
      BY <3>1 DEF Settled
  <2>5. QED
    BY <1>1, <1>2, <2>2, <2>4, GapWorker
<1>3. ASSUME Return(w), i.at \in {"unlock", "finish"}, UNCHANGED <<now, ent>>
      PROVE  GapInv'
  <2>1. PICK j : j = Idle /\ j.at = "start"
    BY IdleType
  <2>2. job' = [job EXCEPT ![w] = j]
    BY <1>3, <2>1 DEF Return
  <2>3. ~Pending(w)
    BY <1>1, <1>3 DEF Pending
  <2>4. QED
    BY <1>1, <1>3, <2>1, <2>2, <2>3, GapWorker
<1>4. CASE AcquireLock(w)
  BY <1>1, <1>2, <1>4 DEF AcquireLock, Pending
<1>5. CASE ReleaseLock(w)
  BY <1>1, <1>2, <1>3, <1>5 DEF ReleaseLock, ExitSection, Pending
<1>6. CASE SaveProvisioned(w)
  BY <1>1, <1>3, <1>6 DEF SaveProvisioned, At
<1>7. CASE MarkRefunded(w)
  BY <1>1, <1>3, <1>7 DEF MarkRefunded, At
<1>8. CASE FindRows(w)
  <2>1. PICK rows, point :
          /\ point \in {"finish", "revoke"}
          /\ job' = [job EXCEPT ![w].todo = rows, ![w].at = point]
    BY <1>8 DEF FindRows
  <2>2. PICK j : j = [i EXCEPT !.todo = rows, !.at = point]
    OBVIOUS
  <2>3. job' = [job EXCEPT ![w] = j] /\ j.at = point
    BY <1>0, <1>1, <2>1, <2>2 DEF Job
  <2>4. ~Pending(w) /\ i.at = "start" /\ UNCHANGED <<now, ent>>
    BY <1>1, <1>8 DEF FindRows, At, Pending
  <2>5. QED
    BY <1>1, <2>1, <2>3, <2>4, GapWorker
<1>9. CASE RevokeRow(w)
  <2>1. PICK rows, point :
          /\ point \in {"lock", "revoke"}
          /\ job' = [job EXCEPT ![w].todo = rows, ![w].at = point]
    BY <1>9 DEF RevokeRow
  <2>2. PICK j : j = [i EXCEPT !.todo = rows, !.at = point]
    OBVIOUS
  <2>3. job' = [job EXCEPT ![w] = j] /\ j.at = point /\ j.op = "refund"
    BY <1>0, <1>1, <1>9, <2>1, <2>2 DEF Job, RevokeRow, At
  <2>4. job'[w] = j
    BY <1>0, <2>3
  <2>5. Pending(w)'
    BY <2>1, <2>3, <2>4 DEF Pending
  <2>6. QED
    BY <2>5 DEF Settled
<1>10. CASE PlanMoves(w)
  BY <1>10, PlanMovesGapFree
<1>11. CASE FindWindow(w) \/ InsertGrant(w) \/ ApplyMove(w)
  <2>1. ~Pending(w)
    BY <1>11 DEF FindWindow, InsertGrant, ApplyMove, At, Pending
  <2>2. PICK j : job' = [job EXCEPT ![w] = j]
    <3>1. CASE FindWindow(w)
      BY <3>1, FoundWindow
    <3>2. CASE InsertGrant(w)
      BY <3>2, InsertJob
    <3>3. CASE ApplyMove(w)
      <4>1. \E j \in Job : job' = [job EXCEPT ![w] = j]
        BY <3>3, MoveApplied
      <4>2. QED
        BY <4>1
    <3>4. QED
      BY <1>11, <3>1, <3>2, <3>3
  <2>3. Settled
    BY <2>1, <2>2, SettledBefore
  <2>4. QED
    BY <1>11, <2>3, FindWindowGapFree, InsertGrantGapFree, ApplyMoveGapFree
<1>12. QED
  BY <1>4, <1>5, <1>6, <1>7, <1>8, <1>9, <1>10, <1>11 DEF Step

\* No step makes a gap, except that a re-anchor is still to come.
THEOREM NextGapFree ==
  IInv /\ TypeInv /\ PackedInv /\ GrantsBegun /\ GapInv /\ [Next]_vars => GapInv'
<1> SUFFICES ASSUME IInv, TypeInv, PackedInv, GrantsBegun, GapInv, [Next]_vars, Settled'
             PROVE  GapInv'
  BY DEF GapInv
<1>0. TypeInv' /\ GrantsStand
  BY NextTypes, GrantsKept
<1>1. CASE UNCHANGED vars
  <2>1. /\ \A v \in Workers : job'[v] = job[v]
        /\ UNCHANGED ent /\ now <= now' /\ (Settled' => Settled)
    BY <1>1, DaysAreNat DEF vars, TypeInv, TypeOK, Settled, Pending, history
  <2>2. QED
    BY <1>0, <2>1, GapQuiet
<1>2. CASE Next
  <2>0. Calm
    BY <1>2, HistoryGrows DEF Calm, Settled
  <2>1. CASE Tick \/ LeaseEnds \/ \E a \in Admins : AdminGrant(a) \/ RevokeGrant(a)
    <3>1. UNCHANGED <<ent, job>> /\ now <= now'
      BY <2>1, DaysAreNat DEF Tick, LeaseEnds, AdminGrant, RevokeGrant, TypeInv, TypeOK
    <3>2. Settled
      BY <1>2, <3>1, HistoryGrows DEF Settled, Pending
    <3>3. QED
      BY <1>0, <3>1, <3>2, GapQuiet
  <2>2. CASE \E w \in Workers : Start(w)
    BY <1>0, <1>2, <2>2, StartGapFree
  <2>3. CASE \E w \in Workers : Step(w)
    BY <1>0, <1>2, <2>0, <2>3, StepGapFree
  <2>4. CASE \E w \in Workers : LockBusy(w)
    <3>1. PICK w \in Workers : LockBusy(w)
      BY <2>4
    <3>2. job[w].op = "provision" /\ job[w].at = "lock"
      BY <3>1 DEF LockBusy, LeavesUndone, Settled
    <3>3. PICK j : j = Idle /\ j.at = "start"
      BY IdleType
    <3>4. job' = [job EXCEPT ![w] = j] /\ ~Pending(w) /\ UNCHANGED <<now, ent>>
      BY <3>1, <3>2, <3>3 DEF LockBusy, Return, Pending
    <3>5. QED
      BY <1>0, <1>2, <3>2, <3>3, <3>4, GapWorker
  <2>5. CASE \E w \in Workers : Abort(w)
    BY <2>5 DEF Abort, LeavesUndone, Settled
  <2>6. QED
    BY <1>2, <2>1, <2>2, <2>3, <2>4, <2>5 DEF Next
<1>3. QED
  BY <1>1, <1>2

\* Without rows nothing waits.
LEMMA InitGapFree == Init => GrantsBegun /\ GapInv
<1> SUFFICES ASSUME Init PROVE GrantsBegun /\ GapInv
  OBVIOUS
<1>1. \A o \in Orders : \A g \in Grants : ~Active(o, g)
  BY DEF Init, NoRow, Active
<1>2. \A w \in Workers : job[w].at = "start"
  BY IdleType DEF Init
<1>3. GrantsBegun
  BY DEF Init, NoRow, GrantsBegun
<1>4. QED
  BY <1>1, <1>2, <1>3 DEF GapInv, GapFree, Inserts

\* Admins' rows have begun in every reachable state.
THEOREM GrantsHaveBegun == Spec => []GrantsBegun
<1>1. TypeInv /\ TypeInv' /\ GrantsBegun /\ [Next]_vars => GrantsBegun'
  BY GrantsKept
<1>2. QED
  BY <1>1, InitGapFree, TypesHold, PTL DEF Spec

\* GapInv holds in every reachable state.
THEOREM NoGapArises == Spec => []GapInv
<1>1. QED
  BY InitGapFree, NextGapFree, Invariant, TypesHold, RowsStayPacked, GrantsHaveBegun, PTL
     DEF Spec

\* D-23: once every revoke has re-anchored, each day that a purchase still waits is
\* covered by another purchase or was by an admin's grant.
THEOREM PurchasesLeaveNoGap == Spec => []NoGap
<1>1. TypeInv /\ GrantsBegun /\ GapInv => NoGap
  <2> SUFFICES ASSUME TypeInv, GrantsBegun, GapInv, AtRest, overruns = 0, lost = {},
                      NEW o \in Orders, NEW g \in Grants, Active(o, g),
                      NEW day \in now..(ent[o][g].startsAt - 1)
               PROVE  \/ \E p \in Orders: \E h \in Grants:
                           Active(p, h) /\ Covers(ent[p][h], day)
                      \/ \E a \in Admins:
                           admin[a].status # "NONE" /\ Covers(admin[a], day)
    BY DEF NoGap
  <2>1. GapFree(<<>>)
    <3>1. \A w \in Workers : job[w].at = "start"
      BY IdleType DEF AtRest
    <3>2. QED
      BY <3>1 DEF GapInv, Settled, Pending
  <2>2. \A q : ~PlannedIn(<<>>, q)
    BY DEF PlannedIn
  <2>3. /\ now \in Nat /\ day \in Nat /\ now <= day /\ day < ent[o][g].startsAt
        /\ \A p \in Orders: \A h \in Grants:
             ent[p][h].startsAt \in Nat /\ ent[p][h].expiresAt \in Nat
        /\ \A a \in Admins: admin[a].startsAt \in Nat /\ admin[a].expiresAt \in Nat
    <3>1. /\ now \in Nat
          /\ \A p \in Orders: \A h \in Grants:
               ent[p][h].startsAt \in Nat /\ ent[p][h].expiresAt \in Nat
          /\ \A a \in Admins: admin[a].startsAt \in Nat /\ admin[a].expiresAt \in Nat
      BY DaysAreNat DEF TypeInv, TypeOK, Row
    <3>2. QED
      BY <3>1
  <2> DEFINE Waits(t) == \E p \in Orders: \E h \in Grants:
               Active(p, h) /\ ent[p][h].startsAt = t /\ day < t
             T == {t \in Nat : Waits(t)}
  <2>4. PICK t \in T : \A u \in T : t <= u
    <3>1. ent[o][g].startsAt \in T
      BY <2>3
    <3>2. T \subseteq Nat /\ T # {}
      BY <3>1
    <3> HIDE DEF T
    <3>3. QED
      BY <3>2, LeastOf
  <2>5. PICK p \in Orders, h \in Grants :
          Active(p, h) /\ ent[p][h].startsAt = t /\ day < t
    BY <2>4
  <2>6. \A q \in Orders: \A f \in Grants:
          Active(q, f) /\ ent[q][f].startsAt < t => ent[q][f].startsAt <= day
    BY <2>3, <2>4
  <2>7. Covered(<<>>, p, t)
    BY <2>1, <2>2, <2>5 DEF GapFree, Covered, GrantLasts
  <2>8. ~(t <= now)
    BY <2>3, <2>5
  <2>9. CASE GrantLasts(t)
    <3>1. PICK a \in Admins : /\ admin[a].status # "NONE"
                              /\ Lasts(admin[a].startsAt, admin[a].expiresAt, t)
      BY <2>9 DEF GrantLasts
    <3>2. admin[a].startsAt <= now
      BY <3>1 DEF GrantsBegun
    <3>3. Covers(admin[a], day)
      BY <2>3, <2>5, <3>1, <3>2 DEF Covers, Lasts
    <3>4. QED
      BY <3>1, <3>3
  <2>10. CASE \E q \in Orders \ {p}: \E f \in Grants:
                Active(q, f) /\ \E start, end \in Nat:
                  RowIs(<<>>, q, f, start, end) /\ Lasts(start, end, t)
    <3>1. PICK q \in Orders, f \in Grants : /\ Active(q, f)
            /\ Lasts(ent[q][f].startsAt, ent[q][f].expiresAt, t)
      BY <2>10 DEF RowIs
    <3>2. ent[q][f].startsAt <= day
      BY <2>6, <3>1 DEF Lasts
    <3>3. Covers(ent[q][f], day)
      BY <2>3, <2>5, <3>1, <3>2 DEF Covers, Lasts
    <3>4. QED
      BY <3>1, <3>3
  <2>11. QED
    BY <2>7, <2>8, <2>9, <2>10 DEF Covered
<1>2. QED
  BY <1>1, TypesHold, GrantsHaveBegun, NoGapArises, PTL
=============================================================================
