------------------------------ MODULE Fulfilment -----------------------------
(***************************************************************************)
(* The entitlements one user holds on one product: paid orders are          *)
(* provisioned grant by grant, settled refunds and admins revoke rows, and   *)
(* what is left is re-anchored. Provisioning and re-anchoring take the lease *)
(* lock of the user and product, revoking does not. Admins also grant rows   *)
(* of their own: purchases are stacked behind them, but a re-anchor does not *)
(* see them, and taking one back re-anchors nothing.                         *)
(*                                                                          *)
(* A worker is one request, sweep or webhook, one database call per step.    *)
(* The orders are the PAID ones of OrderPayment, provisioned at any later     *)
(* time or never.                                                            *)
(***************************************************************************)
EXTENDS EntitlementWindows

CONSTANTS
  Orders,       \* paid orders of the user for the product
  Durations,    \* the duration preset each order bought
  Admins,       \* rows that admins may grant on the product
  AdminMonths,  \* the duration preset of each of them
  NumGrants,    \* grants in the product, inserted one after the other
  Workers,      \* requests that can run at the same time
  NoOne, Gone,  \* lock states: free, and held by a request that is lost
  Days,         \* the days on which anything happens
  MaxFaults     \* bound on requests lost to a crash or a database error and
                \* on leases that end while their holder still runs, together

Grants == 1..NumGrants

ASSUME OrdersAreFinite ==
  IsFiniteSet(Orders) /\ Orders # {} /\ IsFiniteSet(Admins)
ASSUME DurationsArePresets ==
  Durations \in [Orders -> Presets] /\ AdminMonths \in [Admins -> Presets]
ASSUME DaysAreNat == Days \subseteq Nat /\ 0 \in Days
ASSUME BoundsAreNat == NumGrants \in Nat \ {0} /\ MaxFaults \in Nat
ASSUME LockStatesDiffer == NoOne # Gone /\ {NoOne, Gone} \cap Workers = {}

VARIABLES
  now,          \* the clock, a day
  orderStatus,  \* order.status, as far as it matters to entitlements
  provisioned,  \* order.provisionedAt is set
  completed,    \* the order's refund is COMPLETED
  ent,          \* the PAYMENT entitlement of each order and grant
  admin,        \* the ADMIN_GRANT entitlements that name the product
  lock,         \* holder in the entitlement_locks row, NoOne without a row
  leaseOver,    \* lockedUntil is in the past
  job,          \* the handler each worker is running, and where it is
  aborts,       \* requests lost so far
  overruns,     \* leases outlived so far
  late,         \* workers whose lease ended while they still hold on to it
  lost          \* what a request that ended half-way left undone

orderVars == <<orderStatus, provisioned, completed>>
lockVars == <<lock, leaseOver>>
history == <<aborts, overruns, late, lost>>
vars == <<now, orderVars, ent, admin, lockVars, job, history>>

Row == [status: {"NONE", "ACTIVE", "REVOKED"}, startsAt: Nat, expiresAt: Nat]
NoRow == [status |-> "NONE", startsAt |-> 0, expiresAt |-> 0]
Window == [startsAt: Nat, expiresAt: Nat]
Plan == [order: Orders, previousStartsAt: Nat, startsAt: Nat, expiresAt: Nat]

\* now: the instant provisioning works with. next: the grant to insert.
\* todo: rows left to revoke. plans: windows left to write.
Job ==
  [op: {"none", "provision", "refund", "revoke"},
   at: {"start", "revoke", "lock", "window", "insert", "plan", "apply",
        "unlock", "finish"},
   order: Orders, now: Nat, window: Window, next: Nat, todo: SUBSET Grants,
   plans: Seq(Plan)]

Idle == [op |-> "none", at |-> "start", order |-> CHOOSE o \in Orders: TRUE,
         now |-> 0, window |-> [startsAt |-> 0, expiresAt |-> 0], next |-> 1,
         todo |-> {}, plans |-> <<>>]

Init ==
  /\ now = 0
  /\ orderStatus = [o \in Orders |-> "PAID"]
  /\ provisioned = [o \in Orders |-> FALSE]
  /\ completed = [o \in Orders |-> FALSE]
  /\ ent = [o \in Orders |-> [g \in Grants |-> NoRow]]
  /\ admin = [a \in Admins |-> NoRow]
  /\ lock = NoOne
  /\ leaseOver = FALSE
  /\ job = [w \in Workers |-> Idle]
  /\ aborts = 0
  /\ overruns = 0
  /\ late = {}
  /\ lost = {}

At(w, op, point) == job[w].op = op /\ job[w].at = point
Goto(w, point) == job' = [job EXCEPT ![w].at = point]
Return(w) == job' = [job EXCEPT ![w] = Idle]
Begin(w, request) == job[w] = Idle /\ job' = [job EXCEPT ![w] = request]

CanFail == aborts + overruns < MaxFaults

\* What is left undone when the worker's handler stops here.
LeavesUndone(w) == {IF job[w].op = "provision" THEN "provision" ELSE "reanchor"}

\* The work under the lock is done: only the order is still needed.
LeaveSection(w) ==
  job' = [job EXCEPT ![w] = [Idle EXCEPT !.op = job[w].op, !.at = "unlock",
                                         !.order = job[w].order]]

Active(o, g) == ent[o][g].status = "ACTIVE"
Exists(o, g) == ent[o][g].status # "NONE"
RowsOf(o) == {ent[o][g]: g \in {x \in Grants: Active(o, x)}}
GrantedRows == {admin[a]: a \in {x \in Admins: admin[x].status = "ACTIVE"}}

-----------------------------------------------------------------------------
(* The lease lock.                                                            *)

\* Mutants: nobody looks for a holder, and nobody takes an expired lease over.
LockFree_Unchecked == TRUE
LockFree_NoTakeover == lock = NoOne

LockFree == lock = NoOne \/ leaseOver

AcquireLock(w) ==
  /\ job[w].at = "lock"
  /\ LockFree
  /\ lock' = w
  /\ leaseOver' = FALSE
  /\ Goto(w, IF job[w].op = "provision" THEN "window" ELSE "plan")
  /\ UNCHANGED <<now, orderVars, ent, admin, history>>

\* The retries ran out: the caller gets a 503 and nothing after withLock runs.
LockBusy(w) ==
  /\ job[w].at = "lock"
  /\ ~LockFree
  /\ lost' = lost \cup (LeavesUndone(w) \ {"provision"})
  /\ Return(w)
  /\ UNCHANGED <<now, orderVars, ent, admin, lockVars, aborts, overruns, late>>

ExitSection(w) ==
  /\ IF job[w].op = "revoke" THEN Return(w) ELSE Goto(w, "finish")
  /\ late' = late \ {w}
  /\ UNCHANGED <<now, orderVars, ent, admin, aborts, overruns, lost>>

\* Mutant: the lock row is deleted whoever it names.
ReleaseLock_DeletesAny(w) ==
  /\ job[w].at = "unlock"
  /\ lock' = NoOne
  /\ leaseOver' = FALSE
  /\ ExitSection(w)

\* Deletes the lock row only while it still names this holder.
ReleaseLock(w) ==
  /\ job[w].at = "unlock"
  /\ lock' = IF lock = w THEN NoOne ELSE lock
  /\ leaseOver' = (leaseOver /\ lock # w)
  /\ ExitSection(w)

\* The lease of a lost request ends. That of a running one may end first.
LeaseEnds ==
  /\ lock # NoOne
  /\ ~leaseOver
  /\ \/ lock = Gone /\ UNCHANGED overruns
     \/ lock # Gone /\ CanFail /\ overruns' = overruns + 1
  /\ leaseOver' = TRUE
  /\ late' = late \cup ({lock} \cap Workers)
  /\ UNCHANGED <<now, orderVars, ent, admin, lock, job, aborts, lost>>

-----------------------------------------------------------------------------
(* provisionForPaidOrder, called by the paid handler and the repair sweep.    *)

\* Reads the order and the clock. Both are stale from here on.
StartProvision(w, o) ==
  /\ orderStatus[o] = "PAID"
  /\ ~provisioned[o]
  /\ Begin(w, [Idle EXCEPT !.op = "provision", !.at = "lock", !.order = o,
                           !.now = now])
  /\ UNCHANGED <<now, orderVars, ent, admin, lockVars, history>>

\* Rows of every order count, this one's from an earlier run included, and the
\* rows of admins. The instant is not used again.
FindWindow(w) ==
  /\ At(w, "provision", "window")
  /\ LET rows == (UNION {RowsOf(o): o \in Orders}) \cup GrantedRows
         ends == {row.expiresAt: row \in rows}
         live == {end \in ends: end = Forever \/ end > job[w].now}
     IN  job' = [job EXCEPT
           ![w].window = StackWindow(Durations[job[w].order], job[w].now, live),
           ![w].now = 0, ![w].at = "insert"]
  /\ UNCHANGED <<now, orderVars, ent, admin, lockVars, history>>

\* The row goes in when the unique provisioningKey allows, and the next grant,
\* or the end of the lock's work, follows.
AfterGrant(w) ==
  IF job[w].next < NumGrants THEN job' = [job EXCEPT ![w].next = @ + 1]
                             ELSE LeaveSection(w)
NewRow(w) == [status |-> "ACTIVE", startsAt |-> job[w].window.startsAt,
              expiresAt |-> job[w].window.expiresAt]

\* Mutant: a row that is already there ends the loop.
InsertGrant_StopsAtExisting(w) ==
  /\ At(w, "provision", "insert")
  /\ LET o == job[w].order
         g == job[w].next
     IN  IF Exists(o, g)
           THEN LeaveSection(w) /\ UNCHANGED ent
           ELSE AfterGrant(w) /\ ent' = [ent EXCEPT ![o][g] = NewRow(w)]
  /\ UNCHANGED <<now, orderVars, admin, lockVars, history>>

InsertGrant(w) ==
  /\ At(w, "provision", "insert")
  /\ LET o == job[w].order
         g == job[w].next
     IN  ent' = IF Exists(o, g) THEN ent
                                ELSE [ent EXCEPT ![o][g] = NewRow(w)]
  /\ AfterGrant(w)
  /\ UNCHANGED <<now, orderVars, admin, lockVars, history>>

\* order.save() writes provisionedAt and leaves the status alone.
SaveProvisioned(w) ==
  /\ At(w, "provision", "finish")
  /\ provisioned' = [provisioned EXCEPT ![job[w].order] = TRUE]
  /\ Return(w)
  /\ UNCHANGED <<now, orderStatus, completed, ent, admin, lockVars, history>>

-----------------------------------------------------------------------------
(* Refund settlement and admin revoke.                                        *)

\* settleProcessed: the winner of the refund's compare-and-set goes on. Any
\* later call finds it COMPLETED and returns.
ClaimRefund(w, o) ==
  /\ orderStatus[o] = "PAID"
  /\ ~completed[o]
  /\ completed' = [completed EXCEPT ![o] = TRUE]
  /\ Begin(w, [Idle EXCEPT !.op = "refund", !.order = o])
  /\ UNCHANGED <<now, orderStatus, provisioned, ent, admin, lockVars, history>>

\* revokePaymentEntitlementsForOrder: without rows there is nothing to anchor.
FindRows(w) ==
  /\ At(w, "refund", "start")
  /\ LET rows == {g \in Grants: Exists(job[w].order, g)}
     IN  job' = [job EXCEPT ![w].todo = rows,
                   ![w].at = IF rows = {} THEN "finish" ELSE "revoke"]
  /\ UNCHANGED <<now, orderVars, ent, admin, lockVars, history>>

\* Nothing reads the window of a revoked row again, so the model drops it.
Revoke(o, g) ==
  ent' = IF Active(o, g)
           THEN [ent EXCEPT ![o][g] = [NoRow EXCEPT !.status = "REVOKED"]]
           ELSE ent

\* Mutant: revoke skips the re-anchor of what is left.
RevokeRow_NoReanchor(w) ==
  /\ At(w, "refund", "revoke")
  /\ LET g == Min(job[w].todo)
     IN  /\ Revoke(job[w].order, g)
         /\ job' = [job EXCEPT ![w].todo = @ \ {g},
                      ![w].at = IF job[w].todo = {g} THEN "finish"
                                                      ELSE "revoke"]
  /\ UNCHANGED <<now, orderVars, admin, lockVars, history>>

RevokeRow(w) ==
  /\ At(w, "refund", "revoke")
  /\ LET g == Min(job[w].todo)
     IN  /\ Revoke(job[w].order, g)
         /\ job' = [job EXCEPT ![w].todo = @ \ {g},
                      ![w].at = IF job[w].todo = {g} THEN "lock" ELSE "revoke"]
  /\ UNCHANGED <<now, orderVars, admin, lockVars, history>>

AdminRevoke(w, o, g) ==
  /\ Active(o, g)
  /\ Revoke(o, g)
  /\ Begin(w, [Idle EXCEPT !.op = "revoke", !.at = "lock"])
  /\ UNCHANGED <<now, orderVars, admin, lockVars, history>>

\* grant, for a user who may or may not have bought the product. No lock.
AdminGrant(a) ==
  /\ admin[a].status = "NONE"
  /\ admin' = [admin EXCEPT ![a] =
       [status |-> "ACTIVE", startsAt |-> now,
        expiresAt |-> ExpiresAt(AdminMonths[a], now)]]
  /\ UNCHANGED <<now, orderVars, ent, lockVars, job, history>>

\* revoke of such a row: only a PAYMENT row re-anchors.
RevokeGrant(a) ==
  /\ admin[a].status = "ACTIVE"
  /\ admin' = [admin EXCEPT ![a].status = "REVOKED"]
  /\ UNCHANGED <<now, orderVars, ent, lockVars, job, history>>

\* One group per order, with the window of its earliest row.
Earliest(o) ==
  CHOOSE row \in RowsOf(o): \A other \in RowsOf(o): row.startsAt <= other.startsAt
Group(o) ==
  [order |-> o, startsAt |-> Earliest(o).startsAt,
   expiresAt |-> Earliest(o).expiresAt, duration |-> Durations[o]]
Groups == {Group(o): o \in {x \in Orders: RowsOf(x) # {}}}

PlanMoves(w) ==
  /\ job[w].at = "plan"
  /\ LET plans == Reanchor(Groups, now)
     IN  job' = [job EXCEPT ![w].plans = plans,
                   ![w].at = IF plans = <<>> THEN "unlock" ELSE "apply"]
  /\ UNCHANGED <<now, orderVars, ent, admin, lockVars, history>>

\* Moves the order's rows that still start where the plan found them.
ApplyMove(w) ==
  /\ job[w].at = "apply"
  /\ LET plan == Head(job[w].plans)
         Moved(row) == [row EXCEPT !.startsAt = plan.startsAt,
                                   !.expiresAt = plan.expiresAt]
         o == plan.order
     IN  ent' = [ent EXCEPT ![o] = [g \in Grants |->
           IF Active(o, g) /\ ent[o][g].startsAt = plan.previousStartsAt
             THEN Moved(ent[o][g]) ELSE ent[o][g]]]
  /\ IF Len(job[w].plans) > 1 THEN job' = [job EXCEPT ![w].plans = Tail(@)]
                              ELSE LeaveSection(w)
  /\ UNCHANGED <<now, orderVars, admin, lockVars, history>>

\* Mutant: the order gets the refund's status.
MarkRefunded_RefundEnum(w) ==
  /\ At(w, "refund", "finish")
  /\ orderStatus' = [orderStatus EXCEPT ![job[w].order] = "COMPLETED"]
  /\ Return(w)
  /\ UNCHANGED <<now, provisioned, completed, ent, admin, lockVars, history>>

\* markOrderRefunded.
MarkRefunded(w) ==
  /\ At(w, "refund", "finish")
  /\ orderStatus' = [orderStatus EXCEPT ![job[w].order] = "REFUNDED"]
  /\ Return(w)
  /\ UNCHANGED <<now, provisioned, completed, ent, admin, lockVars, history>>

-----------------------------------------------------------------------------
\* A crash leaves the lock row behind, a database error still releases it.
Abort(w) ==
  /\ CanFail
  /\ job[w] # Idle
  /\ aborts' = aborts + 1
  /\ lost' = lost \cup LeavesUndone(w)
  /\ \/ lock' = IF lock = w THEN Gone ELSE lock
     \/ lock = w /\ lock' = NoOne
  /\ leaseOver' = (leaseOver /\ lock' # NoOne)
  /\ late' = late \ {w}
  /\ Return(w)
  /\ UNCHANGED <<now, orderVars, ent, admin, overruns>>

Tick ==
  /\ \E day \in Days: day > now /\ now' = day
  /\ UNCHANGED <<orderVars, ent, admin, lockVars, job, history>>

Start(w) ==
  \E o \in Orders:
    \/ StartProvision(w, o) \/ ClaimRefund(w, o)
    \/ \E g \in Grants: AdminRevoke(w, o, g)

Step(w) ==
  \/ AcquireLock(w) \/ ReleaseLock(w)
  \/ FindWindow(w) \/ InsertGrant(w) \/ SaveProvisioned(w)
  \/ FindRows(w) \/ RevokeRow(w) \/ PlanMoves(w) \/ ApplyMove(w)
  \/ MarkRefunded(w)

Next ==
  \/ Tick \/ LeaseEnds
  \/ \E a \in Admins: AdminGrant(a) \/ RevokeGrant(a)
  \/ \E w \in Workers: Start(w) \/ Step(w) \/ LockBusy(w) \/ Abort(w)

Spec == Init /\ [][Next]_vars

\* A started request keeps running. The sweep picks up every PAID order without
\* provisionedAt again. The lease of a lost request ends. A lock that is free
\* again and again is taken in the end, by one of the retries.
Fairness ==
  /\ WF_vars(LeaseEnds /\ lock = Gone)
  /\ \A w \in Workers: WF_vars(Step(w)) /\ SF_vars(AcquireLock(w))
  /\ \A o \in Orders: SF_vars(\E w \in Workers: StartProvision(w, o))

FairSpec == Spec /\ Fairness

-----------------------------------------------------------------------------
(* Properties.                                                                *)

TypeOK ==
  /\ now \in Days
  /\ orderStatus \in [Orders -> {"PAID", "REFUNDED"}]
  /\ provisioned \in [Orders -> BOOLEAN]
  /\ completed \in [Orders -> BOOLEAN]
  /\ ent \in [Orders -> [Grants -> Row]]
  /\ admin \in [Admins -> Row]
  /\ lock \in Workers \cup {NoOne, Gone}
  /\ leaseOver \in BOOLEAN
  /\ job \in [Workers -> Job]
  /\ aborts \in 0..MaxFaults
  /\ overruns \in 0..MaxFaults
  /\ late \subseteq Workers
  /\ lost \subseteq {"provision", "reanchor"}

AtRest == \A w \in Workers: job[w] = Idle

InSection(w) == job[w].at \in {"window", "insert", "plan", "apply", "unlock"}

\* Of the workers that provision or re-anchor the same user and product, one
\* at most holds a lease that has not ended under it: neither a lost holder nor
\* a slow one, which still releases what it believes to hold, opens the section
\* to two others.
LockExclusive ==
  \A v, w \in Workers:
    InSection(v) /\ InSection(w) /\ {v, w} \cap late = {} => v = w

Finite(o, g) == Active(o, g) /\ ent[o][g].expiresAt # Forever

\* How far the calendar lets a window that moved up run into the next one.
Slip == 3

\* D-09: purchases stack back to back, so no paid time is spent twice, whatever
\* is revoked in between and wherever a re-anchor is lost. The finite windows of
\* two orders share less than three days: a month that starts on 31 January
\* ends after one that starts on 1 February, so a window that moves up may end
\* inside the one behind it. (A provisioning that is lost splits its order.)
NoOverlap ==
  overruns = 0 /\ "provision" \notin lost =>
    \A o, p \in Orders: \A g, h \in Grants:
      o # p /\ Finite(o, g) /\ Finite(p, h) =>
        \/ ent[o][g].expiresAt < ent[p][h].startsAt + Slip
        \/ ent[p][h].expiresAt < ent[o][g].startsAt + Slip

Covers(row, day) ==
  row.startsAt <= day /\ (row.expiresAt = Forever \/ day < row.expiresAt)

\* D-23: once every revoke has re-anchored, each day that a purchase still waits
\* is covered by another purchase or was by an admin's grant. (A grant that is
\* taken back re-anchors nothing, so it counts.)
NoGap ==
  AtRest /\ overruns = 0 /\ lost = {} =>
    \A o \in Orders: \A g \in Grants: Active(o, g) =>
      \A day \in now..(ent[o][g].startsAt - 1):
        \/ \E p \in Orders: \E h \in Grants:
             Active(p, h) /\ Covers(ent[p][h], day)
        \/ \E a \in Admins:
             admin[a].status # "NONE" /\ Covers(admin[a], day)

\* An order that the sweep will not look at again has a row for every grant.
ProvisionedIsComplete ==
  \A o \in Orders: provisioned[o] => \A g \in Grants: Exists(o, g)

\* D-23: a window only ever moves earlier, keeps its full duration, and a
\* revoked row stays revoked, even when leases are outlived and plans go stale.
OnlyMovesEarlier ==
  [][\A o \in Orders: \A g \in Grants:
       Exists(o, g) /\ ent'[o][g] # ent[o][g] =>
         \/ ent'[o][g].status = "REVOKED"
         \/ /\ Active(o, g) /\ ent'[o][g].status = "ACTIVE"
            /\ ent'[o][g].startsAt < ent[o][g].startsAt
            /\ ent'[o][g].expiresAt =
                 ExpiresAt(Durations[o], ent'[o][g].startsAt)]_vars

\* Every paid order is provisioned in the end, unless it is refunded first,
\* although the paid handler runs only once and any request can be lost.
PaidIsProvisioned ==
  \A o \in Orders:
    (orderStatus[o] = "PAID") ~> (provisioned[o] \/ orderStatus[o] = "REFUNDED")
=============================================================================
