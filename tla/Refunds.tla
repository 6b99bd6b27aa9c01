------------------------------- MODULE Refunds -------------------------------
(***************************************************************************)
(* The refunds of one paid order: of its payment, asked for by an admin, and *)
(* of a second capture, asked for by the refund scheduler. Each payment has  *)
(* one row in the refunds collection. The provider keeps its own refunds,     *)
(* finishes them later, and tells of them by webhook, by polling and by       *)
(* listing. An operator can also refund on the provider's dashboard.         *)
(*                                                                          *)
(* A job is one admin request, webhook delivery or scheduler row, one        *)
(* database or provider call per step. Saves write single fields, status is  *)
(* only changed by compare-and-set.                                          *)
(***************************************************************************)
EXTENDS Integers, Sequences

CONSTANTS
  Primary,        \* the payment of the order
  Duplicates,     \* second captures of the order
  Jobs,           \* requests that can run at the same time
  MaxRefunds,     \* bound on refunds at the provider
  MaxDeliveries,  \* bound on webhook deliveries
  MaxFaults,      \* bound on provider calls without an answer and lost jobs
  MaxRetries      \* bound on admin and scheduler retries of a FAILED refund

Payments == {Primary} \cup Duplicates
NoRefund == 0
RefundIds == 1..MaxRefunds

ASSUME PrimaryIsNoDuplicate == Primary \notin Duplicates
ASSUME BoundsAreNat == {MaxRefunds, MaxDeliveries, MaxFaults, MaxRetries} \subseteq Nat

VARIABLES
  order,      \* order.status
  revoked,    \* the entitlements of the order are revoked
  row,        \* the refunds collection, one row per payment
  prov,       \* refunds at the provider
  job,        \* what each job is doing
  delivered,  \* webhook deliveries so far
  faults,     \* faults so far
  retries,    \* retries so far
  gaveUp,     \* payments whose refund was FAILED with its outcome unknown
  strayed     \* payments whose row was FAILED by news of another attempt, got
              \* a refund while FAILED or in place of its own, or lost the job
              \* that worked on it

bounds == <<delivered, faults, retries>>
history == <<gaveUp, strayed>>
vars == <<order, revoked, row, prov, job, bounds, history>>

NoRow == [status |-> "NONE", pid |-> NoRefund, unknown |-> "no", fresh |-> FALSE,
          partial |-> FALSE]
Row == [status: {"NONE", "INITIATED", "FAILED", "COMPLETED"},
        pid: {NoRefund} \cup RefundIds, unknown: {"no", "recent", "old"},
        fresh: BOOLEAN, partial: BOOLEAN]
ProviderRefund == [payment: Payments, status: {"pending", "processed", "failed"},
                   full: BOOLEAN, by: {"app", "dashboard"}]
\* missing: what follows when settleProcessed or settleFailed finds nothing.
Job == [op: {"none", "admin", "sched", "hook"},
        at: {"idle", "clear", "call", "save", "unknown", "reject", "settle",
             "saveDone", "claim", "revoke", "mark", "failRead", "failClaim",
             "fetch", "list", "listDue", "listed", "giveUp", "recover", "recoverSave"},
        payment: Payments, pid: {NoRefund} \cup RefundIds,
        missing: {"end", "recover"}]
Idle == [op |-> "none", at |-> "idle", payment |-> Primary, pid |-> NoRefund,
         missing |-> "end"]

Init ==
  /\ order = "PAID"
  /\ revoked = FALSE
  /\ row = [p \in Payments |-> NoRow]
  /\ prov = <<>>
  /\ job = [j \in Jobs |-> Idle]
  /\ delivered = 0
  /\ faults = 0
  /\ retries = 0
  /\ gaveUp = {}
  /\ strayed = {}

At(j, at) == job[j].at = at
Go(j, at) == job' = [job EXCEPT ![j].at = at]
End(j) == job' = [job EXCEPT ![j] = Idle]
GoOrEnd(j, at) == IF at = "end" THEN End(j) ELSE Go(j, at)
Begin(j, op, p, at, pid) ==
  /\ At(j, "idle")
  /\ job' = [job EXCEPT ![j] = [op |-> op, at |-> at, payment |-> p, pid |-> pid,
                                missing |-> IF op = "hook" THEN "recover" ELSE "end"]]

\* Every write sets updatedAt.
Update(p, r) == row' = [row EXCEPT ![p] = [r EXCEPT !.fresh = TRUE]]
Set(p, status) == Update(p, [row[p] EXCEPT !.status = status])
\* refund.providerRefundId = r, saved with nothing else but the time. It is
\* noted when the row is FAILED by then, or knew another refund that lives on.
SaveRefund(p, r, rec) ==
  LET old == row[p].pid IN
  /\ Update(p, [rec EXCEPT !.pid = r])
  /\ strayed' = IF \/ row[p].status = "FAILED"
                   \/ old \notin {NoRefund, r} /\ prov[old].status # "failed"
                THEN strayed \cup {p} ELSE strayed
LiveAt(p) ==
  \E r \in DOMAIN prov : prov[r].payment = p /\ prov[r].status # "failed"

\* beginRefund and the duplicate sweep: insert the row of the payment, or take
\* a FAILED one back. outcomeUnknownAt of the earlier attempt stays.
Claim(j, op, p) ==
  \/ /\ row[p].status = "NONE"
     /\ Update(p, [NoRow EXCEPT !.status = "INITIATED"])
     /\ Begin(j, op, p, "call", NoRefund)
     /\ UNCHANGED retries
  \/ /\ row[p].status = "FAILED"
     /\ retries < MaxRetries
     /\ retries' = retries + 1
     /\ Set(p, "INITIATED")
     /\ Begin(j, op, p, IF op = "admin" THEN "clear" ELSE "call", NoRefund)

AdminRefund(j) ==
  /\ order = "PAID"
  /\ Claim(j, "admin", Primary)
  /\ UNCHANGED <<order, revoked, prov, delivered, faults, history>>

\* A FAILED row that is taken back drops the refund it knew.
ClearPid(j) ==
  /\ At(j, "clear")
  /\ Update(job[j].payment, [row[job[j].payment] EXCEPT !.pid = NoRefund])
  /\ Go(j, "call")
  /\ UNCHANGED <<order, revoked, prov, bounds, history>>

NewRefund(p, status, full, by) ==
  /\ Len(prov) < MaxRefunds
  /\ prov' = Append(prov, [payment |-> p, status |-> status, full |-> full, by |-> by])

\* gateway.refund: accepted, refused, or no answer with or without a refund. An
\* answer of another amount or status is thrown by the gateway as no answer.
ProviderAccepts(j) ==
  LET p == job[j].payment IN
  /\ At(j, "call")
  /\ ~LiveAt(p)
  /\ \/ /\ NewRefund(p, "pending", TRUE, "app")
        /\ job' = [job EXCEPT ![j].at = "save", ![j].pid = Len(prov')]
     \/ /\ NewRefund(p, "processed", TRUE, "app")
        /\ job' = [job EXCEPT ![j].at = "saveDone", ![j].pid = Len(prov')]
  /\ UNCHANGED <<order, revoked, row, bounds, history>>

ProviderRejects(j) ==
  /\ At(j, "call")
  /\ Go(j, "reject")
  /\ UNCHANGED <<order, revoked, row, prov, bounds, history>>

NoAnswer(j) ==
  /\ At(j, "call")
  /\ faults < MaxFaults
  /\ faults' = faults + 1
  /\ \/ UNCHANGED prov
     \/ ~LiveAt(job[j].payment) /\ NewRefund(job[j].payment, "pending", TRUE, "app")
  /\ Go(j, "unknown")
  /\ UNCHANGED <<order, revoked, row, delivered, retries, history>>

\* A refund that was processed at once is settled at once.
SavePid(j) ==
  /\ \/ At(j, "save") /\ End(j)
     \/ At(j, "saveDone") /\ Go(j, "settle")
  /\ SaveRefund(job[j].payment, job[j].pid, row[job[j].payment])
  /\ UNCHANGED <<order, revoked, prov, bounds, gaveUp>>

\* Mutant: an unknown outcome is taken for a refusal.
SaveUnknown_Fails(j) ==
  LET p == job[j].payment IN
  /\ At(j, "unknown")
  /\ Set(p, "FAILED")
  /\ End(j)
  /\ UNCHANGED <<order, revoked, prov, bounds, history>>

SaveUnknown(j) ==
  LET p == job[j].payment IN
  /\ At(j, "unknown")
  /\ Update(p, [row[p] EXCEPT !.unknown = "recent"])
  /\ End(j)
  /\ UNCHANGED <<order, revoked, prov, bounds, history>>

\* A job has begun an attempt for p whose refund the row does not know yet.
Attempting(p) ==
  \E j \in Jobs : job[j].payment = p
                   /\ job[j].at \in {"clear", "call", "save", "saveDone", "unknown"}

\* compareAndSet from INITIATED to FAILED.
FailInitiated(p) ==
  IF row[p].status = "INITIATED" THEN Set(p, "FAILED") ELSE UNCHANGED row

SaveRejected(j) ==
  LET p == job[j].payment IN
  /\ At(j, "reject")
  /\ FailInitiated(p)
  /\ strayed' = IF LiveAt(p) \/ Attempting(p) THEN strayed \cup {p} ELSE strayed
  /\ End(j)
  /\ UNCHANGED <<order, revoked, prov, bounds, gaveUp>>

\* findByProviderRefundId.
Holding(pid) == {p \in Payments : row[p].status # "NONE" /\ row[p].pid = pid}
Missing(j) == GoOrEnd(j, job[j].missing)

\* Mutant: settles whatever amount the provider has refunded.
SettleRead_AnyAmount(j) ==
  LET pid == job[j].pid IN
  /\ At(j, "settle")
  /\ \/ Holding(pid) = {} /\ Missing(j)
     \/ \E p \in Holding(pid) :
          \/ row[p].status = "COMPLETED" /\ End(j)
          \/ /\ row[p].status # "COMPLETED"
             /\ job' = [job EXCEPT ![j].at = "claim", ![j].payment = p]
  /\ UNCHANGED <<order, revoked, row, prov, bounds, history>>

\* settleProcessed up to its compare-and-set.
SettleRead(j) ==
  LET pid == job[j].pid IN
  /\ At(j, "settle")
  /\ \/ Holding(pid) = {} /\ Missing(j)
     \/ \E p \in Holding(pid) :
          \/ row[p].status = "COMPLETED" /\ End(j)
          \/ /\ row[p].status # "COMPLETED"
             /\ \/ ~prov[pid].full /\ End(j)
                \/ /\ prov[pid].full
                   /\ job' = [job EXCEPT ![j].at = "claim", ![j].payment = p]
  /\ UNCHANGED <<order, revoked, row, prov, bounds, history>>

\* Mutant: the refund of a second capture revokes too.
SettleClaim_AnyKind(j) ==
  LET p == job[j].payment IN
  /\ At(j, "claim")
  /\ \/ /\ row[p].status = "INITIATED"
        /\ Set(p, "COMPLETED")
        /\ IF order # "REFUNDED" THEN Go(j, "revoke") ELSE End(j)
     \/ /\ row[p].status # "INITIATED"
        /\ IF row[p].status = "COMPLETED" \/ order = "REFUNDED" THEN End(j) ELSE Missing(j)
        /\ UNCHANGED row
  /\ UNCHANGED <<order, revoked, prov, bounds, history>>

\* The job that wins goes on to the entitlements and the order, unless it is
\* the refund of a second capture or of an order already REFUNDED.
SettleClaim(j) ==
  LET p == job[j].payment IN
  /\ At(j, "claim")
  /\ \/ /\ row[p].status = "INITIATED"
        /\ Set(p, "COMPLETED")
        /\ IF p = Primary /\ order # "REFUNDED" THEN Go(j, "revoke") ELSE End(j)
     \/ /\ row[p].status # "INITIATED"
        /\ IF row[p].status = "COMPLETED" \/ order = "REFUNDED" THEN End(j) ELSE Missing(j)
        /\ UNCHANGED row
  /\ UNCHANGED <<order, revoked, prov, bounds, history>>

RevokeEntitlements(j) ==
  /\ At(j, "revoke")
  /\ revoked' = TRUE
  /\ Go(j, "mark")
  /\ UNCHANGED <<order, row, prov, bounds, history>>

MarkOrderRefunded(j) ==
  /\ At(j, "mark")
  /\ order' = "REFUNDED"
  /\ End(j)
  /\ UNCHANGED <<revoked, row, prov, bounds, history>>

\* settleFailed.
FailRead(j) ==
  LET pid == job[j].pid IN
  /\ At(j, "failRead")
  /\ \/ Holding(pid) = {} /\ Missing(j)
     \/ \E p \in Holding(pid) :
          \/ row[p].status # "INITIATED" /\ End(j)
          \/ /\ row[p].status = "INITIATED"
             /\ job' = [job EXCEPT ![j].at = "failClaim", ![j].payment = p]
  /\ UNCHANGED <<order, revoked, row, prov, bounds, history>>

FailClaim(j) ==
  LET p == job[j].payment IN
  /\ At(j, "failClaim")
  /\ FailInitiated(p)
  /\ strayed' = IF row[p].status = "INITIATED"
                     /\ (row[p].pid # job[j].pid \/ row[p].unknown # "no" \/ Attempting(p))
                THEN strayed \cup {p} ELSE strayed
  /\ End(j)
  /\ UNCHANGED <<order, revoked, prov, bounds, gaveUp>>

\* The scheduler runs one pass at a time. Each query is its own start.
NoPass == \A j \in Jobs : job[j].op # "sched"

\* Mutant: the query forgets that providerRefundId must be set.
SchedKnown_AnyPid(j, p) ==
  /\ NoPass
  /\ row[p].status = "INITIATED" /\ ~row[p].fresh
  /\ Begin(j, "sched", p, "fetch", row[p].pid)
  /\ UNCHANGED <<order, revoked, row, prov, bounds, history>>

SchedKnown(j, p) ==
  /\ NoPass
  /\ row[p].status = "INITIATED" /\ row[p].pid # NoRefund /\ ~row[p].fresh
  /\ Begin(j, "sched", p, "fetch", row[p].pid)
  /\ UNCHANGED <<order, revoked, row, prov, bounds, history>>

\* Mutant: polling only sees failures.
FetchRefundStatus_OnlyFailed(j) ==
  LET status == prov[job[j].pid].status IN
  /\ At(j, "fetch")
  /\ IF status = "failed" THEN Go(j, "failRead") ELSE End(j)
  /\ UNCHANGED <<order, revoked, row, prov, bounds, history>>

FetchRefundStatus(j) ==
  LET status == prov[job[j].pid].status IN
  /\ At(j, "fetch")
  /\ \/ status = "pending" /\ End(j)
     \/ status = "processed" /\ Go(j, "settle")
     \/ status = "failed" /\ Go(j, "failRead")
  /\ UNCHANGED <<order, revoked, row, prov, bounds, history>>

\* resolveUnknownRefunds of one row.
SchedUnknown(j, p) ==
  /\ NoPass
  /\ row[p].status = "INITIATED" /\ row[p].unknown # "no"
  /\ Begin(j, "sched", p, IF row[p].unknown = "old" THEN "listDue" ELSE "list", NoRefund)
  /\ UNCHANGED <<order, revoked, row, prov, bounds, history>>

ListRefunds(j) ==
  LET p == job[j].payment
      processed == {r \in DOMAIN prov : prov[r].payment = p /\ prov[r].full
                                          /\ prov[r].status = "processed"}
  IN
  /\ job[j].at \in {"list", "listDue"}
  /\ \/ \E r \in processed : job' = [job EXCEPT ![j].at = "listed", ![j].pid = r]
     \/ processed = {} /\ At(j, "listDue") /\ Go(j, "giveUp")
     \/ processed = {} /\ At(j, "list") /\ End(j)
  /\ UNCHANGED <<order, revoked, row, prov, bounds, history>>

SaveListed(j) ==
  LET p == job[j].payment IN
  /\ At(j, "listed")
  /\ SaveRefund(p, job[j].pid, [row[p] EXCEPT !.unknown = "no"])
  /\ Go(j, "settle")
  /\ UNCHANGED <<order, revoked, prov, bounds, gaveUp>>

GiveUp(j) ==
  LET p == job[j].payment IN
  /\ At(j, "giveUp")
  /\ FailInitiated(p)
  /\ gaveUp' = gaveUp \cup {p}
  /\ End(j)
  /\ UNCHANGED <<order, revoked, prov, bounds, strayed>>

\* refundDuplicateCaptures of one second capture.
SchedDuplicate(j, p) ==
  /\ NoPass
  /\ p \in Duplicates
  /\ Claim(j, "sched", p)
  /\ UNCHANGED <<order, revoked, prov, delivered, faults, history>>

\* A webhook tells of a refund that is over, any number of times or never.
Deliver(j, r) ==
  /\ delivered < MaxDeliveries
  /\ delivered' = delivered + 1
  /\ \/ prov[r].status = "processed" /\ Begin(j, "hook", prov[r].payment, "settle", r)
     \/ prov[r].status = "failed" /\ Begin(j, "hook", prov[r].payment, "failRead", r)
  /\ UNCHANGED <<order, revoked, row, prov, faults, retries, history>>

\* recoverRefundWebhook: a refund no row knows. A row without a refund takes
\* it, a payment without a row gets one.
Recover(j) ==
  LET r == job[j].pid
      p == prov[r].payment
      again == [job EXCEPT ![j].payment = p, ![j].missing = "end",
                           ![j].at = IF prov[r].status = "failed" THEN "failRead"
                                     ELSE "settle"]
  IN
  /\ At(j, "recover")
  /\ \/ /\ row[p].status # "NONE"
        /\ job' = IF row[p].pid # NoRefund THEN again
                  ELSE [job EXCEPT ![j].payment = p, ![j].at = "recoverSave"]
        /\ UNCHANGED row
     \/ /\ row[p].status = "NONE"
        /\ \/ prov[r].status = "failed" /\ End(j) /\ UNCHANGED row
           \/ /\ prov[r].status = "processed" /\ ~prov[r].full
              /\ Update(p, [NoRow EXCEPT !.status = "COMPLETED", !.pid = r,
                                         !.partial = TRUE])
              /\ End(j)
           \/ /\ prov[r].status = "processed" /\ prov[r].full
              /\ Update(p, [NoRow EXCEPT !.status = "INITIATED", !.pid = r])
              /\ job' = again
  /\ UNCHANGED <<order, revoked, prov, bounds, history>>

RecoverSave(j) ==
  LET p == job[j].payment
      r == job[j].pid
  IN
  /\ At(j, "recoverSave")
  /\ SaveRefund(p, r, row[p])
  /\ job' = [job EXCEPT ![j].missing = "end",
                        ![j].at = IF prov[r].status = "failed" THEN "failRead"
                                  ELSE "settle"]
  /\ UNCHANGED <<order, revoked, prov, bounds, gaveUp>>

\* The provider, and its dashboard.
ProviderFinishes(r) ==
  /\ prov[r].status = "pending"
  /\ \E s \in {"processed", "failed"} : prov' = [prov EXCEPT ![r].status = s]
  /\ UNCHANGED <<order, revoked, row, job, bounds, history>>

DashboardRefund(p) ==
  /\ ~LiveAt(p)
  /\ \E full \in BOOLEAN : NewRefund(p, "pending", full, "dashboard")
  /\ UNCHANGED <<order, revoked, row, job, bounds, history>>

\* A minute passes for a row, or the window of its unknown outcome.
Age(p) ==
  /\ \/ row[p].fresh /\ row' = [row EXCEPT ![p].fresh = FALSE]
     \/ row[p].unknown = "recent" /\ row' = [row EXCEPT ![p].unknown = "old"]
  /\ UNCHANGED <<order, revoked, prov, job, bounds, history>>

\* A request is lost to a crash or a database error.
Lose(j) ==
  LET p == job[j].payment IN
  /\ ~At(j, "idle")
  /\ faults < MaxFaults
  /\ faults' = faults + 1
  /\ strayed' = IF job[j].at \in {"clear", "call", "save", "saveDone", "unknown",
                                  "reject", "revoke", "mark"}
                THEN strayed \cup {p} ELSE strayed
  /\ End(j)
  /\ UNCHANGED <<order, revoked, row, prov, delivered, retries, gaveUp>>

Step(j) ==
  \/ ClearPid(j) \/ ProviderAccepts(j) \/ ProviderRejects(j) \/ NoAnswer(j)
  \/ SavePid(j) \/ SaveUnknown(j) \/ SaveRejected(j)
  \/ SettleRead(j) \/ SettleClaim(j) \/ RevokeEntitlements(j) \/ MarkOrderRefunded(j)
  \/ FailRead(j) \/ FailClaim(j) \/ FetchRefundStatus(j)
  \/ ListRefunds(j) \/ SaveListed(j) \/ GiveUp(j) \/ Recover(j) \/ RecoverSave(j)

Sched(j) ==
  \E p \in Payments : SchedKnown(j, p) \/ SchedUnknown(j, p) \/ SchedDuplicate(j, p)

Next ==
  \/ \E j \in Jobs : \/ AdminRefund(j) \/ Step(j) \/ Sched(j) \/ Lose(j)
                     \/ \E r \in DOMAIN prov : Deliver(j, r)
  \/ \E r \in DOMAIN prov : ProviderFinishes(r)
  \/ \E p \in Payments : DashboardRefund(p) \/ Age(p)

Spec == Init /\ [][Next]_vars

\* Requests run to their end, the provider finishes what it has taken, time
\* passes and the scheduler's timer comes round for every row.
Fairness ==
  /\ \A j \in Jobs : WF_vars(Step(j))
  /\ \A r \in RefundIds : WF_vars(r \in DOMAIN prov /\ ProviderFinishes(r))
  /\ \A p \in Payments :
       /\ WF_vars(Age(p))
       /\ SF_vars(\E j \in Jobs : SchedKnown(j, p))
       /\ SF_vars(\E j \in Jobs : SchedUnknown(j, p))
       /\ SF_vars(\E j \in Jobs : SchedDuplicate(j, p))

FairSpec == Spec /\ Fairness
-----------------------------------------------------------------------------
\* Every variable has its type, and a job that settles knows a refund.
TypeOK ==
  /\ order \in {"PAID", "REFUNDED"}
  /\ revoked \in BOOLEAN
  /\ row \in [Payments -> Row]
  /\ Len(prov) \in 0..MaxRefunds
  /\ \A r \in DOMAIN prov : prov[r] \in ProviderRefund
  /\ job \in [Jobs -> Job]
  /\ \A j \in Jobs :
       job[j].at \in {"save", "saveDone", "settle", "claim", "failRead", "failClaim", "fetch",
                      "listed", "recover", "recoverSave"}
         => job[j].pid \in DOMAIN prov
  /\ delivered \in 0..MaxDeliveries
  /\ faults \in 0..MaxFaults
  /\ retries \in 0..MaxRetries
  /\ {gaveUp, strayed} \subseteq SUBSET Payments

ProcessedFor(p) ==
  {r \in DOMAIN prov : prov[r].payment = p /\ prov[r].status = "processed"}

\* A COMPLETED row has money behind it: the provider has processed a refund of
\* this payment and of the size the row says (settleProcessed), also when a
\* late recovery has overwritten which refund the row names.
CompletedIsProcessed ==
  \A p \in Payments :
    row[p].status = "COMPLETED" =>
      \E r \in ProcessedFor(p) : prov[r].full = ~row[p].partial

\* Access and the order end only with a full refund of the order's own
\* payment: a second capture or a part refunded on the dashboard leaves them.
RevokedOnlyByFullRefund ==
  revoked \/ order = "REFUNDED" =>
    /\ revoked
    /\ \E r \in ProcessedFor(Primary) : prov[r].full
    /\ row[Primary].status = "COMPLETED"

\* A row says FAILED, which lets an admin or the sweep ask for the money again,
\* only when no refund the application asked for is pending or paid out - unless
\* the window of an unknown outcome ran out or news of two attempts crossed.
FailedHasNoLiveRefund ==
  \A p \in Payments \ (gaveUp \cup strayed) :
    row[p].status = "FAILED" =>
      ~\E r \in DOMAIN prov : /\ prov[r].payment = p
                              /\ prov[r].by = "app"
                              /\ prov[r].status # "failed"

\* A processed full refund that the order's row names ends in a REFUNDED order,
\* whatever webhooks were lost, repeated or early: the sweep asks for every row
\* it can name (reconcileInitiatedRefunds). A refund that no row names yet, one
\* made at the dashboard say, waits for its webhook and is not spoken of here,
\* nor is a payment whose refund was given up or whose row was led astray.
ProcessedIsSettled ==
  \A r \in RefundIds :
    (/\ r \in ProcessedFor(Primary)
     /\ prov[r].full
     /\ row[Primary].pid = r)
      ~> (order = "REFUNDED" \/ Primary \in gaveUp \cup strayed)
=============================================================================
