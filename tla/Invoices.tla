------------------------------ MODULE Invoices -------------------------------
(***************************************************************************)
(* How a paid order gets its access and its tax invoice, whatever fails on   *)
(* the way: the request that makes the order PAID provisions it, the notifier *)
(* schedules the invoice in the process's memory, and the repair sweep and    *)
(* the administrator's repair do again what a fault or a restart left undone. *)
(* A refund may take the payment and the order back at any point.             *)
(*                                                                           *)
(* A job is one run of one of them and takes one database call per step. The  *)
(* grants themselves are in Fulfilment: here provisioning is its first read   *)
(* and its save.                                                             *)
(***************************************************************************)
EXTENDS Naturals, FiniteSets

CONSTANTS
  Orders,     \* orders, whose invoices share one series (prefix and year)
  Requests,   \* requests and scheduled tasks that can run at the same time
  Sweeper,    \* the repair sweep: one per process, and passes never overlap
  MaxOthers,  \* bound on the invoices of other orders in the series
  MaxFaults   \* bound on throwing calls and on restarts

ASSUME SweeperIsNoRequest == Sweeper \notin Requests
ASSUME OrdersAreFinite == IsFiniteSet(Orders)
ASSUME BoundsAreNat == {MaxOthers, MaxFaults} \subseteq Nat

VARIABLES
  status,       \* order.status, where PENDING stands for every unpaid status
  age,          \* time since order.paidAt, in steps of the two repair delays
  provisioned,  \* orders with provisionedAt
  next,         \* order.nextRepairAt: unset, in the future, or reached
  invoice,      \* the sequence of the order's tax invoice, 0 without one
  others,       \* the sequences of the invoices of other orders
  pdf,          \* orders whose invoice has its pdfStorageKey
  scheduled,    \* invoice tasks handed to setImmediate and not begun
  job,          \* what each request and the sweep is doing
  sweep,        \* the sweep's phase and the rows it has read and not examined
  faults        \* faults so far

orderVars == <<status, age>>
repairVars == <<provisioned, next>>
invoiceVars == <<invoice, others, pdf>>
vars == <<orderVars, repairVars, invoiceVars, scheduled, job, sweep, faults>>

Jobs == Requests \cup {Sweeper}

\* Age 0: INVOICE_DELAY_MS has not passed; age 1: it has; age 2: so has
\* PROVISION_DELAY_MS.
InvoiceDelay == 1
ProvisionDelay == 2

\* op "clear" is clearRepair outside repairDocument. ready: ready() of the order
\* that repairDocument has read afresh; number: the sequence to be inserted.
IdleJob == [op |-> "none", of |-> Sweeper, at |-> "idle", ready |-> FALSE, number |-> 0]
IdleSweep == [phase |-> "idle", rows |-> <<>>, due |-> {}]

Init ==
  /\ status = [o \in Orders |-> "PENDING"]
  /\ age = [o \in Orders |-> 0]
  /\ provisioned = {}
  /\ next = [o \in Orders |-> "unset"]
  /\ invoice = [o \in Orders |-> 0]
  /\ others = {}
  /\ pdf = {}
  /\ scheduled = [o \in Orders |-> 0]
  /\ job = [j \in Jobs |-> IdleJob]
  /\ sweep = IdleSweep
  /\ faults = 0

At(j, point) == job[j].at = point
Begin(j, o, op, point) ==
  job' = [job EXCEPT ![j] = [IdleJob EXCEPT !.op = op, !.of = o, !.at = point]]
Goto(j, point) == Begin(j, job[j].of, job[j].op, point)
Return(j) == job' = [job EXCEPT ![j] = IdleJob]

\* The caller of provisioning or of the invoice service gets its answer: only
\* repairDocument has something left to do.
Answer(j, point) == IF job[j].op = "repair" THEN Goto(j, point) ELSE Return(j)
Throws(j) == Answer(j, "failed")

\* The administrator's repair passes force.
Due(o) == next[o] # "future"
Ready(j, o, delay) == j # Sweeper \/ (age[o] >= delay /\ Due(o))

-----------------------------------------------------------------------------
(* EntitlementProvisioningService.provisionForPaidOrder and the notifier.     *)

\* markOrderPaid's winning write, after which its request runs the paid handler.
Pay(r, o) ==
  /\ At(r, "idle") /\ status[o] = "PENDING"
  /\ status' = [status EXCEPT ![o] = "PAID"]
  /\ Begin(r, o, "pay", "provision")
  /\ UNCHANGED <<age, repairVars, invoiceVars, scheduled, sweep, faults>>

ProvisionRead(j) ==
  /\ At(j, "provision")
  /\ LET o == job[j].of
     IN CASE status[o] # "PAID" -> Throws(j)
          [] status[o] = "PAID" /\ o \in provisioned -> Answer(j, "fresh")
          [] OTHER -> Goto(j, "save")
  /\ UNCHANGED <<orderVars, repairVars, invoiceVars, scheduled, sweep, faults>>

\* Mutant: provisioning leaves the first repair to be scheduled by a failure.
ProvisionSave_NoRepair(j) ==
  /\ At(j, "save")
  /\ LET o == job[j].of
     IN /\ provisioned' = provisioned \cup {o}
        /\ scheduled' = [scheduled EXCEPT ![o] = @ + 1]
  /\ Answer(j, "fresh")
  /\ UNCHANGED <<orderVars, next, invoiceVars, sweep, faults>>

\* order.save() writes provisionedAt and the instant of the first repair, and
\* onOrderProvisioned leaves the invoice to setImmediate.
ProvisionSave(j) ==
  /\ At(j, "save")
  /\ LET o == job[j].of
     IN /\ provisioned' = provisioned \cup {o}
        /\ next' = [next EXCEPT ![o] = IF age[o] < InvoiceDelay THEN "future" ELSE "reached"]
        /\ scheduled' = [scheduled EXCEPT ![o] = @ + 1]
  /\ Answer(j, "fresh")
  /\ UNCHANGED <<orderVars, invoiceVars, sweep, faults>>

-----------------------------------------------------------------------------
(* InvoiceService.issueForPaidOrder, insertInvoice and ensurePdf.             *)

RunScheduled(r, o) ==
  /\ At(r, "idle") /\ scheduled[o] > 0
  /\ scheduled' = [scheduled EXCEPT ![o] = @ - 1]
  /\ Begin(r, o, "issue", "issue")
  /\ UNCHANGED <<orderVars, repairVars, invoiceVars, sweep, faults>>

\* The reads of issueForPaidOrder: the order, its invoice and its payment. They
\* only move forward, PAID to REFUNDED and none to one, and what moves between
\* two of the reads ends as if it had moved before all of them.
IssueRead(j) ==
  /\ At(j, "issue")
  /\ LET o == job[j].of
     IN CASE o \in pdf -> Answer(j, "clear")
          [] invoice[o] > 0 /\ o \notin pdf -> Goto(j, "pdf")
          [] invoice[o] = 0 /\ status[o] = "PAID" -> Goto(j, "sequence")
          [] OTHER -> Throws(j)
  /\ UNCHANGED <<orderVars, repairVars, invoiceVars, scheduled, sweep, faults>>

Issued == {o \in Orders : invoice[o] > 0}
Numbers == {invoice[o] : o \in Issued} \cup others
Latest == IF Numbers = {} THEN 0 ELSE CHOOSE n \in Numbers : \A m \in Numbers : m <= n

NextSequence(j) ==
  /\ At(j, "sequence")
  /\ job' = [job EXCEPT ![j].at = "create", ![j].number = Latest + 1]
  /\ UNCHANGED <<orderVars, repairVars, invoiceVars, scheduled, sweep, faults>>

\* Mutant: invoiceNumber has no unique index.
InsertInvoice_NumberNotUnique(j) ==
  /\ At(j, "create")
  /\ LET o == job[j].of
     IN invoice' = [invoice EXCEPT ![o] = IF @ > 0 THEN @ ELSE job[j].number]
  /\ Goto(j, "pdf")
  /\ UNCHANGED <<orderVars, repairVars, others, pdf, scheduled, sweep, faults>>

\* The unique orderId and invoiceNumber: the loser of the first takes the
\* winner's invoice, the loser of the second asks for the next number. A number
\* is lost to another order, so an attempt per order is enough out of the eight.
InsertInvoice(j) ==
  /\ At(j, "create")
  /\ LET o == job[j].of
     IN \/ /\ invoice[o] = 0 /\ job[j].number \notin Numbers
           /\ invoice' = [invoice EXCEPT ![o] = job[j].number]
           /\ Goto(j, "pdf")
        \/ /\ invoice[o] > 0
           /\ IF o \in pdf THEN Answer(j, "clear") ELSE Goto(j, "pdf")
           /\ UNCHANGED invoice
        \/ /\ job[j].number \in Numbers
           /\ Goto(j, "sequence")
           /\ UNCHANGED invoice
  /\ UNCHANGED <<orderVars, repairVars, others, pdf, scheduled, sweep, faults>>

\* An order of which only the invoice is modelled gets it: by the same steps,
\* which have ended with a number that was the next one and free.
IssueOther ==
  /\ Cardinality(others) < MaxOthers
  /\ others' = others \cup {Latest + 1}
  /\ UNCHANGED <<orderVars, repairVars, invoice, pdf, scheduled, job, sweep, faults>>

\* The upload goes to a key that the order determines, so that one upload more
\* changes nothing; then the key is saved.
EnsurePdf(j) ==
  /\ At(j, "pdf")
  /\ pdf' = pdf \cup {job[j].of}
  /\ Answer(j, "clear")
  /\ UNCHANGED <<orderVars, repairVars, invoice, others, scheduled, sweep, faults>>

-----------------------------------------------------------------------------
(* RepairSweepsService.repairDocument.                                        *)

\* What repairDocument does first with the order it was given. The sweep's
\* rows come here only when they are ready.
Repair(j, o, row) ==
  Begin(j, o, "repair",
        IF row.status = "PAID" /\ ~row.provisioned THEN "provision" ELSE "fresh")

Row(o) == [status |-> status[o], provisioned |-> o \in provisioned]

\* repairOrder: the administrator's request reads the order, whatever its state.
RepairOrder(r, o) ==
  /\ At(r, "idle")
  /\ Repair(r, o, Row(o))
  /\ UNCHANGED <<orderVars, repairVars, invoiceVars, scheduled, sweep, faults>>

ReadFresh(j) ==
  /\ At(j, "fresh")
  /\ LET o == job[j].of
     IN IF status[o] \in {"PAID", "REFUNDED"} /\ o \in provisioned
          THEN job' = [job EXCEPT ![j].at = "state",
                                  ![j].ready = Ready(j, o, InvoiceDelay)]
          ELSE Goto(j, "clear")
  /\ UNCHANGED <<orderVars, repairVars, invoiceVars, scheduled, sweep, faults>>

RepairState(j) ==
  /\ At(j, "state")
  /\ LET o == job[j].of
     IN CASE o \in pdf -> Goto(j, "clear")
          [] invoice[o] > 0 /\ o \notin pdf -> Goto(j, "pdf")
          [] invoice[o] = 0 /\ job[j].ready -> Goto(j, "issue")
          [] OTHER -> Goto(j, "clear")
  /\ UNCHANGED <<orderVars, repairVars, invoiceVars, scheduled, sweep, faults>>

\* clearRepair compares nothing with what the repair has read.
ClearRepair(j) ==
  /\ At(j, "clear")
  /\ next' = [next EXCEPT ![job[j].of] = "unset"]
  /\ Return(j)
  /\ UNCHANGED <<orderVars, provisioned, invoiceVars, scheduled, sweep, faults>>

\* The catch of repairDocument: the next attempt is at least two minutes away.
RescheduleRepair(j) ==
  /\ At(j, "failed")
  /\ next' = [next EXCEPT ![job[j].of] = "future"]
  /\ Return(j)
  /\ UNCHANGED <<orderVars, provisioned, invoiceVars, scheduled, sweep, faults>>

-----------------------------------------------------------------------------
(* RepairSweepsService.sweep. Its clock is the instant the pass began.        *)

Rows(S) == [o \in S |-> Row(o)]

FindDue ==
  /\ sweep.phase = "idle"
  /\ LET due == {o \in Orders : status[o] # "PENDING" /\ next[o] = "reached"}
     IN sweep' = [phase |-> "due", rows |-> Rows(due), due |-> due]
  /\ UNCHANGED <<orderVars, repairVars, invoiceVars, scheduled, job, faults>>

Take(o) == sweep' = [sweep EXCEPT !.rows = [p \in DOMAIN @ \ {o} |-> @[p]]]

\* needsRepair up to its query: an order that is not provisioned needs none to
\* know, any other goes on to repairState.
NeedsRepair(o) ==
  /\ sweep.phase = "due" /\ At(Sweeper, "idle") /\ o \in DOMAIN sweep.rows
  /\ LET row == sweep.rows[o]
     IN CASE row.provisioned -> Begin(Sweeper, o, "needs", "needs")
          [] ~row.provisioned /\ row.status = "PAID" /\ age[o] >= ProvisionDelay ->
               Repair(Sweeper, o, row)
          [] OTHER -> Begin(Sweeper, o, "clear", "clear")
  /\ Take(o)
  /\ UNCHANGED <<orderVars, repairVars, invoiceVars, scheduled, faults>>

\* The rest of needsRepair, for a row that was due.
NeedsInvoice ==
  /\ At(Sweeper, "needs")
  /\ LET o == job[Sweeper].of
     IN IF o \in pdf \/ (invoice[o] = 0 /\ age[o] < InvoiceDelay)
          THEN Begin(Sweeper, o, "clear", "clear")
          ELSE Begin(Sweeper, o, "repair", "fresh")
  /\ UNCHANGED <<orderVars, repairVars, invoiceVars, scheduled, sweep, faults>>

FindUnprovisioned ==
  /\ sweep.phase = "due" /\ At(Sweeper, "idle") /\ DOMAIN sweep.rows = {}
  /\ LET late == {o \in Orders : /\ status[o] = "PAID" /\ o \notin provisioned
                                 /\ age[o] >= ProvisionDelay /\ Due(o)}
     IN sweep' = [IdleSweep EXCEPT !.phase = "unprovisioned", !.rows = Rows(late \ sweep.due)]
  /\ UNCHANGED <<orderVars, repairVars, invoiceVars, scheduled, job, faults>>

RepairUnprovisioned(o) ==
  /\ sweep.phase = "unprovisioned" /\ At(Sweeper, "idle") /\ o \in DOMAIN sweep.rows
  /\ Repair(Sweeper, o, sweep.rows[o])
  /\ Take(o)
  /\ UNCHANGED <<orderVars, repairVars, invoiceVars, scheduled, faults>>

SweepEnds ==
  /\ sweep.phase = "unprovisioned" /\ At(Sweeper, "idle") /\ DOMAIN sweep.rows = {}
  /\ sweep' = IdleSweep
  /\ UNCHANGED <<orderVars, repairVars, invoiceVars, scheduled, job, faults>>

-----------------------------------------------------------------------------
(* Refunds, time and faults.                                                  *)

\* markOrderRefunded, which moves the payment row and then the order: between the
\* two an invoice is refused for the payment, after them for the order. That a
\* restart comes between the two is left out, see the README.
MarkRefunded(o) ==
  /\ status[o] = "PAID"
  /\ status' = [status EXCEPT ![o] = "REFUNDED"]
  /\ UNCHANGED <<age, repairVars, invoiceVars, scheduled, job, sweep, faults>>

\* An order gets older, or reaches nextRepairAt, which is never before the
\* invoice delay. Only the sweep reads the time, as it was when its pass began:
\* what passes during a pass is seen by the next one.
Tick(o) ==
  /\ sweep.phase = "idle" /\ status[o] # "PENDING"
  /\ \/ age[o] < ProvisionDelay /\ age' = [age EXCEPT ![o] = @ + 1]
     \/ age[o] >= InvoiceDelay /\ UNCHANGED age
  /\ \/ next[o] = "future" /\ next' = [next EXCEPT ![o] = "reached"]
     \/ age'[o] # age[o] /\ UNCHANGED next
  /\ UNCHANGED <<status, provisioned, invoiceVars, scheduled, job, sweep, faults>>

Fault == faults < MaxFaults /\ faults' = faults + 1

\* A database, storage or gateway call throws. repairDocument catches it, its
\* own catch and the rest of the sweep do not, and the pass is over.
Throw(j) ==
  /\ Fault
  /\ job[j].op # "none"
  /\ IF job[j].op = "repair" /\ ~At(j, "failed")
       THEN Goto(j, "failed") /\ UNCHANGED sweep
       ELSE Return(j) /\ sweep' = IF j = Sweeper THEN IdleSweep ELSE sweep
  /\ UNCHANGED <<orderVars, repairVars, invoiceVars, scheduled>>

\* The process dies with its requests, its scheduled tasks and its sweep.
Restart ==
  /\ Fault
  /\ job' = [j \in Jobs |-> IdleJob]
  /\ sweep' = IdleSweep
  /\ scheduled' = [o \in Orders |-> 0]
  /\ UNCHANGED <<orderVars, repairVars, invoiceVars>>

-----------------------------------------------------------------------------
JobStep(j) ==
  \/ ProvisionRead(j) \/ ProvisionSave(j)
  \/ IssueRead(j) \/ NextSequence(j) \/ InsertInvoice(j) \/ EnsurePdf(j)
  \/ ReadFresh(j) \/ RepairState(j) \/ ClearRepair(j) \/ RescheduleRepair(j)

SweepStep ==
  \/ FindDue \/ NeedsInvoice \/ FindUnprovisioned \/ SweepEnds
  \/ \E o \in Orders : NeedsRepair(o) \/ RepairUnprovisioned(o)

Begins(r, o) == Pay(r, o) \/ RunScheduled(r, o) \/ RepairOrder(r, o)

Next ==
  \/ \E j \in Jobs : JobStep(j) \/ Throw(j)
  \/ SweepStep
  \/ \E r \in Requests, o \in Orders : Begins(r, o)
  \/ \E o \in Orders : MarkRefunded(o) \/ Tick(o)
  \/ IssueOther \/ Restart

Spec == Init /\ [][Next]_vars

\* What has begun goes on, the scheduler starts a pass again and again, and time
\* passes between two passes. Neither payments nor administrators, refunds or
\* scheduled tasks are fair: the sweep alone must do.
Fairness ==
  /\ \A j \in Jobs : WF_vars(JobStep(j))
  /\ WF_vars(SweepStep)
  /\ \A o \in Orders : SF_vars(Tick(o))

FairSpec == Spec /\ Fairness

-----------------------------------------------------------------------------
(* Properties.                                                                *)

\* The series of a financial year is 1, 2, 3 ... without a hole and without a
\* number given twice, however many issuers read the latest number at once.
NumbersAreGapless ==
  Numbers = 1..(Cardinality(Issued) + Cardinality(others))

\* Two of them are on the order at once: the request that provisions it, an
\* administrator's repair, the sweep since it has read the order.
WorksOn(j, o) ==
  \/ job[j].of = o /\ job[j].op \notin {"none", "issue"}
  \/ j = Sweeper /\ o \in DOMAIN sweep.rows
RepairsOverlap(o) == \E j \in Jobs : \E k \in Jobs \ {j} : WorksOn(j, o) /\ WorksOn(k, o)

\* A paid order that is not refunded gets its access and a stored invoice,
\* whatever throws and whenever the process dies: "repaired by the sweep". It
\* is not so when two repairs of the order overlap, see the README.
InvoicedInTheEnd ==
  \A o \in Orders :
    []~RepairsOverlap(o) =>
      (status[o] = "PAID" ~> (o \in pdf \/ status[o] = "REFUNDED"))
=============================================================================
