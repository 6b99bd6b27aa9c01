---------------------------- MODULE InvoicesProofs ----------------------------
(***************************************************************************)
(* Invoice numbers are gapless for any number of orders, of requests and of  *)
(* faults. A job that has read the latest number holds at most the next one,  *)
(* and the unique index lets it through only when nobody has used it since.   *)
(***************************************************************************)
EXTENDS Invoices, FiniteSetTheorems, TLAPS

Ops == {"none", "pay", "issue", "repair", "needs", "clear"}
Points ==
  {"idle", "provision", "save", "issue", "sequence", "create", "pdf", "fresh", "state",
   "clear", "failed", "needs"}
Job ==
  [op: Ops, of: Orders \cup {Sweeper}, at: Points, ready: BOOLEAN, number: Nat]

\* How many numbers have been given.
Total == Cardinality(Issued) + Cardinality(others)

\* A job that is doing something does it for an order.
Placed(q) ==
  /\ q.at # "idle" => q.op # "none"
  /\ q.op # "none" => q.of \in Orders

IssuersTyped ==
  /\ invoice \in [Orders -> Nat]
  /\ others \subseteq Nat /\ IsFiniteSet(others)
  /\ job \in [Jobs -> Job]
  /\ \A j \in Jobs : Placed(job[j])

\* Nobody holds a number beyond the next one.
NobodySkips == \A j \in Jobs : At(j, "create") => job[j].number \in 1..(Total + 1)

GInv == IssuersTyped /\ NumbersAreGapless /\ NobodySkips

\* A step of job j that does not bring it to the insert.
Moves(j) ==
  \E q \in Job :
    /\ q.at # "create" /\ Placed(q)
    /\ job' = [job EXCEPT ![j] = q]

-----------------------------------------------------------------------------
\* Counting is possible.
LEMMA TotalIsNat ==
  ASSUME IssuersTyped
  PROVE  /\ IsFiniteSet(Issued) /\ Total \in Nat
         /\ Cardinality(Issued) \in Nat /\ Cardinality(others) \in Nat
<1>1. IsFiniteSet(Issued)
  BY OrdersAreFinite, FS_Subset DEF Issued
<1>2. Cardinality(Issued) \in Nat /\ Cardinality(others) \in Nat
  BY <1>1, FS_CardinalityType DEF IssuersTyped
<1>3. QED
  BY <1>1, <1>2 DEF Total

\* The latest number is the count of the numbers.
LEMMA LatestIsTotal ==
  ASSUME GInv
  PROVE  Latest = Total
<1>1. Total \in Nat /\ Numbers = 1..Total
  BY TotalIsNat DEF GInv, NumbersAreGapless, Total
<1>2. CASE Total = 0
  <2>1. Numbers = {}
    BY <1>1, <1>2
  <2>2. QED
    BY <1>2, <2>1 DEF Latest
<1>3. CASE Total # 0
  <2>1. Total \in Numbers /\ \A m \in Numbers : m <= Total
    BY <1>1, <1>3
  <2>2. Numbers # {}
    BY <2>1
  <2>3. Latest \in Numbers /\ \A m \in Numbers : m <= Latest
    BY <2>1, <2>2 DEF Latest
  <2>4. QED
    BY <1>1, <2>1, <2>3
<1>4. QED
  BY <1>2, <1>3

\* Moving a job along without giving a number keeps the invariant.
LEMMA MovesPreserve ==
  ASSUME GInv, NEW j \in Jobs, Moves(j), UNCHANGED <<invoice, others>>
  PROVE  GInv'
<1>1. PICK q \in Job : q.at # "create" /\ Placed(q) /\ job' = [job EXCEPT ![j] = q]
  BY DEF Moves
<1>2. IssuersTyped'
  BY <1>1 DEF GInv, IssuersTyped, Placed
<1>3. Issued' = Issued /\ Numbers' = Numbers /\ Total' = Total
  BY DEF Issued, Numbers, Total
<1>4. NobodySkips'
  BY <1>1, <1>3 DEF GInv, IssuersTyped, NobodySkips, At
<1>5. QED
  BY <1>2, <1>3, <1>4 DEF GInv, NumbersAreGapless, Total

\* Nothing that concerns the numbers or the jobs changes.
LEMMA NothingIssued ==
  ASSUME GInv, UNCHANGED <<invoice, others, job>>
  PROVE  GInv'
  BY DEF GInv, IssuersTyped, Placed, NobodySkips, At, NumbersAreGapless, Numbers, Issued, Total

\* Begin, Goto, Return and Answer move a job.
LEMMA BeginMoves ==
  ASSUME NEW j \in Jobs, NEW o \in Orders, NEW op \in Ops \ {"none"},
         NEW point \in Points \ {"create"}, Begin(j, o, op, point)
  PROVE  Moves(j)
<1> DEFINE q == [IdleJob EXCEPT !.op = op, !.of = o, !.at = point]
<1>1. q \in Job /\ q.at = point /\ q.op = op /\ q.of = o
  BY DEF IdleJob, Job, Ops, Points
<1>2. Placed(q) /\ q.at # "create"
  BY <1>1 DEF Placed
<1>3. job' = [job EXCEPT ![j] = q]
  BY DEF Begin
<1> HIDE DEF q
<1>4. QED
  BY <1>1, <1>2, <1>3 DEF Moves

\* A job that ends moves.
LEMMA ReturnMoves ==
  ASSUME NEW j \in Jobs, Return(j)
  PROVE  Moves(j)
<1>1. IdleJob \in Job /\ Placed(IdleJob) /\ IdleJob.at # "create"
  BY DEF IdleJob, Job, Ops, Points, Placed
<1>2. QED
  BY <1>1 DEF Return, Moves

\* A job that goes on to any point but the insert moves.
LEMMA GotoMoves ==
  ASSUME IssuersTyped, NEW j \in Jobs, job[j].op # "none",
         NEW point \in Points \ {"create"}, Goto(j, point)
  PROVE  Moves(j)
<1>1. job[j].of \in Orders /\ job[j].op \in Ops \ {"none"}
  BY DEF IssuersTyped, Placed, Job
<1>2. QED
  BY <1>1, BeginMoves DEF Goto

\* A call that answers moves its job, to the caller's next point or to the end.
LEMMA AnswerMoves ==
  ASSUME IssuersTyped, NEW j \in Jobs, job[j].op # "none",
         NEW point \in Points \ {"create"}, Answer(j, point)
  PROVE  Moves(j)
  BY GotoMoves, ReturnMoves DEF Answer

-----------------------------------------------------------------------------
\* The insert gives the next number, or none.
LEMMA InsertPreserves ==
  ASSUME GInv, NEW j \in Jobs, InsertInvoice(j)
  PROVE  GInv'
<1> DEFINE o == job[j].of
<1>1. IssuersTyped /\ job[j] \in Job /\ job[j].op # "none" /\ o \in Orders
  BY DEF GInv, IssuersTyped, Placed, InsertInvoice, At
<1>2. UNCHANGED others
  BY DEF InsertInvoice
<1>3. CASE UNCHANGED invoice
  <2>1. Moves(j)
    BY <1>1, <1>3, GotoMoves, AnswerMoves DEF InsertInvoice, Points
  <2>2. QED
    BY <1>2, <1>3, <2>1, MovesPreserve
<1>4. CASE invoice[o] = 0 /\ job[j].number \notin Numbers
           /\ invoice' = [invoice EXCEPT ![o] = job[j].number] /\ Goto(j, "pdf")
  <2>1. Total \in Nat /\ Numbers = 1..Total
    BY TotalIsNat DEF GInv, NumbersAreGapless, Total
  <2>2. job[j].number = Total + 1
    BY <1>4, <2>1 DEF GInv, NobodySkips, InsertInvoice
  <2>3. invoice' \in [Orders -> Nat] /\ invoice'[o] = Total + 1
        /\ \A x \in Orders \ {o} : invoice'[x] = invoice[x]
    BY <1>1, <1>4, <2>1, <2>2 DEF IssuersTyped
  <2>4. Issued' = Issued \cup {o} /\ o \notin Issued
    BY <1>1, <1>4, <2>1, <2>3 DEF Issued
  <2>5. Numbers' = Numbers \cup {Total + 1}
    <3>1. {invoice'[x] : x \in Issued'} = {invoice[x] : x \in Issued} \cup {Total + 1}
      BY <2>3, <2>4 DEF Issued
    <3>2. QED
      BY <1>2, <3>1 DEF Numbers
  <2>6. Total' = Total + 1
    <3>1. Cardinality(Issued') = Cardinality(Issued) + 1
      BY <1>1, <2>4, TotalIsNat, FS_AddElement
    <3>2. QED
      BY <1>1, <1>2, <3>1, TotalIsNat DEF Total
  <2>7. NumbersAreGapless'
    BY <2>1, <2>5, <2>6 DEF NumbersAreGapless, Total
  <2>8. Moves(j)
    BY <1>1, <1>4, GotoMoves DEF Points
  <2>9. PICK q \in Job : q.at # "create" /\ Placed(q) /\ job' = [job EXCEPT ![j] = q]
    BY <2>8 DEF Moves
  <2>10. IssuersTyped'
    BY <1>1, <1>2, <2>3, <2>9 DEF IssuersTyped, Placed
  <2>11. NobodySkips'
    BY <1>1, <2>1, <2>6, <2>9 DEF GInv, IssuersTyped, NobodySkips, At
  <2>12. QED
    BY <2>7, <2>10, <2>11 DEF GInv
<1>5. QED
  BY <1>3, <1>4 DEF InsertInvoice

\* Another order of the series takes the next number.
LEMMA IssueOtherPreserves ==
  ASSUME GInv, IssueOther
  PROVE  GInv'
<1>1. Total \in Nat /\ Numbers = 1..Total /\ Latest = Total /\ IssuersTyped
  BY TotalIsNat, LatestIsTotal DEF GInv, NumbersAreGapless, Total
<1>2. others' = others \cup {Total + 1} /\ UNCHANGED <<invoice, job>>
  BY <1>1 DEF IssueOther
<1>3. Total + 1 \notin others
  BY <1>1 DEF Numbers
<1>4. IsFiniteSet(others') /\ Cardinality(others') = Cardinality(others) + 1
  BY <1>1, <1>2, <1>3, FS_AddElement DEF IssuersTyped
<1>5. Issued' = Issued /\ Numbers' = Numbers \cup {Total + 1}
  BY <1>2 DEF Issued, Numbers
<1>6. Total' = Total + 1
  BY <1>1, <1>4, <1>5, TotalIsNat DEF Total
<1>7. NumbersAreGapless'
  BY <1>1, <1>5, <1>6 DEF NumbersAreGapless, Total
<1>8. IssuersTyped'
  BY <1>1, <1>2, <1>4 DEF IssuersTyped, Placed
<1>9. NobodySkips'
  BY <1>1, <1>2, <1>6 DEF GInv, NobodySkips, At
<1>10. QED
  BY <1>7, <1>8, <1>9 DEF GInv

\* What is read as the latest number makes the next one.
LEMMA NextSequencePreserves ==
  ASSUME GInv, NEW j \in Jobs, NextSequence(j)
  PROVE  GInv'
<1>1. Latest = Total /\ Total \in Nat /\ IssuersTyped
  BY LatestIsTotal, TotalIsNat DEF GInv
<1>2. UNCHANGED <<invoice, others>> /\ Issued' = Issued /\ Numbers' = Numbers /\ Total' = Total
  BY DEF NextSequence, invoiceVars, Issued, Numbers, Total
<1>3. PICK q \in Job : /\ q = [job[j] EXCEPT !.at = "create", !.number = Total + 1]
                       /\ job' = [job EXCEPT ![j] = q]
  <2>1. [job[j] EXCEPT !.at = "create", !.number = Total + 1] \in Job
    <3>1. job[j] \in Job /\ Total + 1 \in Nat
      BY <1>1 DEF IssuersTyped
    <3>2. QED
      BY <3>1 DEF Job, Points
  <2>2. job' = [job EXCEPT ![j] = [job[j] EXCEPT !.at = "create", !.number = Total + 1]]
    BY <1>1 DEF NextSequence
  <2>3. QED
    BY <2>1, <2>2
<1>4. q.at = "create" /\ q.number = Total + 1 /\ q.op = job[j].op /\ q.of = job[j].of
  BY <1>1, <1>3 DEF IssuersTyped, Job
<1>5. Placed(q)
  BY <1>1, <1>4 DEF IssuersTyped, Placed, NextSequence, At
<1>6. IssuersTyped'
  BY <1>1, <1>2, <1>3, <1>5 DEF IssuersTyped, Placed
<1>7. NobodySkips'
  BY <1>1, <1>2, <1>3, <1>4 DEF GInv, IssuersTyped, NobodySkips, At
<1>8. QED
  BY <1>2, <1>6, <1>7 DEF GInv, NumbersAreGapless, Total

-----------------------------------------------------------------------------
\* Every other step of a job only moves it along.
LEMMA JobStepMoves ==
  ASSUME IssuersTyped, NEW j \in Jobs, JobStep(j), ~NextSequence(j), ~InsertInvoice(j)
  PROVE  Moves(j) /\ UNCHANGED <<invoice, others>>
<1> USE DEF Points, invoiceVars, At
<1>1. ASSUME job[j].at # "idle" PROVE job[j].op # "none"
  BY <1>1 DEF IssuersTyped, Placed
<1>2. CASE ProvisionRead(j) \/ ProvisionSave(j)
  BY <1>1, <1>2, GotoMoves, AnswerMoves DEF ProvisionRead, ProvisionSave, Throws
<1>3. CASE IssueRead(j) \/ EnsurePdf(j)
  BY <1>1, <1>3, GotoMoves, AnswerMoves DEF IssueRead, EnsurePdf, Throws
<1>4. CASE RepairState(j)
  BY <1>1, <1>4, GotoMoves DEF RepairState
<1>5. CASE ClearRepair(j) \/ RescheduleRepair(j)
  BY <1>5, ReturnMoves DEF ClearRepair, RescheduleRepair
<1>6. CASE ReadFresh(j)
  <2>1. CASE Goto(j, "clear")
    BY <1>1, <1>6, <2>1, GotoMoves DEF ReadFresh
  <2>2. CASE ~Goto(j, "clear")
    <3> DEFINE b == Ready(j, job[j].of, InvoiceDelay)
               q == [job[j] EXCEPT !.at = "state", !.ready = b]
    <3>1. job[j] \in Job /\ b \in BOOLEAN
      BY DEF IssuersTyped, Ready
    <3>2. q \in Job /\ q.at = "state" /\ q.op = job[j].op /\ q.of = job[j].of
      BY <3>1 DEF Job
    <3>3. Placed(q)
      BY <1>1, <1>6, <3>2 DEF ReadFresh, IssuersTyped, Placed
    <3>4. job' = [job EXCEPT ![j] = q]
      BY <1>6, <2>2 DEF ReadFresh, IssuersTyped
    <3> HIDE DEF q
    <3>5. QED
      BY <1>6, <3>2, <3>3, <3>4 DEF Moves, ReadFresh
  <2>3. QED
    BY <2>1, <2>2
<1>7. QED
  BY <1>2, <1>3, <1>4, <1>5, <1>6 DEF JobStep

\* A request that begins, and a call that throws, give no number.
LEMMA BeginsMove ==
  ASSUME NEW r \in Requests, NEW o \in Orders, Begins(r, o)
  PROVE  Moves(r) /\ UNCHANGED <<invoice, others>>
  BY BeginMoves
     DEF Begins, Pay, RunScheduled, RepairOrder, Repair, Jobs, Ops, Points, invoiceVars

\* A call that throws moves its job too.
LEMMA ThrowMoves ==
  ASSUME IssuersTyped, NEW j \in Jobs, Throw(j)
  PROVE  Moves(j) /\ UNCHANGED <<invoice, others>>
  BY GotoMoves, ReturnMoves DEF Throw, Points, invoiceVars

\* The sweep gives no number by itself either.
LEMMA SweepStepMoves ==
  ASSUME IssuersTyped, SweepStep
  PROVE  (Moves(Sweeper) \/ UNCHANGED job) /\ UNCHANGED <<invoice, others>>
<1> USE DEF invoiceVars, Ops, Points
<1>1. CASE FindDue \/ FindUnprovisioned \/ SweepEnds
  BY <1>1 DEF FindDue, FindUnprovisioned, SweepEnds
<1>2. CASE NeedsInvoice
  <2>1. job[Sweeper].of \in Orders
    BY <1>2 DEF IssuersTyped, Placed, NeedsInvoice, At, Jobs
  <2>2. QED
    BY <1>2, <2>1, BeginMoves DEF NeedsInvoice, Jobs
<1>3. CASE \E o \in Orders : NeedsRepair(o) \/ RepairUnprovisioned(o)
  BY <1>3, BeginMoves DEF NeedsRepair, RepairUnprovisioned, Repair, Jobs
<1>4. QED
  BY <1>1, <1>2, <1>3 DEF SweepStep

\* GInv is inductive.
LEMMA NextPreservesGInv ==
  ASSUME GInv, [Next]_vars
  PROVE  GInv'
<1>0. IssuersTyped
  BY DEF GInv
<1>1. CASE UNCHANGED vars
  BY <1>1, NothingIssued DEF vars, invoiceVars
<1>2. ASSUME NEW j \in Jobs, JobStep(j) PROVE GInv'
  BY <1>0, <1>2, InsertPreserves, NextSequencePreserves, JobStepMoves, MovesPreserve
<1>3. ASSUME NEW j \in Jobs, Throw(j) PROVE GInv'
  BY <1>0, <1>3, ThrowMoves, MovesPreserve
<1>4. CASE SweepStep
  BY <1>0, <1>4, SweepStepMoves, MovesPreserve, NothingIssued DEF Jobs
<1>5. ASSUME NEW r \in Requests, NEW o \in Orders, Begins(r, o) PROVE GInv'
  BY <1>5, BeginsMove, MovesPreserve DEF Jobs
<1>6. ASSUME NEW o \in Orders, MarkRefunded(o) \/ Tick(o) PROVE GInv'
  BY <1>6, NothingIssued DEF MarkRefunded, Tick, invoiceVars
<1>7. CASE Restart
  <2>1. job' = [j \in Jobs |-> IdleJob] /\ UNCHANGED <<invoice, others>>
    BY <1>7 DEF Restart, invoiceVars
  <2>2. IdleJob \in Job /\ Placed(IdleJob) /\ IdleJob.at # "create"
    BY DEF IdleJob, Job, Ops, Points, Placed
  <2>3. IssuersTyped' /\ NobodySkips'
    BY <1>0, <2>1, <2>2 DEF IssuersTyped, Placed, NobodySkips, At
  <2>4. NumbersAreGapless'
    BY <2>1 DEF GInv, NumbersAreGapless, Numbers, Issued
  <2>5. QED
    BY <2>3, <2>4 DEF GInv
<1>8. QED
  BY <1>1, <1>2, <1>3, <1>4, <1>5, <1>6, <1>7, IssueOtherPreserves DEF Next

\* The invoices of a series are numbered 1, 2, 3 ..., each number once, however
\* many requests, scheduled tasks and repairs issue them, throw or are lost.
THEOREM InvoiceNumbersAreGapless == Spec => []NumbersAreGapless
<1>1. Init => GInv
  <2> SUFFICES ASSUME Init PROVE GInv
    OBVIOUS
  <2>1. IssuersTyped /\ NobodySkips
    <3>1. IdleJob \in Job /\ Placed(IdleJob) /\ IdleJob.at # "create"
      BY DEF IdleJob, Job, Ops, Points, Placed
    <3>2. QED
      BY <3>1, FS_EmptySet DEF Init, IssuersTyped, NobodySkips, At, Placed
  <2>2. Issued = {} /\ Numbers = {} /\ Cardinality({}) = 0
    BY FS_EmptySet DEF Init, Issued, Numbers
  <2>3. NumbersAreGapless
    BY <2>2 DEF NumbersAreGapless, Init
  <2>4. QED
    BY <2>1, <2>3 DEF GInv
<1>2. GInv /\ [Next]_vars => GInv'
  BY NextPreservesGInv
<1>3. GInv => NumbersAreGapless
  BY DEF GInv
<1>4. QED
  BY <1>1, <1>2, <1>3, PTL DEF Spec
=============================================================================
