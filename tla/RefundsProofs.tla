---------------------------- MODULE RefundsProofs ----------------------------
(***************************************************************************)
(* Proofs about Refunds: its safety invariants hold for every number of      *)
(* second captures, jobs, refunds at the provider, deliveries, faults and     *)
(* retries.                                                                   *)
(*                                                                            *)
(* The inductive invariant has two halves. RefundInv says what a row and a    *)
(* job have behind them: the refund a row names is one of its own payment, a  *)
(* COMPLETED row has processed money of its size, and a job between a read    *)
(* and a write still holds a true fact, since the provider never takes back   *)
(* that a refund is over. AttemptInv says of each payment that was neither    *)
(* given up nor led astray that one job at a time attempts it, that a FAILED  *)
(* row or a job about to call the provider has no live refund of the          *)
(* application beside it, and that every live refund is known to the row or   *)
(* to the job that has just asked for it.                                     *)
(***************************************************************************)
EXTENDS Refunds, TLAPS
-----------------------------------------------------------------------------
\* Where a job has an attempt for its payment under way.
AttemptPoints == {"clear", "call", "save", "saveDone", "unknown"}
\* A full refund of p has been processed.
Full(p) == \E r \in ProcessedFor(p) : prov[r].full

\* What a row says of refunds: it names one of its own payment, and is COMPLETED
\* with the money of one behind it.
RowBacked(p, rec) ==
  /\ rec.pid # NoRefund => rec.pid \in DOMAIN prov /\ prov[rec.pid].payment = p
  /\ rec.partial => rec.status = "COMPLETED"
  /\ rec.status = "COMPLETED" => \E r \in ProcessedFor(p) : prov[r].full = ~rec.partial

\* What a job q has found out about its refund and relies on.
JobBacked(q) ==
  /\ q.at \in {"save", "saveDone", "settle", "claim", "failRead", "failClaim", "fetch",
               "listed", "recover", "recoverSave"} => q.pid \in DOMAIN prov
  /\ q.at \in {"saveDone", "settle", "claim", "listed"} => prov[q.pid].status = "processed"
  /\ q.at \in {"failRead", "failClaim"} => prov[q.pid].status = "failed"
  /\ q.at \in {"recover", "recoverSave"} => prov[q.pid].status # "pending"
  /\ q.at \in {"saveDone", "claim", "listed"} => prov[q.pid].full
  /\ q.at \in {"save", "saveDone", "claim", "failClaim", "listed", "recoverSave"}
       => prov[q.pid].payment = q.payment
  /\ q.at \in {"revoke", "mark"} =>
       q.payment = Primary /\ row[Primary].status = "COMPLETED" /\ Full(Primary)
  /\ q.at = "mark" => revoked
  /\ q.at \in AttemptPoints => row[q.payment].status # "NONE"

RefundInv ==
  /\ TypeOK
  /\ prov \in Seq(ProviderRefund)
  /\ \A p \in Payments : RowBacked(p, row[p])
  /\ \A j \in Jobs : JobBacked(job[j])
  /\ RevokedOnlyByFullRefund
  /\ \A r \in DOMAIN prov : prov[r].by = "app" => row[prov[r].payment].status # "NONE"

\* The refunds of p the application asked for that have not failed.
LiveOwn(p) ==
  {r \in DOMAIN prov : prov[r].payment = p /\ prov[r].by = "app" /\ prov[r].status # "failed"}
\* Job j attempts to refund p.
Tries(j, p) == job[j].payment = p /\ job[j].at \in AttemptPoints

\* The row, or the job that works on it, knows of the live refund r of p.
Known(p, r) ==
  \/ row[p].pid = r
  \/ row[p].unknown # "no"
  \/ \E j \in Jobs : /\ job[j].payment = p
                     /\ \/ job[j].at = "unknown"
                        \/ job[j].at \in {"save", "saveDone"} /\ job[j].pid = r

\* The provider has at most one live refund of a payment.
OneLiveRefund ==
  \A r, s \in DOMAIN prov :
    (prov[r].payment = prov[s].payment /\ prov[r].status # "failed" /\ prov[s].status # "failed")
      => r = s

\* One attempt at a time, none beside a FAILED row, no live refund when the
\* provider is about to be called, and none that nobody knows of.
Accounted(p) ==
  /\ \A j, k \in Jobs : Tries(j, p) /\ Tries(k, p) => j = k
  /\ row[p].status = "FAILED" => LiveOwn(p) = {} /\ \A j \in Jobs : ~Tries(j, p)
  /\ \A j \in Jobs : (job[j].payment = p /\ job[j].at \in {"clear", "call"}) => LiveOwn(p) = {}
  /\ \A r \in LiveOwn(p) : Known(p, r)

AttemptInv == OneLiveRefund /\ \A p \in Payments \ (gaveUp \cup strayed) : Accounted(p)
-----------------------------------------------------------------------------
\* The constants have the types the arithmetic needs.
LEMMA ConstantTypes ==
  /\ MaxRefunds \in Nat /\ MaxDeliveries \in Nat /\ MaxFaults \in Nat /\ MaxRetries \in Nat
  /\ Primary \in Payments
  BY BoundsAreNat DEF Payments

\* The refunds of the provider are numbered from 1.
LEMMA RefundNumbers ==
  ASSUME prov \in Seq(ProviderRefund)
  PROVE  /\ Len(prov) \in Nat /\ DOMAIN prov = 1..Len(prov)
         /\ \A r \in DOMAIN prov : prov[r] \in ProviderRefund /\ r # NoRefund /\ r \in Nat
  BY DEF NoRefund

\* What the provider never does: drop a refund, change its payment, its size
\* or who asked for it, or take back that it is over.
ProvStable ==
  /\ prov' \in Seq(ProviderRefund) /\ Len(prov') \in 0..MaxRefunds
  /\ \A r \in DOMAIN prov :
       /\ r \in DOMAIN prov' /\ prov'[r].payment = prov[r].payment
       /\ prov'[r].full = prov[r].full /\ prov'[r].by = prov[r].by
       /\ prov[r].status # "pending" => prov'[r].status = prov[r].status

\* A step that leaves the provider alone is such a step.
LEMMA SameProvIsStable ==
  ASSUME RefundInv, UNCHANGED prov
  PROVE  ProvStable
  BY DEF ProvStable, RefundInv, TypeOK

\* A new refund is the last one.
LEMMA NewRefundMoves ==
  ASSUME RefundInv, NEW p \in Payments, NEW status \in {"pending", "processed"},
         NEW full \in BOOLEAN, NEW by \in {"app", "dashboard"}, NewRefund(p, status, full, by)
  PROVE  /\ ProvStable
         /\ Len(prov') = Len(prov) + 1 /\ DOMAIN prov' = DOMAIN prov \cup {Len(prov')}
         /\ prov'[Len(prov')] = [payment |-> p, status |-> status, full |-> full, by |-> by]
         /\ Len(prov') \notin DOMAIN prov /\ Len(prov') \in RefundIds
         /\ \A r \in DOMAIN prov : prov'[r] = prov[r]
<1> DEFINE n == [payment |-> p, status |-> status, full |-> full, by |-> by]
<1>1. prov' = Append(prov, n) /\ Len(prov) < MaxRefunds /\ prov \in Seq(ProviderRefund)
  BY DEF NewRefund, RefundInv
<1>2. n \in ProviderRefund
  BY DEF ProviderRefund
<1> HIDE DEF n
<1>3. /\ prov' \in Seq(ProviderRefund) /\ Len(prov') = Len(prov) + 1
      /\ Len(prov) \in Nat /\ DOMAIN prov = 1..Len(prov) /\ DOMAIN prov' = 1..Len(prov')
  BY <1>1, <1>2
<1>4. \A r \in DOMAIN prov : prov'[r] = prov[r]
  BY <1>1, <1>2, <1>3
<1>5. prov'[Len(prov')] = n
  BY <1>1, <1>2, <1>3
<1>6. QED
  BY <1>1, <1>3, <1>4, <1>5, ConstantTypes DEF ProvStable, n, RefundIds

\* A refund that is pending is processed or fails.
LEMMA ProviderFinishesMoves ==
  ASSUME RefundInv, NEW r \in DOMAIN prov, ProviderFinishes(r)
  PROVE  /\ ProvStable /\ DOMAIN prov' = DOMAIN prov
         /\ prov[r].status = "pending"
         /\ \A s \in DOMAIN prov \ {r} : prov'[s] = prov[s]
<1>1. PICK s \in {"processed", "failed"} : prov' = [prov EXCEPT ![r].status = s]
  BY DEF ProviderFinishes
<1>2. /\ prov \in Seq(ProviderRefund) /\ Len(prov) \in Nat /\ DOMAIN prov = 1..Len(prov)
      /\ Len(prov) \in 0..MaxRefunds
  BY RefundNumbers DEF RefundInv, TypeOK
<1>3. prov[r] \in ProviderRefund
  BY <1>2
<1> DEFINE n == [prov[r] EXCEPT !.status = s]
<1>4. /\ n \in ProviderRefund /\ n.payment = prov[r].payment
      /\ n.full = prov[r].full /\ n.by = prov[r].by
  BY <1>3 DEF ProviderRefund
<1>5. prov' = [prov EXCEPT ![r] = n]
  BY <1>1
<1> HIDE DEF n
<1>6. prov' \in Seq(ProviderRefund) /\ Len(prov') = Len(prov) /\ DOMAIN prov' = DOMAIN prov
  BY <1>2, <1>4, <1>5
<1>7. prov'[r] = n /\ \A t \in DOMAIN prov \ {r} : prov'[t] = prov[t]
  BY <1>2, <1>5
<1>8. prov[r].status = "pending"
  BY DEF ProviderFinishes
<1>9. QED
  BY <1>2, <1>4, <1>6, <1>7, <1>8 DEF ProvStable

\* No step undoes a COMPLETED row, takes a row away or gives access back.
RowsStable ==
  /\ \A p \in Payments :
       /\ row[p].status = "COMPLETED" => row'[p].status = "COMPLETED"
       /\ row[p].status # "NONE" => row'[p].status # "NONE"
  /\ revoked => revoked'

\* So a row and a job can rely on what they have found.
LEMMA RowStaysBacked ==
  ASSUME ProvStable, NEW p \in Payments, NEW rec, RowBacked(p, rec)
  PROVE  RowBacked(p, rec)'
  BY DEF ProvStable, RowBacked, ProcessedFor

\* What a job has found out stays true while others move.
LEMMA JobStaysBacked ==
  ASSUME ProvStable, RowsStable, NEW q \in Job, JobBacked(q)
  PROVE  JobBacked(q)'
<1>1. q.payment \in Payments /\ Primary \in Payments
  BY ConstantTypes DEF Job
<1>2. Full(Primary) => Full(Primary)'
  BY DEF Full, ProcessedFor, ProvStable
<1>3. QED
  BY <1>1, <1>2 DEF ProvStable, RowsStable, JobBacked, AttemptPoints

\* The end of access keeps its reasons.
LEMMA RevokedStays ==
  ASSUME RefundInv, ProvStable, RowsStable, UNCHANGED <<order, revoked>>
  PROVE  RevokedOnlyByFullRefund'
  BY ConstantTypes DEF RefundInv, ProvStable, RowsStable, RevokedOnlyByFullRefund, ProcessedFor

\* The counters and the histories have their types.
CountersOK ==
  /\ delivered \in 0..MaxDeliveries /\ faults \in 0..MaxFaults /\ retries \in 0..MaxRetries
  /\ gaveUp \subseteq Payments /\ strayed \subseteq Payments

\* One job moves to q and one row to rec, while the provider does nothing.
LEMMA MoveKeeps ==
  ASSUME RefundInv, UNCHANGED <<order, revoked, prov>>, CountersOK',
         NEW j \in Jobs, NEW q \in Job, job' = [job EXCEPT ![j] = q],
         NEW p \in Payments, NEW rec \in Row, row' = [row EXCEPT ![p] = rec],
         RowBacked(p, rec), JobBacked(q)',
         row[p].status = "COMPLETED" => rec.status = "COMPLETED",
         row[p].status # "NONE" => rec.status # "NONE"
  PROVE  RefundInv'
<1>1. ProvStable
  BY SameProvIsStable
<1>2. row' \in [Payments -> Row] /\ row'[p] = rec /\ \A o \in Payments \ {p} : row'[o] = row[o]
  BY DEF RefundInv, TypeOK
<1>3. RowsStable
  BY <1>2 DEF RowsStable
<1>4. job' \in [Jobs -> Job] /\ job'[j] = q /\ \A k \in Jobs \ {j} : job'[k] = job[k]
  BY DEF RefundInv, TypeOK
<1>5. \A k \in Jobs : JobBacked(job[k])'
  <2> TAKE k \in Jobs
  <2>1. CASE k = j
    BY <1>4, <2>1
  <2>2. CASE k # j
    <3>1. job'[k] = job[k] /\ JobBacked(job[k]) /\ job[k] \in Job
      BY <1>4, <2>2 DEF RefundInv, TypeOK
    <3>2. QED
      BY <1>1, <1>3, <3>1, JobStaysBacked
  <2>3. QED
    BY <2>1, <2>2
<1>6. \A o \in Payments : RowBacked(o, row[o])'
  <2> TAKE o \in Payments
  <2>1. RowBacked(o, row'[o])
    BY <1>2 DEF RefundInv
  <2>2. QED
    BY <1>1, <2>1, RowStaysBacked
<1>7. \A r \in DOMAIN prov : prov[r].payment \in Payments
  BY RefundNumbers DEF RefundInv, ProviderRefund
<1>8. \A r \in DOMAIN prov' : prov'[r].by = "app" => row'[prov'[r].payment].status # "NONE"
  BY <1>3, <1>7 DEF RefundInv, RowsStable
<1>9. TypeOK'
  <2>1. \A k \in Jobs :
          job'[k].at \in {"save", "saveDone", "settle", "claim", "failRead", "failClaim",
                          "fetch", "listed", "recover", "recoverSave"}
            => job'[k].pid \in DOMAIN prov'
    BY <1>5 DEF JobBacked
  <2>2. QED
    BY <1>2, <1>4, <2>1 DEF RefundInv, TypeOK, CountersOK
<1>10. RevokedOnlyByFullRefund'
  BY <1>1, <1>3, RevokedStays
<1>11. QED
  BY <1>5, <1>6, <1>8, <1>9, <1>10 DEF RefundInv

\* One job moves to q, and nothing else happens to the refunds.
LEMMA OnlyMoves ==
  ASSUME RefundInv, UNCHANGED <<order, revoked, row, prov>>, CountersOK',
         NEW j \in Jobs, NEW q \in Job, job' = [job EXCEPT ![j] = q], JobBacked(q)
  PROVE  RefundInv'
<1>1. ProvStable /\ RowsStable
  BY SameProvIsStable DEF RowsStable
<1>2. JobBacked(q)'
  BY <1>1, JobStaysBacked
<1>3. /\ row' = [row EXCEPT ![Primary] = row[Primary]] /\ row[Primary] \in Row
      /\ RowBacked(Primary, row[Primary]) /\ Primary \in Payments
  BY ConstantTypes DEF RefundInv, TypeOK
<1>4. QED
  BY <1>2, <1>3, MoveKeeps

\* A job that does nothing relies on nothing.
LEMMA IdleIsBacked == Idle \in Job /\ JobBacked(Idle)
  BY ConstantTypes DEF Idle, Job, JobBacked, AttemptPoints, NoRefund
-----------------------------------------------------------------------------
\* The steps of a job.

\* A job that begins knows no more than what it is begun with.
LEMMA BeginMoves ==
  ASSUME RefundInv, NEW j \in Jobs, NEW op \in {"admin", "sched", "hook"},
         NEW p \in Payments, NEW pid \in {NoRefund} \cup RefundIds,
         NEW at \in {"clear", "call", "settle", "failRead", "fetch", "list", "listDue"},
         Begin(j, op, p, at, pid)
  PROVE  \E q \in Job : /\ job' = [job EXCEPT ![j] = q]
                        /\ q.payment = p /\ q.pid = pid /\ q.at = at
                        /\ job[j].at = "idle"
<1> DEFINE q == [op |-> op, at |-> at, payment |-> p, pid |-> pid,
                 missing |-> IF op = "hook" THEN "recover" ELSE "end"]
<1>1. job' = [job EXCEPT ![j] = q] /\ job[j].at = "idle"
  BY DEF Begin, At
<1>2. q \in Job /\ q.payment = p /\ q.pid = pid /\ q.at = at
  BY DEF Job
<1>3. QED
  BY <1>1, <1>2

\* A job that goes on to a point keeps the rest.
LEMMA GoMoves ==
  ASSUME RefundInv, NEW j \in Jobs,
         NEW at \in {"call", "unknown", "reject", "settle", "revoke", "mark", "failRead",
                     "giveUp", "recover"}, Go(j, at)
  PROVE  \E q \in Job : /\ job' = [job EXCEPT ![j] = q]
                        /\ q.payment = job[j].payment /\ q.pid = job[j].pid /\ q.at = at
<1> DEFINE q == [job[j] EXCEPT !.at = at]
<1>1. job' = [job EXCEPT ![j] = q]
  BY DEF Go, RefundInv, TypeOK
<1>2. job[j] \in Job
  BY DEF RefundInv, TypeOK
<1>3. q \in Job /\ q.payment = job[j].payment /\ q.pid = job[j].pid /\ q.at = at
  BY <1>2 DEF Job
<1>4. QED
  BY <1>1, <1>3

\* The row of p is typed and backed, and so is what Update makes of it.
LEMMA UpdateMoves ==
  ASSUME RefundInv, NEW p \in Payments, NEW r \in Row, Update(p, r)
  PROVE  \E rec \in Row : /\ row' = [row EXCEPT ![p] = rec]
                          /\ rec.status = r.status /\ rec.pid = r.pid
                          /\ rec.unknown = r.unknown /\ rec.partial = r.partial
<1> DEFINE rec == [r EXCEPT !.fresh = TRUE]
<1>1. row' = [row EXCEPT ![p] = rec]
  BY DEF Update
<1>2. rec \in Row /\ rec.status = r.status /\ rec.pid = r.pid
      /\ rec.unknown = r.unknown /\ rec.partial = r.partial
  BY DEF Row
<1>3. QED
  BY <1>1, <1>2

\* Set writes the status and nothing a property reads besides.
LEMMA SetMoves ==
  ASSUME RefundInv, NEW p \in Payments, NEW status \in {"INITIATED", "FAILED", "COMPLETED"},
         Set(p, status)
  PROVE  \E rec \in Row : /\ row' = [row EXCEPT ![p] = rec]
                          /\ rec.status = status /\ rec.pid = row[p].pid
                          /\ rec.unknown = row[p].unknown /\ rec.partial = row[p].partial
<1>1. row[p] \in Row
  BY DEF RefundInv, TypeOK
<1> DEFINE r == [row[p] EXCEPT !.status = status]
<1>2. r \in Row /\ r.status = status /\ r.pid = row[p].pid /\ r.unknown = row[p].unknown
      /\ r.partial = row[p].partial
  BY <1>1 DEF Row
<1>3. Update(p, r)
  BY DEF Set
<1> HIDE DEF r
<1>4. QED
  BY <1>2, <1>3, UpdateMoves

\* A row that is FAILED by compare-and-set, or left as it is.
LEMMA FailInitiatedMoves ==
  ASSUME RefundInv, NEW p \in Payments, FailInitiated(p)
  PROVE  \E rec \in Row : /\ row' = [row EXCEPT ![p] = rec]
                          /\ rec.status = IF row[p].status = "INITIATED" THEN "FAILED"
                                          ELSE row[p].status
                          /\ rec.pid = row[p].pid
                          /\ rec.unknown = row[p].unknown /\ rec.partial = row[p].partial
<1>1. row[p] \in Row /\ row = [row EXCEPT ![p] = row[p]]
  BY DEF RefundInv, TypeOK
<1>2. CASE row[p].status = "INITIATED"
  BY <1>2, SetMoves DEF FailInitiated
<1>3. CASE row[p].status # "INITIATED"
  BY <1>1, <1>3 DEF FailInitiated
<1>4. QED
  BY <1>2, <1>3

\* A saved refund of the payment leaves the rest of the row.
LEMMA SaveRefundMoves ==
  ASSUME RefundInv, NEW p \in Payments, NEW r \in RefundIds, NEW rec \in Row,
         SaveRefund(p, r, rec)
  PROVE  /\ \E new \in Row : /\ row' = [row EXCEPT ![p] = new]
                             /\ new.status = rec.status /\ new.pid = r
                             /\ new.unknown = rec.unknown /\ new.partial = rec.partial
         /\ strayed' \subseteq strayed \cup {p} /\ strayed \subseteq strayed'
<1> DEFINE s == [rec EXCEPT !.pid = r]
<1>1. s \in Row /\ s.status = rec.status /\ s.pid = r /\ s.unknown = rec.unknown
      /\ s.partial = rec.partial
  BY DEF Row
<1>2. Update(p, s)
  BY DEF SaveRefund
<1>3. strayed' \subseteq strayed \cup {p} /\ strayed \subseteq strayed'
  BY DEF SaveRefund
<1> HIDE DEF s
<1>4. QED
  BY <1>1, <1>2, <1>3, UpdateMoves

\* A claim writes an INITIATED row, which says nothing of money.
LEMMA ClaimStep ==
  ASSUME RefundInv, NEW j \in Jobs, NEW op \in {"admin", "sched"}, NEW p \in Payments,
         Claim(j, op, p), UNCHANGED <<order, revoked, prov, delivered, faults, history>>
  PROVE  RefundInv'
<1>1. CountersOK'
  BY ConstantTypes DEF Claim, RefundInv, TypeOK, CountersOK, history
<1>2. CASE row[p].status = "NONE"
  <2>1. Update(p, [NoRow EXCEPT !.status = "INITIATED"]) /\ Begin(j, op, p, "call", NoRefund)
    BY <1>2 DEF Claim
  <2>2. [NoRow EXCEPT !.status = "INITIATED"] \in Row
    BY DEF NoRow, Row
  <2>3. PICK rec \in Row : /\ row' = [row EXCEPT ![p] = rec]
                           /\ rec.status = "INITIATED" /\ rec.pid = NoRefund /\ ~rec.partial
    BY <2>1, <2>2, UpdateMoves DEF NoRow
  <2>4. PICK q \in Job : job' = [job EXCEPT ![j] = q] /\ q.payment = p /\ q.at = "call"
    BY <2>1, BeginMoves
  <2>5. RowBacked(p, rec) /\ JobBacked(q)'
    BY <2>3, <2>4 DEF RowBacked, JobBacked, RefundInv, TypeOK, AttemptPoints
  <2>6. QED
    BY <1>1, <1>2, <2>3, <2>4, <2>5, MoveKeeps
<1>3. CASE row[p].status = "FAILED"
  <2>1. PICK at \in {"clear", "call"} : Set(p, "INITIATED") /\ Begin(j, op, p, at, NoRefund)
    BY <1>3 DEF Claim
  <2>2. PICK rec \in Row : /\ row' = [row EXCEPT ![p] = rec]
                           /\ rec.status = "INITIATED" /\ rec.pid = row[p].pid
                           /\ rec.partial = row[p].partial
    BY <2>1, SetMoves
  <2>3. PICK q \in Job : job' = [job EXCEPT ![j] = q] /\ q.payment = p /\ q.at = at
    BY <2>1, BeginMoves
  <2>4. RowBacked(p, rec) /\ JobBacked(q)'
    BY <1>3, <2>2, <2>3 DEF RowBacked, JobBacked, RefundInv, TypeOK, AttemptPoints
  <2>5. QED
    BY <1>1, <1>3, <2>2, <2>3, <2>4, MoveKeeps
<1>4. QED
  BY <1>2, <1>3 DEF Claim

\* A row that names no refund is backed.
LEMMA ClearPidStep ==
  ASSUME RefundInv, NEW j \in Jobs, ClearPid(j)
  PROVE  RefundInv'
<1> DEFINE p == job[j].payment
<1>1. CountersOK' /\ UNCHANGED <<order, revoked, prov>>
  BY DEF ClearPid, RefundInv, TypeOK, CountersOK, history, bounds
<1>2. p \in Payments /\ row[p] \in Row /\ RowBacked(p, row[p]) /\ row[p].status # "NONE"
  BY DEF ClearPid, At, RefundInv, TypeOK, Job, JobBacked, AttemptPoints
<1>3. [row[p] EXCEPT !.pid = NoRefund] \in Row
  BY <1>2 DEF Row
<1>4. PICK rec \in Row : /\ row' = [row EXCEPT ![p] = rec]
                         /\ rec.status = row[p].status /\ rec.pid = NoRefund
                         /\ rec.partial = row[p].partial
  BY <1>2, <1>3, UpdateMoves DEF ClearPid, Row
<1>5. PICK q \in Job : job' = [job EXCEPT ![j] = q] /\ q.payment = p /\ q.at = "call"
  BY GoMoves DEF ClearPid
<1>6. RowBacked(p, rec) /\ JobBacked(q)'
  BY <1>2, <1>4, <1>5 DEF RowBacked, JobBacked, RefundInv, TypeOK, AttemptPoints
<1>7. QED
  BY <1>1, <1>2, <1>4, <1>5, <1>6, MoveKeeps
\* What a job knows, typed.
LEMMA JobFacts ==
  ASSUME RefundInv, NEW j \in Jobs
  PROVE  /\ job[j] \in Job /\ JobBacked(job[j]) /\ job[j].payment \in Payments
         /\ row[job[j].payment] \in Row
         /\ RowBacked(job[j].payment, row[job[j].payment])
         /\ DOMAIN prov \subseteq RefundIds
<1>1. job[j] \in Job /\ JobBacked(job[j])
  BY DEF RefundInv, TypeOK
<1>2. job[j].payment \in Payments
  BY <1>1 DEF Job
<1>3. row[job[j].payment] \in Row /\ RowBacked(job[j].payment, row[job[j].payment])
  BY <1>2 DEF RefundInv, TypeOK
<1>4. DOMAIN prov \subseteq RefundIds
  <2>1. Len(prov) \in Nat /\ DOMAIN prov = 1..Len(prov) /\ Len(prov) <= MaxRefunds
    BY RefundNumbers DEF RefundInv, TypeOK
  <2>2. QED
    BY <2>1, ConstantTypes DEF RefundIds
<1>5. QED
  BY <1>1, <1>2, <1>3, <1>4

\* A job that finds nothing ends, or has the webhook recover its refund.
LEMMA MissingMoves ==
  ASSUME RefundInv, NEW j \in Jobs, Missing(j),
         job[j].at \in {"settle", "claim", "failRead"}
  PROVE  \E q \in Job : job' = [job EXCEPT ![j] = q] /\ JobBacked(q)
<1>1. CASE job[j].missing = "end"
  BY <1>1, IdleIsBacked DEF Missing, GoOrEnd, End
<1>2. CASE job[j].missing = "recover"
  <2>1. PICK q \in Job : /\ job' = [job EXCEPT ![j] = q] /\ q.at = "recover"
                         /\ q.pid = job[j].pid
    BY <1>2, GoMoves DEF Missing, GoOrEnd
  <2>2. JobBacked(q)
    BY <2>1, JobFacts DEF JobBacked, AttemptPoints
  <2>3. QED
    BY <2>1, <2>2
<1>3. QED
  BY <1>1, <1>2, JobFacts DEF Job

\* The steps that move the job and nothing else.
LEMMA QuietStep ==
  ASSUME RefundInv, NEW j \in Jobs,
         \/ ProviderRejects(j) \/ SettleRead(j) \/ FailRead(j) \/ FetchRefundStatus(j)
         \/ ListRefunds(j)
  PROVE  RefundInv'
<1>1. UNCHANGED <<order, revoked, row, prov>> /\ CountersOK'
  BY DEF ProviderRejects, SettleRead, FailRead, FetchRefundStatus, ListRefunds, bounds,
         history, CountersOK, RefundInv, TypeOK
<1>2. CASE ProviderRejects(j)
  <2>1. PICK q \in Job : job' = [job EXCEPT ![j] = q] /\ q.at = "reject"
    BY <1>2, GoMoves DEF ProviderRejects
  <2>2. JobBacked(q)
    BY <2>1 DEF JobBacked, AttemptPoints
  <2>3. QED
    BY <1>1, <2>1, <2>2, OnlyMoves
<1>3. CASE SettleRead(j)
  <2>1. job[j].at = "settle" /\ prov[job[j].pid].status = "processed" /\ job[j].pid \in DOMAIN prov
    BY <1>3, JobFacts DEF SettleRead, At, JobBacked
  <2>2. CASE Missing(j)
    BY <1>1, <2>1, <2>2, MissingMoves, OnlyMoves
  <2>3. CASE End(j)
    BY <1>1, <2>3, IdleIsBacked, OnlyMoves DEF End
  <2>4. ASSUME NEW p \in Holding(job[j].pid), prov[job[j].pid].full,
               job' = [job EXCEPT ![j].at = "claim", ![j].payment = p]
        PROVE  RefundInv'
    <3> DEFINE q == [job[j] EXCEPT !.at = "claim", !.payment = p]
    <3>1. job' = [job EXCEPT ![j] = q]
      BY <2>4 DEF RefundInv, TypeOK
    <3>2. p \in Payments /\ row[p].pid = job[j].pid
      BY <2>4 DEF Holding
    <3>3. q \in Job /\ q.at = "claim" /\ q.payment = p /\ q.pid = job[j].pid
      BY <3>2, JobFacts DEF Job
    <3> HIDE DEF q
    <3>4. prov[job[j].pid].payment = p
      BY <2>1, <3>2, RefundNumbers DEF RefundInv, RowBacked
    <3>5. JobBacked(q)
      BY <2>1, <2>4, <3>3, <3>4 DEF JobBacked, AttemptPoints
    <3>6. QED
      BY <1>1, <3>1, <3>3, <3>5, OnlyMoves
  <2>5. QED
    BY <1>3, <2>2, <2>3, <2>4 DEF SettleRead
<1>4. CASE FailRead(j)
  <2>1. job[j].at = "failRead" /\ prov[job[j].pid].status = "failed" /\ job[j].pid \in DOMAIN prov
    BY <1>4, JobFacts DEF FailRead, At, JobBacked
  <2>2. CASE Missing(j)
    BY <1>1, <2>1, <2>2, MissingMoves, OnlyMoves
  <2>3. CASE End(j)
    BY <1>1, <2>3, IdleIsBacked, OnlyMoves DEF End
  <2>4. ASSUME NEW p \in Holding(job[j].pid),
               job' = [job EXCEPT ![j].at = "failClaim", ![j].payment = p]
        PROVE  RefundInv'
    <3> DEFINE q == [job[j] EXCEPT !.at = "failClaim", !.payment = p]
    <3>1. job' = [job EXCEPT ![j] = q]
      BY <2>4 DEF RefundInv, TypeOK
    <3>2. p \in Payments /\ row[p].pid = job[j].pid
      BY <2>4 DEF Holding
    <3>3. q \in Job /\ q.at = "failClaim" /\ q.payment = p /\ q.pid = job[j].pid
      BY <3>2, JobFacts DEF Job
    <3> HIDE DEF q
    <3>4. prov[job[j].pid].payment = p
      BY <2>1, <3>2, RefundNumbers DEF RefundInv, RowBacked
    <3>5. JobBacked(q)
      BY <2>1, <2>4, <3>3, <3>4 DEF JobBacked, AttemptPoints
    <3>6. QED
      BY <1>1, <3>1, <3>3, <3>5, OnlyMoves
  <2>5. QED
    BY <1>4, <2>2, <2>3, <2>4 DEF FailRead
<1>5. CASE FetchRefundStatus(j)
  <2>1. job[j].at = "fetch" /\ job[j].pid \in DOMAIN prov
    BY <1>5, JobFacts DEF FetchRefundStatus, At, JobBacked
  <2>2. CASE End(j)
    BY <1>1, <2>2, IdleIsBacked, OnlyMoves DEF End
  <2>3. ASSUME NEW at \in {"settle", "failRead"}, Go(j, at),
               prov[job[j].pid].status = IF at = "settle" THEN "processed" ELSE "failed"
        PROVE  RefundInv'
    <3>1. PICK q \in Job : job' = [job EXCEPT ![j] = q] /\ q.at = at /\ q.pid = job[j].pid
      BY <2>3, GoMoves
    <3>2. JobBacked(q)
      BY <2>1, <2>3, <3>1 DEF JobBacked, AttemptPoints
    <3>3. QED
      BY <1>1, <3>1, <3>2, OnlyMoves
  <2>4. QED
    BY <1>5, <2>2, <2>3 DEF FetchRefundStatus
<1>6. CASE ListRefunds(j)
  <2>1. CASE End(j)
    BY <1>1, <2>1, IdleIsBacked, OnlyMoves DEF End
  <2>2. CASE Go(j, "giveUp")
    <3>1. PICK q \in Job : job' = [job EXCEPT ![j] = q] /\ q.at = "giveUp"
      BY <2>2, GoMoves
    <3>2. JobBacked(q)
      BY <3>1 DEF JobBacked, AttemptPoints
    <3>3. QED
      BY <1>1, <3>1, <3>2, OnlyMoves
  <2>3. ASSUME NEW r \in DOMAIN prov, prov[r].payment = job[j].payment, prov[r].full,
               prov[r].status = "processed",
               job' = [job EXCEPT ![j].at = "listed", ![j].pid = r]
        PROVE  RefundInv'
    <3> DEFINE q == [job[j] EXCEPT !.at = "listed", !.pid = r]
    <3>1. job' = [job EXCEPT ![j] = q]
      BY <2>3 DEF RefundInv, TypeOK
    <3>2. r \in RefundIds
      BY JobFacts
    <3>3. q \in Job /\ q.at = "listed" /\ q.payment = job[j].payment /\ q.pid = r
      BY <3>2, JobFacts DEF Job
    <3> HIDE DEF q
    <3>4. JobBacked(q)
      BY <2>3, <3>3 DEF JobBacked, AttemptPoints
    <3>5. QED
      BY <1>1, <3>1, <3>3, <3>4, OnlyMoves
  <2>4. QED
    BY <1>6, <2>1, <2>2, <2>3 DEF ListRefunds
<1>7. QED
  BY <1>2, <1>3, <1>4, <1>5, <1>6

\* The provider makes a refund for p, and the job, if any, moves to q.
LEMMA NewRefundKeeps ==
  ASSUME RefundInv, NEW p \in Payments, NEW status \in {"pending", "processed"},
         NEW full \in BOOLEAN, NEW by \in {"app", "dashboard"}, NewRefund(p, status, full, by),
         by = "app" => row[p].status # "NONE",
         UNCHANGED <<order, revoked, row>>, CountersOK',
         NEW j \in Jobs, NEW q \in Job, job' = [job EXCEPT ![j] = q], JobBacked(q)'
  PROVE  RefundInv'
<1>1. ProvStable /\ RowsStable
  BY NewRefundMoves DEF RowsStable
<1>2. \A k \in Jobs : JobBacked(job[k])'
  <2> TAKE k \in Jobs
  <2>1. CASE k = j
    BY <2>1 DEF RefundInv, TypeOK
  <2>2. CASE k # j
    <3>1. job'[k] = job[k] /\ JobBacked(job[k]) /\ job[k] \in Job
      BY <2>2 DEF RefundInv, TypeOK
    <3>2. QED
      BY <1>1, <3>1, JobStaysBacked
  <2>3. QED
    BY <2>1, <2>2
<1>3. \A o \in Payments : RowBacked(o, row[o])'
  <2> TAKE o \in Payments
  <2>1. RowBacked(o, row'[o])
    BY DEF RefundInv
  <2>2. QED
    BY <1>1, <2>1, RowStaysBacked
<1>4. \A r \in DOMAIN prov' : prov'[r].by = "app" => row'[prov'[r].payment].status # "NONE"
  <2>1. /\ DOMAIN prov' = DOMAIN prov \cup {Len(prov')}
        /\ \A r \in DOMAIN prov : prov'[r] = prov[r]
        /\ prov'[Len(prov')] = [payment |-> p, status |-> status, full |-> full, by |-> by]
    BY NewRefundMoves
  <2>2. prov'[Len(prov')].payment = p /\ prov'[Len(prov')].by = by
    BY <2>1
  <2>3. QED
    BY <2>1, <2>2 DEF RefundInv
<1>5. TypeOK'
  <2>1. \A k \in Jobs :
          job'[k].at \in {"save", "saveDone", "settle", "claim", "failRead", "failClaim",
                          "fetch", "listed", "recover", "recoverSave"}
            => job'[k].pid \in DOMAIN prov'
    BY <1>2 DEF JobBacked
  <2>2. job' \in [Jobs -> Job]
    BY DEF RefundInv, TypeOK
  <2>3. Len(prov') \in 0..MaxRefunds /\ \A r \in DOMAIN prov' : prov'[r] \in ProviderRefund
    BY <1>1, RefundNumbers DEF ProvStable
  <2>4. QED
    BY <2>1, <2>2, <2>3 DEF RefundInv, TypeOK, CountersOK
<1>6. RevokedOnlyByFullRefund'
  BY <1>1, RevokedStays
<1>7. QED
  BY <1>1, <1>2, <1>3, <1>4, <1>5, <1>6 DEF RefundInv, ProvStable

\* The job of an accepted refund knows a refund of its payment.
LEMMA ProviderAcceptsStep ==
  ASSUME RefundInv, NEW j \in Jobs, ProviderAccepts(j)
  PROVE  RefundInv'
<1> DEFINE p == job[j].payment
<1>1. /\ UNCHANGED <<order, revoked, row>> /\ CountersOK'
      /\ p \in Payments /\ row[p].status # "NONE"
  BY JobFacts DEF ProviderAccepts, At, CountersOK, bounds, history, RefundInv, TypeOK,
                  JobBacked, AttemptPoints
<1>2. PICK status \in {"pending", "processed"} :
         /\ NewRefund(p, status, TRUE, "app")
         /\ job' = [job EXCEPT ![j].at = IF status = "pending" THEN "save" ELSE "saveDone",
                               ![j].pid = Len(prov')]
  BY DEF ProviderAccepts
<1>3. /\ Len(prov') \in RefundIds /\ DOMAIN prov' = DOMAIN prov \cup {Len(prov')}
      /\ prov'[Len(prov')] = [payment |-> p, status |-> status, full |-> TRUE, by |-> "app"]
  BY <1>1, <1>2, NewRefundMoves
<1>4. PICK q \in Job : /\ job' = [job EXCEPT ![j] = q] /\ q.payment = p
                       /\ q.pid = Len(prov')
                       /\ q.at = IF status = "pending" THEN "save" ELSE "saveDone"
  <2> DEFINE at == IF status = "pending" THEN "save" ELSE "saveDone"
             n == [job[j] EXCEPT !.at = at, !.pid = Len(prov')]
  <2>1. job' = [job EXCEPT ![j] = n]
    BY <1>2 DEF RefundInv, TypeOK
  <2>2. n \in Job /\ n.at = at /\ n.pid = Len(prov') /\ n.payment = p
    BY <1>3, JobFacts DEF Job
  <2>3. QED
    BY <2>1, <2>2
<1> HIDE DEF p
<1>5. /\ q.pid \in DOMAIN prov' /\ prov'[q.pid].payment = q.payment
      /\ prov'[q.pid].status = status /\ prov'[q.pid].full
      /\ row'[q.payment].status # "NONE"
  <2> DEFINE n == [payment |-> p, status |-> status, full |-> TRUE, by |-> "app"]
  <2>1. n.payment = p /\ n.status = status /\ n.full
    OBVIOUS
  <2>2. q.pid \in DOMAIN prov' /\ prov'[q.pid] = n
    BY <1>3, <1>4
  <2> HIDE DEF n
  <2>3. QED
    BY <1>1, <1>4, <2>1, <2>2
<1>6. JobBacked(q)'
  BY <1>4, <1>5 DEF JobBacked, AttemptPoints
<1>7. QED
  BY <1>1, <1>2, <1>4, <1>6, NewRefundKeeps

\* A call without an answer may leave a refund behind it.
LEMMA NoAnswerStep ==
  ASSUME RefundInv, NEW j \in Jobs, NoAnswer(j)
  PROVE  RefundInv'
<1> DEFINE p == job[j].payment
<1>1. /\ UNCHANGED <<order, revoked, row>> /\ CountersOK'
      /\ p \in Payments /\ row[p].status # "NONE"
  BY ConstantTypes, JobFacts
     DEF NoAnswer, At, CountersOK, history, RefundInv, TypeOK, JobBacked, AttemptPoints
<1>2. PICK q \in Job : /\ job' = [job EXCEPT ![j] = q] /\ q.payment = p /\ q.at = "unknown"
  BY GoMoves DEF NoAnswer
<1>3. JobBacked(q) /\ JobBacked(q)'
  BY <1>1, <1>2 DEF JobBacked, AttemptPoints
<1>4. CASE UNCHANGED prov
  BY <1>1, <1>2, <1>3, <1>4, OnlyMoves
<1>5. CASE NewRefund(p, "pending", TRUE, "app")
  BY <1>1, <1>2, <1>3, <1>5, NewRefundKeeps
<1>6. QED
  BY <1>4, <1>5 DEF NoAnswer
\* Saves of the refund a job knows: after the call, from the listing, and of
\* a refund that a webhook brought.
LEMMA SaveStep ==
  ASSUME RefundInv, NEW j \in Jobs, SavePid(j) \/ SaveListed(j) \/ RecoverSave(j)
  PROVE  RefundInv'
<1> DEFINE p == job[j].payment
           r == job[j].pid
<1>1. /\ UNCHANGED <<order, revoked, prov>> /\ p \in Payments /\ row[p] \in Row
      /\ r \in RefundIds /\ r \in DOMAIN prov /\ prov[r].payment = p /\ RowBacked(p, row[p])
      /\ job[j].at \in {"save", "saveDone", "listed", "recoverSave"}
  BY JobFacts DEF SavePid, SaveListed, RecoverSave, At, JobBacked
<1>2. PICK rec \in {row[p], [row[p] EXCEPT !.unknown = "no"]} : SaveRefund(p, r, rec)
  BY DEF SavePid, SaveListed, RecoverSave
<1>3. rec \in Row /\ rec.status = row[p].status /\ rec.partial = row[p].partial
  BY <1>1, <1>2 DEF Row
<1>4. PICK new \in Row : /\ row' = [row EXCEPT ![p] = new]
                         /\ new.status = rec.status /\ new.pid = r
                         /\ new.partial = rec.partial
  BY <1>1, <1>2, <1>3, SaveRefundMoves
<1>5. CountersOK'
  <2>1. strayed' \subseteq strayed \cup {p}
    BY <1>1, <1>2, <1>3, SaveRefundMoves
  <2>2. UNCHANGED <<delivered, faults, retries, gaveUp>>
    BY DEF SavePid, SaveListed, RecoverSave, bounds
  <2>3. QED
    BY <1>1, <2>1, <2>2 DEF CountersOK, RefundInv, TypeOK
<1>6. RowBacked(p, new)
  BY <1>1, <1>3, <1>4 DEF RowBacked, ProcessedFor
<1>7. \E q \in Job : job' = [job EXCEPT ![j] = q] /\ JobBacked(q)'
  <2>1. CASE End(j)
    BY <2>1, IdleIsBacked DEF End, JobBacked, Idle, AttemptPoints
  <2>2. CASE SavePid(j) /\ Go(j, "settle")
    <3>1. PICK q \in Job : job' = [job EXCEPT ![j] = q] /\ q.at = "settle" /\ q.pid = r
      BY <2>2, GoMoves
    <3>2. job[j].at = "saveDone" \/ End(j)
      BY <2>2 DEF SavePid, At
    <3>3. JobBacked(q)' \/ End(j)
      BY <1>1, <3>1, <3>2, JobFacts DEF JobBacked, AttemptPoints
    <3>4. QED
      BY <2>1, <3>1, <3>3
  <2>3. CASE SaveListed(j)
    <3>1. PICK q \in Job : job' = [job EXCEPT ![j] = q] /\ q.at = "settle" /\ q.pid = r
      BY <2>3, GoMoves DEF SaveListed
    <3>2. JobBacked(q)'
      BY <1>1, <2>3, <3>1, JobFacts DEF SaveListed, At, JobBacked, AttemptPoints
    <3>3. QED
      BY <3>1, <3>2
  <2>4. CASE RecoverSave(j)
    <3> DEFINE at == IF prov[r].status = "failed" THEN "failRead" ELSE "settle"
               n == [job[j] EXCEPT !.missing = "end", !.at = at]
    <3>1. job' = [job EXCEPT ![j] = n]
      BY <2>4 DEF RecoverSave, RefundInv, TypeOK
    <3>2. n \in Job /\ n.at = at /\ n.pid = r
      BY JobFacts DEF Job
    <3>3. \E q \in Job : job' = [job EXCEPT ![j] = q] /\ q.at = at /\ q.pid = r
      BY <3>1, <3>2
    <3>4. PICK q \in Job : job' = [job EXCEPT ![j] = q] /\ q.at = at /\ q.pid = r
      BY <3>3
    <3>5. prov[r].status \in {"processed", "failed"}
      <4>1. prov[r].status # "pending" /\ prov[r] \in ProviderRefund
        BY <1>1, <2>4, JobFacts, RefundNumbers DEF RecoverSave, At, JobBacked, RefundInv
      <4>2. QED
        BY <4>1 DEF ProviderRefund
    <3>6. JobBacked(q)'
      BY <1>1, <3>4, <3>5 DEF JobBacked, AttemptPoints
    <3>7. QED
      BY <3>4, <3>6
  <2>5. QED
    BY <2>1, <2>2, <2>3, <2>4 DEF SavePid
<1>8. QED
  BY <1>1, <1>3, <1>4, <1>5, <1>6, <1>7, MoveKeeps

\* A row that keeps its refund and is not COMPLETED or was so is as backed.
LEMMA SameRefundIsBacked ==
  ASSUME RefundInv, NEW p \in Payments, NEW rec \in Row,
         rec.pid = row[p].pid, rec.partial = row[p].partial,
         rec.status = "COMPLETED" <=> row[p].status = "COMPLETED"
  PROVE  RowBacked(p, rec)
  BY DEF RefundInv, RowBacked

\* The steps that end a job with what it writes into its row.
LEMMA EndStep ==
  ASSUME RefundInv, NEW j \in Jobs,
         SaveUnknown(j) \/ SaveRejected(j) \/ FailClaim(j) \/ GiveUp(j)
  PROVE  RefundInv'
<1> DEFINE p == job[j].payment
<1>1. /\ UNCHANGED <<order, revoked, prov>> /\ End(j) /\ p \in Payments /\ row[p] \in Row
  BY JobFacts DEF SaveUnknown, SaveRejected, FailClaim, GiveUp
<1>2. CountersOK'
  <2>1. UNCHANGED bounds /\ gaveUp' \subseteq gaveUp \cup {p} /\ strayed' \subseteq strayed \cup {p}
    BY DEF SaveUnknown, SaveRejected, FailClaim, GiveUp, history
  <2>2. QED
    BY <1>1, <2>1 DEF CountersOK, RefundInv, TypeOK, bounds
<1>3. PICK rec \in Row : /\ row' = [row EXCEPT ![p] = rec]
                         /\ rec.pid = row[p].pid /\ rec.partial = row[p].partial
                         /\ \/ rec.status = row[p].status
                            \/ rec.status = "FAILED" /\ row[p].status = "INITIATED"
  <2>1. CASE SaveUnknown(j)
    <3>1. [row[p] EXCEPT !.unknown = "recent"] \in Row
      BY <1>1 DEF Row
    <3>2. QED
      BY <1>1, <2>1, <3>1, UpdateMoves DEF SaveUnknown, Row
  <2>2. CASE FailInitiated(p)
    BY <1>1, <2>2, FailInitiatedMoves
  <2>3. QED
    BY <2>1, <2>2 DEF SaveRejected, FailClaim, GiveUp
<1>4. RowBacked(p, rec)
  BY <1>1, <1>3, SameRefundIsBacked
<1>5. JobBacked(Idle)'
  BY DEF Idle, JobBacked, AttemptPoints
<1>6. QED
  BY <1>1, <1>2, <1>3, <1>4, <1>5, IdleIsBacked, MoveKeeps DEF End

\* The row that a job settles gets COMPLETED with its refund behind it.
LEMMA SettleClaimStep ==
  ASSUME RefundInv, NEW j \in Jobs, SettleClaim(j)
  PROVE  RefundInv'
<1> DEFINE p == job[j].payment
           r == job[j].pid
<1>1. /\ UNCHANGED <<order, revoked, prov>> /\ CountersOK'
      /\ p \in Payments /\ row[p] \in Row /\ RowBacked(p, row[p])
      /\ r \in DOMAIN prov /\ prov[r].payment = p /\ prov[r].full /\ prov[r].status = "processed"
      /\ job[j].at = "claim"
  BY JobFacts DEF SettleClaim, At, JobBacked, bounds, history, CountersOK, RefundInv, TypeOK
<1>2. CASE row[p].status = "INITIATED"
  <2>1. PICK rec \in Row : /\ row' = [row EXCEPT ![p] = rec]
                           /\ rec.status = "COMPLETED" /\ rec.pid = row[p].pid
                           /\ rec.partial = row[p].partial
    BY <1>1, <1>2, SetMoves DEF SettleClaim
  <2>2. ~row[p].partial
    BY <1>1, <1>2 DEF RowBacked
  <2>3. r \in ProcessedFor(p) /\ prov[r].full = ~row[p].partial
    BY <1>1, <2>2, RefundNumbers DEF ProcessedFor, RefundInv, ProviderRefund, Row
  <2>4. RowBacked(p, rec)
    BY <1>1, <2>1, <2>3 DEF RowBacked
  <2>5. \E q \in Job : job' = [job EXCEPT ![j] = q] /\ JobBacked(q)'
    <3>1. CASE End(j)
      BY <3>1, IdleIsBacked DEF End, JobBacked, Idle, AttemptPoints
    <3>2. CASE p = Primary /\ Go(j, "revoke")
      <4>1. PICK q \in Job : job' = [job EXCEPT ![j] = q] /\ q.at = "revoke" /\ q.payment = p
        BY <3>2, GoMoves
      <4>2. row'[Primary].status = "COMPLETED"
        BY <1>1, <2>1, <3>2 DEF RefundInv, TypeOK
      <4>3. Full(Primary)'
        BY <1>1, <2>3, <3>2 DEF Full, ProcessedFor
      <4>4. JobBacked(q)'
        BY <3>2, <4>1, <4>2, <4>3 DEF JobBacked, AttemptPoints
      <4>5. QED
        BY <4>1, <4>4
    <3>3. QED
      BY <1>2, <3>1, <3>2 DEF SettleClaim
  <2>6. QED
    BY <1>1, <2>1, <2>4, <2>5, MoveKeeps
<1>3. CASE row[p].status # "INITIATED"
  <2>1. UNCHANGED row /\ (End(j) \/ Missing(j))
    BY <1>3 DEF SettleClaim
  <2>2. CASE End(j)
    BY <1>1, <2>1, <2>2, IdleIsBacked, OnlyMoves DEF End
  <2>3. CASE Missing(j)
    BY <1>1, <2>1, <2>3, MissingMoves, OnlyMoves
  <2>4. QED
    BY <2>1, <2>2, <2>3
<1>4. QED
  BY <1>2, <1>3
\* The end of a settled refund of the order: the entitlements, then the order.
LEMMA RevokeStep ==
  ASSUME RefundInv, NEW j \in Jobs, RevokeEntitlements(j) \/ MarkOrderRefunded(j)
  PROVE  RefundInv'
<1>1. UNCHANGED <<row, prov>> /\ CountersOK'
  BY DEF RevokeEntitlements, MarkOrderRefunded, bounds, history, CountersOK, RefundInv, TypeOK
<1>2. /\ job[j].at \in {"revoke", "mark"} /\ job[j].payment = Primary
      /\ row[Primary].status = "COMPLETED" /\ Full(Primary)
  BY JobFacts DEF RevokeEntitlements, MarkOrderRefunded, At, JobBacked
<1>3. /\ revoked' /\ revoked' \in BOOLEAN /\ order' \in {"PAID", "REFUNDED"}
  BY JobFacts DEF RevokeEntitlements, MarkOrderRefunded, At, JobBacked, RefundInv, TypeOK
<1>4. ProvStable /\ RowsStable
  BY <1>1, <1>3, SameProvIsStable DEF RowsStable
<1>5. Full(Primary)'
  BY <1>1, <1>2 DEF Full, ProcessedFor
<1>6. PICK q \in Job : job' = [job EXCEPT ![j] = q] /\ JobBacked(q)'
  <2>1. CASE End(j)
    BY <2>1, IdleIsBacked DEF End, JobBacked, Idle, AttemptPoints
  <2>2. CASE Go(j, "mark")
    <3>1. PICK q \in Job : job' = [job EXCEPT ![j] = q] /\ q.at = "mark" /\ q.payment = Primary
      BY <1>2, <2>2, GoMoves
    <3>2. JobBacked(q)'
      BY <1>1, <1>2, <1>3, <1>5, <3>1 DEF JobBacked, AttemptPoints
    <3>3. QED
      BY <3>1, <3>2
  <2>3. QED
    BY <2>1, <2>2 DEF RevokeEntitlements, MarkOrderRefunded
<1>7. job' \in [Jobs -> Job] /\ job'[j] = q /\ \A k \in Jobs \ {j} : job'[k] = job[k]
  BY <1>6 DEF RefundInv, TypeOK
<1>8. \A k \in Jobs : JobBacked(job[k])'
  <2> TAKE k \in Jobs
  <2>1. CASE k = j
    BY <1>6, <1>7, <2>1
  <2>2. CASE k # j
    <3>1. job'[k] = job[k] /\ JobBacked(job[k]) /\ job[k] \in Job
      BY <1>7, <2>2 DEF RefundInv, TypeOK
    <3>2. QED
      BY <1>4, <3>1, JobStaysBacked
  <2>3. QED
    BY <2>1, <2>2
<1>9. \A p \in Payments : RowBacked(p, row[p])'
  BY <1>1 DEF RefundInv, RowBacked, ProcessedFor
<1>10. RevokedOnlyByFullRefund'
  BY <1>1, <1>2, <1>3, <1>5 DEF RevokedOnlyByFullRefund, Full
<1>11. TypeOK'
  <2>1. \A k \in Jobs :
          job'[k].at \in {"save", "saveDone", "settle", "claim", "failRead", "failClaim",
                          "fetch", "listed", "recover", "recoverSave"}
            => job'[k].pid \in DOMAIN prov'
    BY <1>8 DEF JobBacked
  <2>2. QED
    BY <1>1, <1>3, <1>7, <2>1 DEF RefundInv, TypeOK, CountersOK
<1>12. QED
  BY <1>1, <1>8, <1>9, <1>10, <1>11 DEF RefundInv

\* A webhook's refund goes to the row of its payment, or into a new one.
LEMMA RecoverStep ==
  ASSUME RefundInv, NEW j \in Jobs, Recover(j)
  PROVE  RefundInv'
<1> DEFINE r == job[j].pid
           p == prov[r].payment
           at == IF prov[r].status = "failed" THEN "failRead" ELSE "settle"
           again == [job EXCEPT ![j].payment = p, ![j].missing = "end", ![j].at = at]
<1>1. /\ UNCHANGED <<order, revoked, prov>> /\ CountersOK'
      /\ r \in DOMAIN prov /\ prov[r] \in ProviderRefund /\ prov[r].status # "pending"
      /\ r \in RefundIds
  BY JobFacts, RefundNumbers
     DEF Recover, At, JobBacked, bounds, history, CountersOK, RefundInv, TypeOK
<1>2. p \in Payments /\ prov[r].status \in {"processed", "failed"} /\ prov[r].full \in BOOLEAN
  BY <1>1 DEF ProviderRefund
<1>3. row[p] \in Row
  BY <1>2 DEF RefundInv, TypeOK
<1>4. \E q \in Job : again = [job EXCEPT ![j] = q] /\ q.at = at /\ q.pid = r
  <2> DEFINE n == [job[j] EXCEPT !.payment = p, !.missing = "end", !.at = at]
  <2>1. n \in Job /\ n.at = at /\ n.pid = r
    BY <1>2, JobFacts DEF Job
  <2>2. again = [job EXCEPT ![j] = n]
    BY DEF RefundInv, TypeOK
  <2>3. QED
    BY <2>1, <2>2
<1>5. ASSUME job' = again PROVE \E q \in Job : job' = [job EXCEPT ![j] = q] /\ JobBacked(q)
  <2>1. PICK q \in Job : again = [job EXCEPT ![j] = q] /\ q.at = at /\ q.pid = r
    BY <1>4
  <2>2. JobBacked(q)
    BY <1>1, <1>2, <2>1 DEF JobBacked, AttemptPoints
  <2>3. QED
    BY <1>5, <2>1, <2>2
<1>6. CASE row[p].status # "NONE" /\ job' = again
  BY <1>1, <1>5, <1>6, OnlyMoves DEF Recover
<1>7. CASE row[p].status # "NONE" /\ job' # again
  <2> DEFINE n == [job[j] EXCEPT !.payment = p, !.at = "recoverSave"]
  <2>1. UNCHANGED row /\ job' = [job EXCEPT ![j].payment = p, ![j].at = "recoverSave"]
    BY <1>7 DEF Recover
  <2>2. job' = [job EXCEPT ![j] = n]
    BY <2>1 DEF RefundInv, TypeOK
  <2>3. n \in Job /\ n.at = "recoverSave" /\ n.pid = r /\ n.payment = p
    BY <1>2, JobFacts DEF Job
  <2> HIDE DEF n
  <2>4. JobBacked(n)
    BY <1>1, <2>3 DEF JobBacked, AttemptPoints
  <2>5. QED
    BY <1>1, <2>1, <2>2, <2>3, <2>4, OnlyMoves
<1>8. CASE row[p].status = "NONE" /\ UNCHANGED row
  <2>1. End(j) \/ row' # row \/ job' = again
    BY <1>8 DEF Recover
  <2>2. QED
    BY <1>1, <1>5, <1>8, <2>1, IdleIsBacked, OnlyMoves DEF End
<1>9. CASE row[p].status = "NONE" /\ ~UNCHANGED row /\ ~prov[r].full
  <2> DEFINE n == [NoRow EXCEPT !.status = "COMPLETED", !.pid = r, !.partial = TRUE]
  <2>1. Update(p, n) /\ End(j) /\ prov[r].status = "processed"
    BY <1>9 DEF Recover
  <2>2. /\ n \in Row /\ n.status = "COMPLETED" /\ n.pid = r /\ n.partial = TRUE
    BY <1>1 DEF NoRow, Row
  <2> HIDE DEF n
  <2>3. PICK rec \in Row : /\ row' = [row EXCEPT ![p] = rec] /\ rec.status = "COMPLETED"
                           /\ rec.pid = r /\ rec.partial = n.partial
    BY <1>2, <2>1, <2>2, UpdateMoves
  <2>4. rec.partial = TRUE /\ prov[r].full = FALSE
    BY <1>2, <1>9, <2>2, <2>3
  <2>5. RowBacked(p, rec)
    BY <1>1, <2>1, <2>3, <2>4 DEF RowBacked, ProcessedFor
  <2>6. JobBacked(Idle)'
    BY DEF Idle, JobBacked, AttemptPoints
  <2>7. QED
    BY <1>1, <1>2, <1>9, <2>1, <2>3, <2>5, <2>6, IdleIsBacked, MoveKeeps DEF End
<1>10. CASE row[p].status = "NONE" /\ ~UNCHANGED row /\ prov[r].full
  <2> DEFINE n == [NoRow EXCEPT !.status = "INITIATED", !.pid = r]
  <2>1. Update(p, n) /\ job' = again
    BY <1>10 DEF Recover
  <2>2. /\ n \in Row /\ n.status = "INITIATED" /\ n.pid = r /\ ~n.partial
    BY <1>1 DEF NoRow, Row
  <2> HIDE DEF n
  <2>3. PICK rec \in Row : /\ row' = [row EXCEPT ![p] = rec] /\ rec.status = "INITIATED"
                           /\ rec.pid = r /\ rec.partial = n.partial
    BY <1>2, <2>1, <2>2, UpdateMoves
  <2>4. RowBacked(p, rec)
    BY <1>1, <2>2, <2>3 DEF RowBacked
  <2>5. PICK q \in Job : job' = [job EXCEPT ![j] = q] /\ q.at = at /\ q.pid = r
    BY <1>4, <2>1
  <2>6. JobBacked(q)'
    BY <1>1, <1>2, <2>5 DEF JobBacked, AttemptPoints
  <2>7. QED
    BY <1>1, <1>2, <1>10, <2>3, <2>4, <2>5, <2>6, MoveKeeps
<1>11. QED
  BY <1>6, <1>7, <1>8, <1>9, <1>10, <1>2

\* The starts of the scheduler's work on a row and of a webhook delivery.
LEMMA StartStep ==
  ASSUME RefundInv, NEW j \in Jobs,
         \/ \E p \in Payments : SchedKnown(j, p) \/ SchedUnknown(j, p)
         \/ \E r \in DOMAIN prov : Deliver(j, r)
  PROVE  RefundInv'
<1>1. ASSUME NEW p \in Payments, SchedKnown(j, p) PROVE RefundInv'
  <2>1. /\ UNCHANGED <<order, revoked, row, prov>> /\ CountersOK'
        /\ row[p].pid # NoRefund /\ Begin(j, "sched", p, "fetch", row[p].pid)
    BY <1>1 DEF SchedKnown, bounds, history, CountersOK, RefundInv, TypeOK
  <2>2. row[p].pid \in DOMAIN prov /\ row[p].pid \in RefundIds
    BY <2>1, JobFacts DEF RefundInv, RowBacked
  <2>3. PICK q \in Job : job' = [job EXCEPT ![j] = q] /\ q.at = "fetch" /\ q.pid = row[p].pid
    BY <2>1, <2>2, BeginMoves
  <2>4. JobBacked(q)
    BY <2>2, <2>3 DEF JobBacked, AttemptPoints
  <2>5. QED
    BY <2>1, <2>3, <2>4, OnlyMoves
<1>2. ASSUME NEW p \in Payments, SchedUnknown(j, p) PROVE RefundInv'
  <2>1. UNCHANGED <<order, revoked, row, prov>> /\ CountersOK'
    BY <1>2 DEF SchedUnknown, bounds, history, CountersOK, RefundInv, TypeOK
  <2>2. PICK at \in {"list", "listDue"} : Begin(j, "sched", p, at, NoRefund)
    BY <1>2 DEF SchedUnknown
  <2>3. PICK q \in Job : job' = [job EXCEPT ![j] = q] /\ q.at = at
    BY <2>2, BeginMoves
  <2>4. JobBacked(q)
    BY <2>3 DEF JobBacked, AttemptPoints
  <2>5. QED
    BY <2>1, <2>3, <2>4, OnlyMoves
<1>3. ASSUME NEW r \in DOMAIN prov, Deliver(j, r) PROVE RefundInv'
  <2>1. UNCHANGED <<order, revoked, row, prov>> /\ CountersOK'
    BY <1>3, ConstantTypes DEF Deliver, history, CountersOK, RefundInv, TypeOK
  <2>2. r \in RefundIds /\ prov[r].payment \in Payments
    BY JobFacts, RefundNumbers DEF RefundInv, ProviderRefund
  <2>3. PICK at \in {"settle", "failRead"} :
          /\ Begin(j, "hook", prov[r].payment, at, r)
          /\ prov[r].status = IF at = "settle" THEN "processed" ELSE "failed"
    BY <1>3 DEF Deliver
  <2>4. PICK q \in Job : job' = [job EXCEPT ![j] = q] /\ q.at = at /\ q.pid = r
    BY <2>2, <2>3, BeginMoves
  <2>5. JobBacked(q)
    BY <2>3, <2>4 DEF JobBacked, AttemptPoints
  <2>6. QED
    BY <2>1, <2>4, <2>5, OnlyMoves
<1>4. QED
  BY <1>1, <1>2, <1>3

\* A lost job relies on nothing any more.
LEMMA LoseStep ==
  ASSUME RefundInv, NEW j \in Jobs, Lose(j)
  PROVE  RefundInv'
<1>1. UNCHANGED <<order, revoked, row, prov, delivered, retries, gaveUp>> /\ End(j)
  BY DEF Lose
<1>2. faults' \in 0..MaxFaults
  BY ConstantTypes DEF Lose, RefundInv, TypeOK
<1>3. strayed' \subseteq strayed \cup {job[j].payment}
  BY DEF Lose
<1>4. CountersOK'
  BY <1>1, <1>2, <1>3, JobFacts DEF CountersOK, RefundInv, TypeOK
<1>5. QED
  BY <1>1, <1>4, IdleIsBacked, OnlyMoves DEF End

\* The steps of the provider, its dashboard and time.
LEMMA ProviderFinishesStep ==
  ASSUME RefundInv, NEW r \in DOMAIN prov, ProviderFinishes(r)
  PROVE  RefundInv'
<1>1. UNCHANGED <<order, revoked, row, job, bounds, history>>
  BY DEF ProviderFinishes
<1>2. ProvStable /\ RowsStable /\ DOMAIN prov' = DOMAIN prov
  BY <1>1, ProviderFinishesMoves DEF RowsStable
<1>3. \A j \in Jobs : JobBacked(job[j])'
  BY <1>1, <1>2, JobStaysBacked DEF RefundInv, TypeOK
<1>4. \A p \in Payments : RowBacked(p, row[p])'
  <2> TAKE p \in Payments
  <2>1. RowBacked(p, row'[p])
    BY <1>1 DEF RefundInv
  <2>2. QED
    BY <1>2, <2>1, RowStaysBacked
<1>5. TypeOK'
  <2>1. Len(prov') \in 0..MaxRefunds /\ \A s \in DOMAIN prov' : prov'[s] \in ProviderRefund
    BY <1>2, RefundNumbers DEF ProvStable
  <2>2. QED
    BY <1>1, <1>2, <2>1 DEF RefundInv, TypeOK, bounds, history
<1>6. \A s \in DOMAIN prov' : prov'[s].by = "app" => row'[prov'[s].payment].status # "NONE"
  BY <1>1, <1>2 DEF RefundInv, ProvStable
<1>7. QED
  BY <1>1, <1>2, <1>3, <1>4, <1>5, <1>6, RevokedStays DEF RefundInv, ProvStable

\* A refund of the dashboard touches no row and no job.
LEMMA DashboardRefundStep ==
  ASSUME RefundInv, NEW p \in Payments, DashboardRefund(p)
  PROVE  RefundInv'
<1>1. UNCHANGED <<order, revoked, row, job, bounds, history>>
  BY DEF DashboardRefund
<1>2. PICK full \in BOOLEAN : NewRefund(p, "pending", full, "dashboard")
  BY DEF DashboardRefund
<1>3. ProvStable /\ RowsStable /\ DOMAIN prov' = DOMAIN prov \cup {Len(prov')}
  BY <1>1, <1>2, NewRefundMoves DEF RowsStable
<1>4. \A j \in Jobs : JobBacked(job[j])'
  BY <1>1, <1>3, JobStaysBacked DEF RefundInv, TypeOK
<1>5. \A o \in Payments : RowBacked(o, row[o])'
  <2> TAKE o \in Payments
  <2>1. RowBacked(o, row'[o])
    BY <1>1 DEF RefundInv
  <2>2. QED
    BY <1>3, <2>1, RowStaysBacked
<1>6. TypeOK'
  <2>1. Len(prov') \in 0..MaxRefunds /\ \A s \in DOMAIN prov' : prov'[s] \in ProviderRefund
    <3>1. prov' \in Seq(ProviderRefund) /\ Len(prov') \in 0..MaxRefunds
      BY <1>3 DEF ProvStable
    <3>2. QED
      BY <3>1
  <2>2. \A j \in Jobs :
          job'[j].at \in {"save", "saveDone", "settle", "claim", "failRead", "failClaim",
                          "fetch", "listed", "recover", "recoverSave"}
            => job'[j].pid \in DOMAIN prov'
    BY <1>4 DEF JobBacked
  <2>3. QED
    BY <1>1, <2>1, <2>2 DEF RefundInv, TypeOK, bounds, history
<1>7. \A s \in DOMAIN prov' : prov'[s].by = "app" => row'[prov'[s].payment].status # "NONE"
  <2> DEFINE n == [payment |-> p, status |-> "pending", full |-> full, by |-> "dashboard"]
  <2>1. prov'[Len(prov')] = n /\ \A s \in DOMAIN prov : prov'[s] = prov[s]
    BY <1>2, NewRefundMoves
  <2>2. n.by = "dashboard"
    OBVIOUS
  <2> HIDE DEF n
  <2>3. QED
    BY <1>1, <1>3, <2>1, <2>2 DEF RefundInv
<1>8. QED
  BY <1>1, <1>3, <1>4, <1>5, <1>6, <1>7, RevokedStays DEF RefundInv, ProvStable

\* Time changes neither status nor refund of a row.
LEMMA AgeStep ==
  ASSUME RefundInv, NEW p \in Payments, Age(p)
  PROVE  RefundInv'
<1>1. UNCHANGED <<order, revoked, prov, job, bounds, history>> /\ CountersOK'
  BY DEF Age, bounds, history, CountersOK, RefundInv, TypeOK
<1>2. row[p] \in Row
  BY DEF RefundInv, TypeOK
<1>3. PICK rec \in Row : /\ row' = [row EXCEPT ![p] = rec] /\ rec.status = row[p].status
                         /\ rec.pid = row[p].pid /\ rec.partial = row[p].partial
  <2>1. CASE row' = [row EXCEPT ![p].fresh = FALSE]
    <3> DEFINE n == [row[p] EXCEPT !.fresh = FALSE]
    <3>1. n \in Row /\ n.status = row[p].status /\ n.pid = row[p].pid /\ n.partial = row[p].partial
      BY <1>2 DEF Row
    <3>2. row' = [row EXCEPT ![p] = n]
      BY <2>1 DEF RefundInv, TypeOK
    <3>3. QED
      BY <3>1, <3>2
  <2>2. CASE row' = [row EXCEPT ![p].unknown = "old"]
    <3> DEFINE n == [row[p] EXCEPT !.unknown = "old"]
    <3>1. n \in Row /\ n.status = row[p].status /\ n.pid = row[p].pid /\ n.partial = row[p].partial
      BY <1>2 DEF Row
    <3>2. row' = [row EXCEPT ![p] = n]
      BY <2>2 DEF RefundInv, TypeOK
    <3>3. QED
      BY <3>1, <3>2
  <2>3. QED
    BY <2>1, <2>2 DEF Age
<1>4. RowBacked(p, rec)
  BY <1>3, SameRefundIsBacked
<1>5. ProvStable /\ RowsStable
  BY <1>1, <1>3, SameProvIsStable DEF RowsStable, RefundInv, TypeOK
<1>6. row' \in [Payments -> Row] /\ \A o \in Payments : RowBacked(o, row'[o])
  BY <1>3, <1>4 DEF RefundInv, TypeOK
<1>7. \A o \in Payments : RowBacked(o, row[o])'
  <2> TAKE o \in Payments
  <2>1. RowBacked(o, row'[o])
    BY <1>6
  <2>2. QED
    BY <1>5, <2>1, RowStaysBacked
<1>8. \A j \in Jobs : JobBacked(job[j])'
  BY <1>1, <1>5, JobStaysBacked DEF RefundInv, TypeOK
<1>9. \A r \in DOMAIN prov' : prov'[r].by = "app" => row'[prov'[r].payment].status # "NONE"
  BY <1>1, <1>5, RefundNumbers DEF RefundInv, RowsStable, ProviderRefund
<1>10. TypeOK'
  BY <1>1, <1>6 DEF RefundInv, TypeOK, CountersOK
<1>11. QED
  BY <1>1, <1>5, <1>7, <1>8, <1>9, <1>10, RevokedStays DEF RefundInv
-----------------------------------------------------------------------------
\* The attempts and the refunds they have made.

\* What a step must leave of payment p for its refunds to stay accounted for:
\* no attempt begins, none that has called the provider moves, the row forgets
\* nothing and no refund of the application is new.
Undisturbed(p) ==
  /\ \A j \in Jobs : Tries(j, p)' => job'[j] = job[j]
  /\ \A j \in Jobs : (job[j].payment = p /\ job[j].at \in {"save", "saveDone", "unknown"})
                       => job'[j] = job[j]
  /\ row'[p].status = "FAILED" => row[p].status = "FAILED"
  /\ row'[p].pid = row[p].pid
  /\ row[p].unknown # "no" => row'[p].unknown # "no"
  /\ LiveOwn(p)' \subseteq LiveOwn(p)

\* A payment a step leaves undisturbed stays accounted for.
LEMMA AccountedStays ==
  ASSUME NEW p \in Payments, Accounted(p), Undisturbed(p)
  PROVE  Accounted(p)'
<1>1. ASSUME NEW j \in Jobs, Tries(j, p)' PROVE Tries(j, p) /\ job'[j] = job[j]
  BY <1>1 DEF Undisturbed, Tries
<1>2. \A j, k \in Jobs : Tries(j, p)' /\ Tries(k, p)' => j = k
  BY <1>1 DEF Accounted
<1>3. row'[p].status = "FAILED" => LiveOwn(p)' = {} /\ \A j \in Jobs : ~Tries(j, p)'
  BY <1>1 DEF Accounted, Undisturbed
<1>4. \A j \in Jobs : (job'[j].payment = p /\ job'[j].at \in {"clear", "call"}) => LiveOwn(p)' = {}
  BY <1>1 DEF Accounted, Undisturbed, Tries, AttemptPoints
<1>5. ASSUME NEW r \in LiveOwn(p)' PROVE Known(p, r)'
  <2>1. Known(p, r)
    BY <1>5 DEF Accounted, Undisturbed
  <2>2. QED
    BY <2>1 DEF Known, Undisturbed
<1>6. QED
  BY <1>2, <1>3, <1>4, <1>5 DEF Accounted

\* While the provider does nothing, the live refunds are the same.
LEMMA SameProvSameOwn ==
  ASSUME UNCHANGED prov, NEW p \in Payments
  PROVE  LiveOwn(p)' = LiveOwn(p) /\ (OneLiveRefund => OneLiveRefund')
  BY DEF LiveOwn, OneLiveRefund

\* A job that moves from q to n, neither of which is an attempt for p.
LEMMA JobMoveStays ==
  ASSUME RefundInv, NEW p \in Payments, Accounted(p),
         NEW j \in Jobs, NEW n \in Job, job' = [job EXCEPT ![j] = n],
         job[j].payment # p \/ job[j].at \notin {"save", "saveDone", "unknown"},
         n.payment # p \/ n.at \notin AttemptPoints,
         row'[p].status = "FAILED" => row[p].status = "FAILED",
         row'[p].pid = row[p].pid, row[p].unknown # "no" => row'[p].unknown # "no",
         LiveOwn(p)' \subseteq LiveOwn(p)
  PROVE  Accounted(p)'
<1>1. job'[j] = n /\ \A k \in Jobs \ {j} : job'[k] = job[k]
  BY DEF RefundInv, TypeOK
<1>2. Undisturbed(p)
  BY <1>1 DEF Undisturbed, Tries
<1>3. QED
  BY <1>2, AccountedStays

\* The payments whose refunds are accounted for.
Clean(p) == p \in Payments \ (gaveUp \cup strayed)

\* A payment that is not yet astray after a step was not before it.
LEMMA CleanIsAccounted ==
  ASSUME AttemptInv, NEW p, Clean(p)
  PROVE  p \in Payments /\ Accounted(p)
  BY DEF AttemptInv, Clean

\* No attempt and no refund of the application is there before the row is.
LEMMA NoRowNoAttempt ==
  ASSUME RefundInv, NEW p \in Payments, row[p].status = "NONE"
  PROVE  LiveOwn(p) = {} /\ \A j \in Jobs : ~Tries(j, p)
  BY DEF RefundInv, LiveOwn, Tries, JobBacked

\* A row that is taken for a new attempt has neither attempt nor live refund.
LEMMA ClaimAttempt ==
  ASSUME RefundInv, AttemptInv, NEW j \in Jobs, NEW op \in {"admin", "sched"},
         NEW p \in Payments, Claim(j, op, p), UNCHANGED <<prov, history>>
  PROVE  AttemptInv'
<1>1. OneLiveRefund'
  BY SameProvSameOwn DEF AttemptInv
<1>2. PICK at \in {"clear", "call"} : Begin(j, op, p, at, NoRefund)
  BY DEF Claim
<1>3. PICK n \in Job : /\ job' = [job EXCEPT ![j] = n]
                       /\ n.payment = p /\ n.at = at /\ job[j].at = "idle"
  BY <1>2, BeginMoves
<1>4. PICK rec \in Row : row' = [row EXCEPT ![p] = rec] /\ rec.status = "INITIATED"
  <2>1. CASE row[p].status = "NONE"
    <3>1. [NoRow EXCEPT !.status = "INITIATED"] \in Row
      BY DEF NoRow, Row
    <3>2. QED
      BY <2>1, <3>1, UpdateMoves DEF Claim, NoRow
  <2>2. CASE row[p].status = "FAILED"
    BY <2>2, SetMoves DEF Claim
  <2>3. QED
    BY <2>1, <2>2 DEF Claim
<1>5. /\ job'[j] = n /\ \A k \in Jobs \ {j} : job'[k] = job[k]
      /\ row'[p] = rec /\ \A o \in Payments \ {p} : row'[o] = row[o]
  BY <1>3, <1>4 DEF RefundInv, TypeOK
<1>6. ASSUME NEW o, Clean(o)' PROVE Accounted(o)'
  <2>1. o \in Payments /\ Accounted(o) /\ LiveOwn(o)' = LiveOwn(o)
    BY <1>6, CleanIsAccounted, SameProvSameOwn DEF Clean, history
  <2>2. CASE o # p
    <3>1. row'[o] = row[o]
      BY <1>5, <2>1, <2>2
    <3>2. job[j].at = "idle" /\ n.payment # o
      BY <1>3, <2>2
    <3>3. QED
      BY <1>3, <2>1, <3>1, <3>2, JobMoveStays
  <2>3. CASE o = p
    <3>1. LiveOwn(p) = {} /\ \A k \in Jobs : ~Tries(k, p)
      BY <2>1, <2>3, NoRowNoAttempt DEF Claim, Accounted
    <3>2. \A k \in Jobs : Tries(k, p)' => k = j
      BY <1>5, <3>1 DEF Tries
    <3>3. QED
      BY <1>4, <1>5, <2>1, <2>3, <3>1, <3>2 DEF Accounted
  <2>4. QED
    BY <2>2, <2>3
<1>7. QED
  BY <1>1, <1>6 DEF AttemptInv, Clean

\* Before a retry drops the refund its row knew, that one has failed.
LEMMA ClearPidAttempt ==
  ASSUME RefundInv, AttemptInv, NEW j \in Jobs, ClearPid(j)
  PROVE  AttemptInv'
<1>0. PICK p \in Payments : p = job[j].payment
  BY JobFacts
<1>1. UNCHANGED <<prov, history>> /\ job[j].at = "clear" /\ p \in Payments /\ row[p] \in Row
      /\ job[j].payment = p
  BY <1>0, JobFacts DEF ClearPid, At
<1>2. OneLiveRefund'
  BY <1>1, SameProvSameOwn DEF AttemptInv
<1>3. PICK n \in Job : job' = [job EXCEPT ![j] = n] /\ n.payment = p /\ n.at = "call"
  BY <1>0, GoMoves DEF ClearPid
<1>4. [row[p] EXCEPT !.pid = NoRefund] \in Row
  BY <1>1 DEF Row
<1>5. PICK rec \in Row : row' = [row EXCEPT ![p] = rec] /\ rec.status = row[p].status
  BY <1>0, <1>1, <1>4, UpdateMoves DEF ClearPid, Row
<1>6. /\ job'[j] = n /\ \A k \in Jobs \ {j} : job'[k] = job[k]
      /\ row'[p] = rec /\ \A o \in Payments \ {p} : row'[o] = row[o]
  BY <1>1, <1>3, <1>5 DEF RefundInv, TypeOK
<1>7. ASSUME NEW o, Clean(o)' PROVE Accounted(o)'
  <2>1. o \in Payments /\ Accounted(o) /\ LiveOwn(o)' = LiveOwn(o)
    BY <1>1, <1>7, CleanIsAccounted, SameProvSameOwn DEF Clean, history
  <2>2. CASE o # p
    <3>1. row'[o] = row[o]
      BY <1>6, <2>1, <2>2
    <3>2. job[j].payment # o /\ n.payment # o
      BY <1>1, <1>3, <2>2
    <3>3. QED
      BY <1>3, <2>1, <3>1, <3>2, JobMoveStays
  <2>3. CASE o = p
    <3>1. LiveOwn(p) = {} /\ Tries(j, p) /\ row[p].status # "FAILED"
      BY <1>1, <2>1, <2>3 DEF Accounted, Tries, AttemptPoints
    <3>2. \A k \in Jobs : Tries(k, p)' => k = j
      BY <1>6, <2>1, <2>3, <3>1 DEF Tries, Accounted
    <3>3. QED
      BY <1>5, <1>6, <2>1, <2>3, <3>1, <3>2 DEF Accounted
  <2>4. QED
    BY <2>2, <2>3
<1>8. QED
  BY <1>2, <1>7 DEF AttemptInv, Clean

\* A new refund is the only live one of its payment.
LEMMA NewRefundIsOnlyLive ==
  ASSUME RefundInv, OneLiveRefund, NEW p \in Payments, ~LiveAt(p),
         NEW status \in {"pending", "processed"},
         NEW full \in BOOLEAN, NEW by \in {"app", "dashboard"}, NewRefund(p, status, full, by)
  PROVE  /\ OneLiveRefund'
         /\ \A o \in Payments \ {p} : LiveOwn(o)' = LiveOwn(o)
         /\ LiveOwn(p)' \subseteq (IF by = "app" THEN {Len(prov')} ELSE {})
<1> DEFINE n == [payment |-> p, status |-> status, full |-> full, by |-> by]
<1>1. /\ DOMAIN prov' = DOMAIN prov \cup {Len(prov')} /\ prov'[Len(prov')] = n
      /\ Len(prov') \notin DOMAIN prov /\ \A r \in DOMAIN prov : prov'[r] = prov[r]
  BY NewRefundMoves
<1>2. n.payment = p /\ n.by = by
  OBVIOUS
<1> HIDE DEF n
<1>3. \A r \in DOMAIN prov : prov[r].payment = p => prov[r].status = "failed"
  BY DEF LiveAt
<1>4. OneLiveRefund'
  BY <1>1, <1>2, <1>3 DEF OneLiveRefund
<1>5. \A o \in Payments \ {p} : LiveOwn(o)' = LiveOwn(o)
  BY <1>1, <1>2 DEF LiveOwn
<1>6. LiveOwn(p)' \subseteq (IF by = "app" THEN {Len(prov')} ELSE {})
  BY <1>1, <1>2, <1>3 DEF LiveOwn
<1>7. QED
  BY <1>4, <1>5, <1>6
\* The call to the provider: its refund is the only live one, and the job is the
\* only attempt.
LEMMA CallAttempt ==
  ASSUME RefundInv, AttemptInv, NEW j \in Jobs, ProviderAccepts(j) \/ NoAnswer(j)
  PROVE  AttemptInv'
<1>0. PICK p \in Payments : p = job[j].payment
  BY JobFacts
<1>1. UNCHANGED <<row, history>> /\ job[j].at = "call"
  BY DEF ProviderAccepts, NoAnswer, At
<1>2. PICK n \in Job : /\ job' = [job EXCEPT ![j] = n] /\ n.payment = p
                       /\ \/ n.at = "unknown"
                          \/ n.at \in {"save", "saveDone"} /\ n.pid = Len(prov')
  <2>1. CASE NoAnswer(j)
    BY <1>0, <2>1, GoMoves DEF NoAnswer
  <2>2. CASE ProviderAccepts(j)
    <3>1. PICK at \in {"save", "saveDone"}, status \in {"pending", "processed"} :
            /\ job' = [job EXCEPT ![j].at = at, ![j].pid = Len(prov')]
            /\ NewRefund(p, status, TRUE, "app")
      BY <1>0, <2>2 DEF ProviderAccepts
    <3> DEFINE n == [job[j] EXCEPT !.at = at, !.pid = Len(prov')]
    <3>2. Len(prov') \in RefundIds
      BY <3>1, NewRefundMoves
    <3>3. job' = [job EXCEPT ![j] = n]
      BY <3>1 DEF RefundInv, TypeOK
    <3>4. n \in Job /\ n.at = at /\ n.pid = Len(prov') /\ n.payment = p
      BY <1>0, <3>2, JobFacts DEF Job
    <3>5. QED
      BY <3>3, <3>4
  <2>3. QED
    BY <2>1, <2>2
<1>3. /\ OneLiveRefund'
      /\ \A o \in Payments \ {p} : LiveOwn(o)' = LiveOwn(o)
      /\ LiveOwn(p)' \subseteq LiveOwn(p) \cup {Len(prov')}
  <2>1. CASE UNCHANGED prov
    BY <2>1, SameProvSameOwn DEF AttemptInv
  <2>2. CASE ~UNCHANGED prov
    <3>1. PICK status \in {"pending", "processed"} : NewRefund(p, status, TRUE, "app")
      BY <1>0, <2>2 DEF ProviderAccepts, NoAnswer
    <3>2. ~LiveAt(p)
      BY <1>0, <2>2 DEF ProviderAccepts, NoAnswer
    <3>3. QED
      BY <3>1, <3>2, NewRefundIsOnlyLive DEF AttemptInv
  <2>3. QED
    BY <2>1, <2>2
<1>4. job'[j] = n /\ \A k \in Jobs \ {j} : job'[k] = job[k]
  BY <1>2 DEF RefundInv, TypeOK
<1>5. ASSUME NEW o, Clean(o)' PROVE Accounted(o)'
  <2>1. o \in Payments /\ Accounted(o)
    BY <1>1, <1>5, CleanIsAccounted DEF Clean, history
  <2>2. CASE o # p
    <3>1. job[j].payment # o /\ n.payment # o /\ LiveOwn(o)' = LiveOwn(o) /\ row' = row
      BY <1>0, <1>1, <1>2, <1>3, <2>1, <2>2
    <3>2. QED
      BY <1>2, <2>1, <3>1, JobMoveStays
  <2>3. CASE o = p
    <3>1. LiveOwn(p) = {} /\ Tries(j, p) /\ row'[p].status # "FAILED"
      BY <1>0, <1>1, <2>1, <2>3 DEF Accounted, Tries, AttemptPoints
    <3>2. \A k \in Jobs : Tries(k, p)' => k = j
      BY <1>4, <2>1, <2>3, <3>1 DEF Tries, Accounted
    <3>3. job'[j].at \notin {"clear", "call"}
      BY <1>2, <1>4
    <3>4. \A k \in Jobs : ~(job'[k].payment = p /\ job'[k].at \in {"clear", "call"})
      BY <3>2, <3>3 DEF Tries, AttemptPoints
    <3>5. \A r \in LiveOwn(p)' : Known(p, r)'
      BY <1>2, <1>3, <1>4, <3>1 DEF Known
    <3>6. QED
      BY <2>3, <3>1, <3>2, <3>4, <3>5 DEF Accounted
  <2>4. QED
    BY <2>2, <2>3
<1>6. QED
  BY <1>3, <1>5 DEF AttemptInv, Clean

\* A row that is saved with a refund names the live one of its payment, or the
\* payment has strayed.
LEMMA SaveAttempt ==
  ASSUME RefundInv, AttemptInv, NEW j \in Jobs, SavePid(j) \/ SaveListed(j) \/ RecoverSave(j)
  PROVE  AttemptInv'
<1>0. PICK p \in Payments, r \in RefundIds :
        p = job[j].payment /\ r = job[j].pid /\ r \in DOMAIN prov
  BY JobFacts DEF SavePid, SaveListed, RecoverSave, At, JobBacked
<1>1. UNCHANGED <<prov, gaveUp>> /\ job[j].at \in {"save", "saveDone", "listed", "recoverSave"}
  BY DEF SavePid, SaveListed, RecoverSave, At
<1>2. row[p] \in Row
  BY <1>0, JobFacts
<1>3. PICK rec \in Row : /\ SaveRefund(p, r, rec) /\ rec.status = row[p].status
                         /\ \/ rec.unknown = row[p].unknown
                            \/ rec.unknown = "no" /\ job[j].at = "listed"
  <2>1. CASE SavePid(j) \/ RecoverSave(j)
    BY <1>0, <1>2, <2>1 DEF SavePid, RecoverSave
  <2>2. CASE SaveListed(j)
    <3> DEFINE n == [row[p] EXCEPT !.unknown = "no"]
    <3>1. n \in Row /\ n.status = row[p].status /\ n.unknown = "no"
      BY <1>2 DEF Row
    <3>2. SaveRefund(p, r, n) /\ job[j].at = "listed"
      BY <1>0, <2>2 DEF SaveListed, At
    <3>3. QED
      BY <3>1, <3>2
  <2>3. QED
    BY <2>1, <2>2
<1>4. PICK new \in Row : /\ row' = [row EXCEPT ![p] = new]
                         /\ new.status = rec.status /\ new.pid = r /\ new.unknown = rec.unknown
  BY <1>3, SaveRefundMoves
<1>5. /\ row'[p] = new /\ \A o \in Payments \ {p} : row'[o] = row[o]
      /\ strayed \subseteq strayed'
      /\ p \notin strayed' =>
           /\ row[p].status # "FAILED"
           /\ row[p].pid \in {NoRefund, r} \/ prov[row[p].pid].status = "failed"
  <2>1. strayed \subseteq strayed'
    BY <1>3, SaveRefundMoves
  <2>2. p \notin strayed' =>
           /\ row[p].status # "FAILED"
           /\ row[p].pid \in {NoRefund, r} \/ prov[row[p].pid].status = "failed"
    BY <1>3 DEF SaveRefund
  <2>3. QED
    BY <1>4, <2>1, <2>2 DEF RefundInv, TypeOK
<1>6. PICK n \in Job : /\ job' = [job EXCEPT ![j] = n] /\ n.at \notin AttemptPoints
  <2>1. CASE End(j)
    BY <2>1, IdleIsBacked DEF End, Idle, AttemptPoints
  <2>2. CASE Go(j, "settle")
    BY <2>2, GoMoves DEF AttemptPoints
  <2>3. CASE RecoverSave(j)
    <3> DEFINE at == IF prov[r].status = "failed" THEN "failRead" ELSE "settle"
               m == [job[j] EXCEPT !.missing = "end", !.at = at]
    <3>1. job' = [job EXCEPT ![j] = m]
      BY <1>0, <2>3 DEF RecoverSave, RefundInv, TypeOK
    <3>2. m \in Job /\ m.at \in {"failRead", "settle"}
      BY JobFacts DEF Job
    <3>3. QED
      BY <3>1, <3>2 DEF AttemptPoints
  <2>4. QED
    BY <2>1, <2>2, <2>3 DEF SavePid, SaveListed
<1>7. job'[j] = n /\ \A k \in Jobs \ {j} : job'[k] = job[k]
  BY <1>6 DEF RefundInv, TypeOK
<1>8. ASSUME NEW o, Clean(o)' PROVE Accounted(o)'
  <2>1. o \in Payments /\ Accounted(o) /\ LiveOwn(o)' = LiveOwn(o)
    BY <1>1, <1>5, <1>8, CleanIsAccounted, SameProvSameOwn DEF Clean
  <2>2. CASE o # p
    <3>1. row'[o] = row[o] /\ job[j].payment # o
      BY <1>0, <1>5, <2>1, <2>2
    <3>2. QED
      BY <1>6, <2>1, <3>1, JobMoveStays
  <2>3. CASE o = p
    <3>1. /\ row[p].status # "FAILED"
          /\ row[p].pid \in {NoRefund, r} \/ prov[row[p].pid].status = "failed"
      BY <1>5, <1>8, <2>3 DEF Clean
    <3>2. \A k \in Jobs : Tries(k, p)' => Tries(k, p) /\ k # j
      BY <1>6, <1>7 DEF Tries
    <3>3. ASSUME NEW s \in LiveOwn(p) PROVE Known(p, s)'
      <4>1. s \in DOMAIN prov /\ prov[s].status # "failed" /\ prov[s].payment = p /\ Known(p, s)
            /\ s # NoRefund
        BY <2>1, <2>3, <3>3, RefundNumbers DEF LiveOwn, Accounted, RefundInv
      <4>2. CASE s = r
        BY <1>4, <1>5, <4>2 DEF Known
      <4>3. CASE s # r
        <5>1. row[p].pid # s
          BY <3>1, <4>1, <4>3
        <5>2. CASE row[p].unknown # "no"
          <6>1. job[j].at # "listed"
            <7>1. job[j].at = "listed" =>
                    prov[r].status = "processed" /\ prov[r].payment = p
              BY <1>0, JobFacts DEF JobBacked
            <7>2. QED
              BY <1>0, <4>1, <4>3, <7>1 DEF AttemptInv, OneLiveRefund
          <6>2. QED
            BY <1>3, <1>4, <1>5, <5>2, <6>1 DEF Known
        <5>3. CASE \E k \in Jobs : /\ job[k].payment = p
                                   /\ \/ job[k].at = "unknown"
                                      \/ job[k].at \in {"save", "saveDone"} /\ job[k].pid = s
          <6>1. PICK k \in Jobs : /\ job[k].payment = p
                                  /\ \/ job[k].at = "unknown"
                                     \/ job[k].at \in {"save", "saveDone"} /\ job[k].pid = s
            BY <5>3
          <6>2. k # j
            BY <1>0, <1>1, <4>3, <6>1
          <6>3. QED
            BY <1>7, <6>1, <6>2 DEF Known
        <5>4. QED
          BY <4>1, <5>1, <5>2, <5>3 DEF Known
      <4>4. QED
        BY <4>2, <4>3
    <3>4. row'[p].status # "FAILED"
      BY <1>3, <1>4, <1>5, <3>1
    <3>5. \A k \in Jobs : (job'[k].payment = p /\ job'[k].at \in {"clear", "call"})
                            => job'[k] = job[k]
      BY <3>2, <1>7 DEF Tries, AttemptPoints
    <3>6. QED
      BY <2>1, <2>3, <3>2, <3>3, <3>4, <3>5 DEF Accounted
  <2>4. QED
    BY <2>2, <2>3
<1>9. QED
  BY <1>1, <1>8, SameProvSameOwn DEF AttemptInv, Clean
\* A job that ends with its row: FAILED only when nothing of the payment lives,
\* with the outcome noted as unknown, or with the payment given up or astray.
LEMMA EndAttempt ==
  ASSUME RefundInv, AttemptInv, NEW j \in Jobs,
         SaveUnknown(j) \/ SaveRejected(j) \/ FailClaim(j) \/ GiveUp(j)
  PROVE  AttemptInv'
<1>0. PICK p \in Payments : p = job[j].payment
  BY JobFacts
<1>1. /\ UNCHANGED prov /\ job' = [job EXCEPT ![j] = Idle]
      /\ job[j].at \in {"unknown", "reject", "failClaim", "giveUp"}
      /\ ((job[j].at = "unknown") <=> SaveUnknown(j))
  BY DEF SaveUnknown, SaveRejected, FailClaim, GiveUp, End, At
<1>2. row[p] \in Row /\ gaveUp \subseteq gaveUp' /\ strayed \subseteq strayed'
  BY <1>0, JobFacts DEF SaveUnknown, SaveRejected, FailClaim, GiveUp, history
<1>3. PICK rec \in Row : /\ row' = [row EXCEPT ![p] = rec] /\ rec.pid = row[p].pid
                         /\ (row[p].unknown # "no" => rec.unknown # "no")
                         /\ (SaveUnknown(j) => rec.status = row[p].status)
                         /\ (SaveUnknown(j) => rec.unknown # "no")
                         /\ (rec.status # row[p].status =>
                              row[p].status = "INITIATED" /\ rec.status = "FAILED")
  <2>1. CASE SaveUnknown(j)
    <3>1. [row[p] EXCEPT !.unknown = "recent"] \in Row
      BY <1>2 DEF Row
    <3>2. QED
      BY <1>0, <1>2, <2>1, <3>1, UpdateMoves DEF SaveUnknown, Row
  <2>2. CASE FailInitiated(p) /\ ~SaveUnknown(j)
    BY <1>2, <2>2, FailInitiatedMoves
  <2>3. QED
    BY <1>0, <1>1, <2>1, <2>2 DEF SaveRejected, FailClaim, GiveUp
<1>4. /\ job'[j].at = "idle" /\ \A k \in Jobs \ {j} : job'[k] = job[k]
      /\ row'[p] = rec /\ \A o \in Payments \ {p} : row'[o] = row[o]
  BY <1>1, <1>3 DEF RefundInv, TypeOK, Idle
<1>5. \A k \in Jobs : Tries(k, p)' => Tries(k, p) /\ k # j
  BY <1>4 DEF Tries, AttemptPoints
<1>6. ASSUME NEW o, Clean(o)' PROVE Accounted(o)'
  <2>1. o \in Payments /\ Accounted(o) /\ LiveOwn(o)' = LiveOwn(o)
    BY <1>1, <1>2, <1>6, CleanIsAccounted, SameProvSameOwn DEF Clean
  <2>2. CASE o # p
    <3>1. row'[o] = row[o] /\ job[j].payment # o /\ Idle.at \notin AttemptPoints
      BY <1>0, <1>4, <2>1, <2>2 DEF Idle, AttemptPoints
    <3>2. QED
      BY <1>1, <2>1, <3>1, IdleIsBacked, JobMoveStays
  <2>3. CASE o = p /\ SaveUnknown(j)
    <3>1. row[p].status # "FAILED"
      BY <1>0, <1>1, <2>1, <2>3 DEF Accounted, Tries, AttemptPoints
    <3>2. \A s \in LiveOwn(p) : Known(p, s)'
      BY <1>3, <1>4, <2>3 DEF Known
    <3>3. \A k \in Jobs : (job'[k].payment = p /\ job'[k].at \in {"clear", "call"})
                            => job'[k] = job[k]
      BY <1>4, <1>5 DEF Tries, AttemptPoints
    <3>4. QED
      BY <1>3, <1>4, <1>5, <2>1, <2>3, <3>1, <3>2, <3>3 DEF Accounted
  <2>4. CASE o = p /\ row'[p].status # "FAILED" /\ ~SaveUnknown(j)
    <3>1. job[j].at # "unknown" /\ Idle.at \notin AttemptPoints
      BY <1>1, <2>4 DEF Idle, AttemptPoints
    <3>2. job[j].at \notin {"save", "saveDone", "unknown"}
      BY <1>1, <3>1
    <3>3. QED
      BY <1>1, <1>3, <1>4, <2>1, <2>4, <3>1, <3>2, IdleIsBacked, JobMoveStays
  <2>5. CASE o = p /\ row'[p].status = "FAILED" /\ row[p].status = "FAILED" /\ ~SaveUnknown(j)
    <3>1. job[j].at # "unknown" /\ Idle.at \notin AttemptPoints
      BY <1>1, <2>5 DEF Idle, AttemptPoints
    <3>2. job[j].at \notin {"save", "saveDone", "unknown"}
      BY <1>1, <3>1
    <3>3. QED
      BY <1>1, <1>3, <1>4, <2>1, <2>5, <3>1, <3>2, IdleIsBacked, JobMoveStays
  <2>6. CASE o = p /\ row'[p].status = "FAILED" /\ row[p].status # "FAILED" /\ ~SaveUnknown(j)
    <3>1. row[p].status = "INITIATED"
      BY <1>3, <1>4, <2>6
    <3>2. LiveOwn(p) = {} /\ \A k \in Jobs : ~Tries(k, p)
      <4>1. CASE SaveRejected(j)
        <5>1. ~LiveAt(p) /\ ~Attempting(p)
          BY <1>0, <1>6, <2>6, <4>1 DEF SaveRejected, Clean
        <5>2. QED
          BY <5>1 DEF LiveAt, Attempting, LiveOwn, Tries, AttemptPoints
      <4>2. CASE FailClaim(j)
        <5>1. /\ row[p].pid = job[j].pid /\ row[p].unknown = "no" /\ ~Attempting(p)
              /\ prov[job[j].pid].status = "failed"
          BY <1>0, <1>6, <2>6, <3>1, <4>2, JobFacts DEF FailClaim, Clean, At, JobBacked
        <5>2. \A k \in Jobs : ~Tries(k, p)
          BY <5>1 DEF Attempting, Tries, AttemptPoints
        <5>3. \A s \in LiveOwn(p) : ~Known(p, s)
          BY <5>1, <5>2 DEF Known, LiveOwn, Tries, AttemptPoints
        <5>4. QED
          BY <2>1, <2>6, <5>2, <5>3 DEF Accounted
      <4>3. CASE GiveUp(j)
        BY <1>0, <1>6, <2>6, <4>3 DEF GiveUp, Clean
      <4>4. QED
        BY <2>6, <4>1, <4>2, <4>3
    <3>3. \A k \in Jobs : ~Tries(k, p)'
      BY <1>5, <3>2
    <3>4. QED
      BY <2>1, <2>6, <3>2, <3>3 DEF Accounted, Tries, AttemptPoints
  <2>7. QED
    BY <2>2, <2>3, <2>4, <2>5, <2>6
<1>7. QED
  BY <1>1, <1>6, SameProvSameOwn DEF AttemptInv, Clean

\* The steps that move a job that is no attempt, or is refused by the provider,
\* and leave every row that can have an attempt as it is or better.
LEMMA OtherJobAttempt ==
  ASSUME RefundInv, AttemptInv, NEW j \in Jobs, UNCHANGED <<prov, history>>,
         NEW n \in Job, job' = [job EXCEPT ![j] = n], n.at \notin AttemptPoints,
         job[j].at \notin {"save", "saveDone", "unknown"},
         NEW p \in Payments, NEW rec \in Row, row' = [row EXCEPT ![p] = rec],
         rec = row[p] \/ rec.status # "FAILED",
         \/ rec.pid = row[p].pid /\ rec.unknown = row[p].unknown
         \/ row[p].status = "NONE"
  PROVE  AttemptInv'
<1>1. row'[p] = rec /\ \A o \in Payments \ {p} : row'[o] = row[o]
  BY DEF RefundInv, TypeOK
<1>2. job'[j] = n /\ \A k \in Jobs \ {j} : job'[k] = job[k]
  BY DEF RefundInv, TypeOK
<1>3. ASSUME NEW o, Clean(o)' PROVE Accounted(o)'
  <2>1. o \in Payments /\ Accounted(o) /\ LiveOwn(o)' = LiveOwn(o)
    BY <1>3, CleanIsAccounted, SameProvSameOwn DEF Clean, history
  <2>2. CASE o # p \/ row[p].status # "NONE"
    <3>1. /\ row'[o].pid = row[o].pid /\ row'[o].unknown = row[o].unknown
          /\ row'[o].status = "FAILED" => row[o].status = "FAILED"
      BY <1>1, <2>1, <2>2
    <3>2. QED
      BY <2>1, <3>1, JobMoveStays
  <2>3. CASE o = p /\ row[p].status = "NONE"
    <3>1. LiveOwn(p) = {} /\ \A k \in Jobs : ~Tries(k, p)
      BY <2>3, NoRowNoAttempt
    <3>2. \A k \in Jobs : ~Tries(k, p)'
      BY <1>2, <3>1 DEF Tries
    <3>3. row'[p].status # "FAILED"
      BY <1>1, <2>3
    <3>4. QED
      BY <2>1, <2>3, <3>1, <3>2, <3>3 DEF Accounted, Tries, AttemptPoints
  <2>4. QED
    BY <2>2, <2>3
<1>4. QED
  BY <1>3, SameProvSameOwn DEF AttemptInv, Clean

\* A row that stays as it is, for OtherJobAttempt.
LEMMA SameRow ==
  ASSUME RefundInv, UNCHANGED row
  PROVE  /\ Primary \in Payments /\ row[Primary] \in Row
         /\ row' = [row EXCEPT ![Primary] = row[Primary]]
  BY ConstantTypes DEF RefundInv, TypeOK

\* The steps that write no row begin and end no attempt.
LEMMA QuietAttempt ==
  ASSUME RefundInv, AttemptInv, NEW j \in Jobs,
         \/ ProviderRejects(j) \/ SettleRead(j) \/ FailRead(j) \/ FetchRefundStatus(j)
         \/ ListRefunds(j) \/ RevokeEntitlements(j) \/ MarkOrderRefunded(j)
  PROVE  AttemptInv'
<1>1. /\ UNCHANGED <<row, prov, history>>
      /\ job[j].at \notin {"save", "saveDone", "unknown"}
  BY DEF ProviderRejects, SettleRead, FailRead, FetchRefundStatus, ListRefunds,
         RevokeEntitlements, MarkOrderRefunded, At
<1>2. PICK n \in Job : job' = [job EXCEPT ![j] = n] /\ n.at \notin AttemptPoints
  <2>1. CASE End(j)
    BY <2>1, IdleIsBacked DEF End, Idle, AttemptPoints
  <2>2. ASSUME NEW at \in {"reject", "settle", "failRead", "giveUp", "recover", "mark"}, Go(j, at)
        PROVE  \E n \in Job : job' = [job EXCEPT ![j] = n] /\ n.at \notin AttemptPoints
    BY <2>2, GoMoves DEF AttemptPoints
  <2>3. ASSUME NEW at \in {"claim", "failClaim"}, NEW p \in Payments,
               job' = [job EXCEPT ![j].at = at, ![j].payment = p]
        PROVE  \E n \in Job : job' = [job EXCEPT ![j] = n] /\ n.at \notin AttemptPoints
    <3> DEFINE n == [job[j] EXCEPT !.at = at, !.payment = p]
    <3>1. n \in Job /\ n.at = at
      BY JobFacts DEF Job
    <3>2. job' = [job EXCEPT ![j] = n]
      BY <2>3 DEF RefundInv, TypeOK
    <3>3. QED
      BY <3>1, <3>2 DEF AttemptPoints
  <2>4. ASSUME NEW r \in DOMAIN prov, job' = [job EXCEPT ![j].at = "listed", ![j].pid = r]
        PROVE  \E n \in Job : job' = [job EXCEPT ![j] = n] /\ n.at \notin AttemptPoints
    <3> DEFINE n == [job[j] EXCEPT !.at = "listed", !.pid = r]
    <3>1. n \in Job /\ n.at = "listed"
      BY JobFacts DEF Job
    <3>2. job' = [job EXCEPT ![j] = n]
      BY <2>4 DEF RefundInv, TypeOK
    <3>3. QED
      BY <3>1, <3>2 DEF AttemptPoints
  <2>5. CASE Missing(j)
    BY <2>1, <2>2, <2>5, JobFacts DEF Missing, GoOrEnd, Job
  <2>6. CASE ProviderRejects(j) \/ RevokeEntitlements(j) \/ MarkOrderRefunded(j)
    BY <2>1, <2>2, <2>6 DEF ProviderRejects, RevokeEntitlements, MarkOrderRefunded
  <2>7. CASE SettleRead(j)
    BY <2>1, <2>3, <2>5, <2>7 DEF SettleRead, Holding
  <2>8. CASE FailRead(j)
    BY <2>1, <2>3, <2>5, <2>8 DEF FailRead, Holding
  <2>9. CASE FetchRefundStatus(j)
    BY <2>1, <2>2, <2>9 DEF FetchRefundStatus
  <2>10. CASE ListRefunds(j)
    BY <2>1, <2>2, <2>4, <2>10 DEF ListRefunds
  <2>11. QED
    BY <2>6, <2>7, <2>8, <2>9, <2>10
<1>3. QED
  BY <1>1, <1>2, SameRow, OtherJobAttempt

\* A row that is COMPLETED is not FAILED.
LEMMA SettleClaimAttempt ==
  ASSUME RefundInv, AttemptInv, NEW j \in Jobs, SettleClaim(j)
  PROVE  AttemptInv'
<1>0. PICK p \in Payments : p = job[j].payment
  BY JobFacts
<1>1. UNCHANGED <<prov, history>> /\ job[j].at = "claim"
  BY DEF SettleClaim, At
<1>2. PICK n \in Job : job' = [job EXCEPT ![j] = n] /\ n.at \notin AttemptPoints
  <2>1. CASE End(j)
    BY <2>1, IdleIsBacked DEF End, Idle, AttemptPoints
  <2>2. ASSUME NEW at \in {"revoke", "recover"}, Go(j, at)
        PROVE  \E n \in Job : job' = [job EXCEPT ![j] = n] /\ n.at \notin AttemptPoints
    BY <2>2, GoMoves DEF AttemptPoints
  <2>3. CASE Missing(j)
    BY <2>1, <2>2, <2>3, JobFacts DEF Missing, GoOrEnd, Job
  <2>4. QED
    BY <2>1, <2>2, <2>3 DEF SettleClaim
<1>3. CASE UNCHANGED row
  BY <1>1, <1>2, <1>3, SameRow, OtherJobAttempt
<1>4. CASE ~UNCHANGED row
  <2>1. PICK rec \in Row : /\ row' = [row EXCEPT ![p] = rec] /\ rec.status = "COMPLETED"
                           /\ rec.pid = row[p].pid /\ rec.unknown = row[p].unknown
    BY <1>0, <1>4, SetMoves DEF SettleClaim
  <2>2. QED
    BY <1>1, <1>2, <2>1, OtherJobAttempt
<1>5. QED
  BY <1>3, <1>4
\* A refund no row knows begins no attempt: its row is new, or stays as it is.
LEMMA RecoverAttempt ==
  ASSUME RefundInv, AttemptInv, NEW j \in Jobs, Recover(j)
  PROVE  AttemptInv'
<1>0. PICK r \in DOMAIN prov : r = job[j].pid
  BY JobFacts DEF Recover, At, JobBacked
<1>1. /\ UNCHANGED <<prov, history>> /\ job[j].at = "recover" /\ r \in RefundIds
      /\ prov[r] \in ProviderRefund /\ prov[r].status # "pending"
  BY <1>0, JobFacts, RefundNumbers DEF Recover, At, JobBacked, RefundInv
<1>2. PICK p \in Payments : p = prov[r].payment
  BY <1>1 DEF ProviderRefund
<1>3. PICK n \in Job : job' = [job EXCEPT ![j] = n] /\ n.at \notin AttemptPoints
  <2>1. CASE End(j)
    BY <2>1, IdleIsBacked DEF End, Idle, AttemptPoints
  <2>2. ASSUME NEW at \in {"settle", "failRead"},
               job' = [job EXCEPT ![j].payment = p, ![j].missing = "end", ![j].at = at]
        PROVE  \E n \in Job : job' = [job EXCEPT ![j] = n] /\ n.at \notin AttemptPoints
    <3> DEFINE n == [job[j] EXCEPT !.payment = p, !.missing = "end", !.at = at]
    <3>1. n \in Job /\ n.at = at
      BY JobFacts DEF Job
    <3>2. job' = [job EXCEPT ![j] = n]
      BY <2>2 DEF RefundInv, TypeOK
    <3>3. QED
      BY <3>1, <3>2 DEF AttemptPoints
  <2>3. CASE job' = [job EXCEPT ![j].payment = p, ![j].at = "recoverSave"]
    <3> DEFINE n == [job[j] EXCEPT !.payment = p, !.at = "recoverSave"]
    <3>1. n \in Job /\ n.at = "recoverSave"
      BY JobFacts DEF Job
    <3>2. job' = [job EXCEPT ![j] = n]
      BY <2>3 DEF RefundInv, TypeOK
    <3>3. QED
      BY <3>1, <3>2 DEF AttemptPoints
  <2>4. \/ End(j)
        \/ job' = [job EXCEPT ![j].payment = p, ![j].at = "recoverSave"]
        \/ \E at \in {"settle", "failRead"} :
             job' = [job EXCEPT ![j].payment = p, ![j].missing = "end", ![j].at = at]
    BY <1>0, <1>2 DEF Recover
  <2>5. QED
    BY <2>1, <2>2, <2>3, <2>4
<1>4. CASE UNCHANGED row
  BY <1>1, <1>3, <1>4, SameRow, OtherJobAttempt
<1>5. CASE ~UNCHANGED row
  <2>1. row[p].status = "NONE"
    BY <1>0, <1>2, <1>5 DEF Recover
  <2>2. \/ Update(p, [NoRow EXCEPT !.status = "COMPLETED", !.pid = r, !.partial = TRUE])
        \/ Update(p, [NoRow EXCEPT !.status = "INITIATED", !.pid = r])
    BY <1>0, <1>2, <1>5 DEF Recover
  <2>3. /\ [NoRow EXCEPT !.status = "COMPLETED", !.pid = r, !.partial = TRUE] \in Row
        /\ [NoRow EXCEPT !.status = "INITIATED", !.pid = r] \in Row
    BY <1>1 DEF NoRow, Row
  <2>4. PICK rec \in Row : row' = [row EXCEPT ![p] = rec] /\ rec.status # "FAILED"
    <3>1. /\ [NoRow EXCEPT !.status = "COMPLETED", !.pid = r, !.partial = TRUE].status # "FAILED"
          /\ [NoRow EXCEPT !.status = "INITIATED", !.pid = r].status # "FAILED"
      BY DEF NoRow
    <3>2. ASSUME NEW new \in Row, Update(p, new), new.status # "FAILED"
          PROVE  \E rec \in Row : row' = [row EXCEPT ![p] = rec] /\ rec.status # "FAILED"
      BY <3>2, UpdateMoves
    <3>3. QED
      BY <2>2, <2>3, <3>1, <3>2
  <2>5. QED
    BY <1>1, <1>3, <2>1, <2>4, OtherJobAttempt
<1>6. QED
  BY <1>4, <1>5

\* A pass or a delivery that starts has made no attempt.
LEMMA StartAttempt ==
  ASSUME RefundInv, AttemptInv, NEW j \in Jobs,
         \/ \E p \in Payments : SchedKnown(j, p) \/ SchedUnknown(j, p)
         \/ \E r \in DOMAIN prov : Deliver(j, r)
  PROVE  AttemptInv'
<1>1. UNCHANGED <<row, prov, history>>
  BY DEF SchedKnown, SchedUnknown, Deliver
<1>2. PICK n \in Job : /\ job' = [job EXCEPT ![j] = n] /\ job[j].at = "idle"
                       /\ n.at \notin AttemptPoints
  <2>1. ASSUME NEW op \in {"sched", "hook"}, NEW p \in Payments,
               NEW at \in {"settle", "failRead", "fetch", "list", "listDue"},
               NEW pid \in {NoRefund} \cup RefundIds, Begin(j, op, p, at, pid)
        PROVE  \E n \in Job : /\ job' = [job EXCEPT ![j] = n] /\ job[j].at = "idle"
                              /\ n.at \notin AttemptPoints
    BY <2>1, BeginMoves DEF AttemptPoints
  <2>2. ASSUME NEW p \in Payments, SchedKnown(j, p) \/ SchedUnknown(j, p)
        PROVE  \E n \in Job : /\ job' = [job EXCEPT ![j] = n] /\ job[j].at = "idle"
                              /\ n.at \notin AttemptPoints
    <3>1. row[p].pid \in {NoRefund} \cup RefundIds
      BY DEF RefundInv, TypeOK, Row
    <3>2. QED
      BY <2>1, <2>2, <3>1 DEF SchedKnown, SchedUnknown
  <2>3. ASSUME NEW r \in DOMAIN prov, Deliver(j, r)
        PROVE  \E n \in Job : /\ job' = [job EXCEPT ![j] = n] /\ job[j].at = "idle"
                              /\ n.at \notin AttemptPoints
    <3>1. prov[r].payment \in Payments /\ r \in RefundIds
      BY JobFacts, RefundNumbers DEF RefundInv, ProviderRefund
    <3>2. QED
      BY <2>1, <2>3, <3>1 DEF Deliver
  <2>4. QED
    BY <2>2, <2>3
<1>3. QED
  BY <1>1, <1>2, SameRow, OtherJobAttempt

\* A job that is lost within an attempt leads its payment astray.
LEMMA LoseAttempt ==
  ASSUME RefundInv, AttemptInv, NEW j \in Jobs, Lose(j)
  PROVE  AttemptInv'
<1>1. /\ UNCHANGED <<row, prov, gaveUp>> /\ job' = [job EXCEPT ![j] = Idle]
      /\ strayed \subseteq strayed'
      /\ (job[j].at \in AttemptPoints => job[j].payment \in strayed')
  BY DEF Lose, End, AttemptPoints
<1>2. OneLiveRefund'
  BY <1>1, ConstantTypes, SameProvSameOwn DEF AttemptInv
<1>3. ASSUME NEW o, Clean(o)' PROVE Accounted(o)'
  <2>1. o \in Payments /\ Accounted(o) /\ LiveOwn(o)' = LiveOwn(o)
    BY <1>1, <1>3, CleanIsAccounted, SameProvSameOwn DEF Clean
  <2>2. job[j].payment # o \/ job[j].at \notin {"save", "saveDone", "unknown"}
    BY <1>1, <1>3 DEF Clean, AttemptPoints
  <2>3. Idle \in Job /\ Idle.at \notin AttemptPoints
    BY IdleIsBacked DEF Idle, AttemptPoints
  <2>4. QED
    BY <1>1, <2>1, <2>2, <2>3, JobMoveStays
<1>4. QED
  BY <1>2, <1>3 DEF AttemptInv, Clean

\* The provider's own steps and the passing of time leave every payment
\* accounted for: a refund that fails is one less, one of the dashboard is no
\* attempt.
LEMMA QuietPayments ==
  ASSUME AttemptInv, UNCHANGED <<job, history>>, OneLiveRefund',
         \A p \in Payments :
           /\ row'[p].status = row[p].status /\ row'[p].pid = row[p].pid
           /\ (row[p].unknown # "no" => row'[p].unknown # "no")
           /\ LiveOwn(p)' \subseteq LiveOwn(p)
  PROVE  AttemptInv'
<1>1. ASSUME NEW o, Clean(o)' PROVE Accounted(o)'
  <2>1. o \in Payments /\ Accounted(o)
    BY <1>1, CleanIsAccounted DEF Clean, history
  <2>2. Undisturbed(o)
    BY <2>1 DEF Undisturbed
  <2>3. QED
    BY <2>1, <2>2, AccountedStays
<1>2. QED
  BY <1>1 DEF AttemptInv, Clean

\* The provider's steps and the passing of time, one by one.
LEMMA WorldAttempt ==
  ASSUME RefundInv, AttemptInv,
         \/ \E r \in DOMAIN prov : ProviderFinishes(r)
         \/ \E p \in Payments : DashboardRefund(p) \/ Age(p)
  PROVE  AttemptInv'
<1>1. UNCHANGED <<job, history>>
  BY DEF ProviderFinishes, DashboardRefund, Age
<1>2. ASSUME NEW r \in DOMAIN prov, ProviderFinishes(r) PROVE AttemptInv'
  <2>1. UNCHANGED row
    BY <1>2 DEF ProviderFinishes
  <2>2. /\ DOMAIN prov' = DOMAIN prov /\ prov[r].status # "failed"
        /\ \A s \in DOMAIN prov : /\ prov'[s].payment = prov[s].payment
                                  /\ prov'[s].by = prov[s].by
        /\ \A s \in DOMAIN prov : prov[s].status = "failed" => prov'[s].status = "failed"
    BY <1>2, ProviderFinishesMoves DEF ProvStable
  <2>3. OneLiveRefund'
    BY <2>2 DEF AttemptInv, OneLiveRefund
  <2>4. \A p \in Payments : LiveOwn(p)' \subseteq LiveOwn(p)
    BY <2>2 DEF LiveOwn
  <2>5. QED
    BY <1>1, <2>1, <2>3, <2>4, QuietPayments
<1>3. ASSUME NEW p \in Payments, DashboardRefund(p) PROVE AttemptInv'
  <2>1. UNCHANGED row
    BY <1>3 DEF DashboardRefund
  <2>2. PICK full \in BOOLEAN : ~LiveAt(p) /\ NewRefund(p, "pending", full, "dashboard")
    BY <1>3 DEF DashboardRefund
  <2>3. /\ OneLiveRefund'
        /\ \A o \in Payments \ {p} : LiveOwn(o)' = LiveOwn(o)
        /\ LiveOwn(p)' \subseteq {}
    BY <2>2, NewRefundIsOnlyLive DEF AttemptInv
  <2>4. \A o \in Payments : LiveOwn(o)' \subseteq LiveOwn(o)
    BY <2>3
  <2>5. QED
    BY <1>1, <2>1, <2>3, <2>4, QuietPayments
<1>4. ASSUME NEW p \in Payments, Age(p) PROVE AttemptInv'
  <2>1. /\ UNCHANGED prov /\ row \in [Payments -> Row]
        /\ \/ row' = [row EXCEPT ![p].fresh = FALSE]
           \/ row' = [row EXCEPT ![p].unknown = "old"]
    BY <1>4 DEF Age, RefundInv, TypeOK
  <2>2. ASSUME NEW o \in Payments
        PROVE  /\ row'[o].status = row[o].status /\ row'[o].pid = row[o].pid
               /\ (row[o].unknown # "no" => row'[o].unknown # "no")
    <3>1. row[o] \in Row
      BY <2>1
    <3>2. CASE row' = [row EXCEPT ![p].fresh = FALSE]
      BY <2>1, <3>1, <3>2 DEF Row
    <3>3. CASE row' = [row EXCEPT ![p].unknown = "old"]
      BY <2>1, <3>1, <3>3 DEF Row
    <3>4. QED
      BY <2>1, <3>2, <3>3
  <2>3. OneLiveRefund' /\ \A o \in Payments : LiveOwn(o)' \subseteq LiveOwn(o)
    BY <2>1, SameProvSameOwn DEF AttemptInv
  <2>4. QED
    BY <1>1, <2>2, <2>3, QuietPayments
<1>5. QED
  BY <1>2, <1>3, <1>4
-----------------------------------------------------------------------------
\* Together.
IInv == RefundInv /\ AttemptInv

\* A job's own step keeps both.
LEMMA StepKeeps ==
  ASSUME IInv, NEW j \in Jobs, Step(j)
  PROVE  IInv'
<1>1. CASE ClearPid(j)
  BY <1>1, ClearPidStep, ClearPidAttempt DEF IInv
<1>2. CASE ProviderAccepts(j) \/ NoAnswer(j)
  BY <1>2, ProviderAcceptsStep, NoAnswerStep, CallAttempt DEF IInv
<1>3. CASE SavePid(j) \/ SaveListed(j) \/ RecoverSave(j)
  BY <1>3, SaveStep, SaveAttempt DEF IInv
<1>4. CASE SaveUnknown(j) \/ SaveRejected(j) \/ FailClaim(j) \/ GiveUp(j)
  BY <1>4, EndStep, EndAttempt DEF IInv
<1>5. CASE \/ ProviderRejects(j) \/ SettleRead(j) \/ FailRead(j) \/ FetchRefundStatus(j)
           \/ ListRefunds(j)
  BY <1>5, QuietStep, QuietAttempt DEF IInv
<1>6. CASE RevokeEntitlements(j) \/ MarkOrderRefunded(j)
  BY <1>6, RevokeStep, QuietAttempt DEF IInv
<1>7. CASE SettleClaim(j)
  BY <1>7, SettleClaimStep, SettleClaimAttempt DEF IInv
<1>8. CASE Recover(j)
  BY <1>8, RecoverStep, RecoverAttempt DEF IInv
<1>9. QED
  BY <1>1, <1>2, <1>3, <1>4, <1>5, <1>6, <1>7, <1>8 DEF Step

\* At the start nothing is refunded and every job is idle.
LEMMA InitInv == Init => IInv
<1> SUFFICES ASSUME Init PROVE IInv
  OBVIOUS
<1>1. NoRow \in Row /\ Idle \in Job
  BY ConstantTypes DEF NoRow, Row, Idle, Job, NoRefund
<1>2. prov \in Seq(ProviderRefund) /\ Len(prov) = 0 /\ DOMAIN prov = {}
  BY DEF Init
<1>3. TypeOK
  <2>1. row \in [Payments -> Row] /\ job \in [Jobs -> Job]
    BY <1>1 DEF Init
  <2>2. \A j \in Jobs : job[j].at = "idle"
    BY DEF Init, Idle
  <2>3. Len(prov) \in 0..MaxRefunds /\ delivered \in 0..MaxDeliveries
        /\ faults \in 0..MaxFaults /\ retries \in 0..MaxRetries
    BY <1>2, ConstantTypes DEF Init
  <2>4. order \in {"PAID", "REFUNDED"} /\ revoked \in BOOLEAN
        /\ {gaveUp, strayed} \subseteq SUBSET Payments
    BY DEF Init
  <2>5. QED
    BY <1>2, <2>1, <2>2, <2>3, <2>4 DEF TypeOK
<1>4. \A p \in Payments : RowBacked(p, row[p])
  BY DEF Init, RowBacked, NoRow
<1>5. \A j \in Jobs : JobBacked(job[j])
  BY DEF Init, JobBacked, Idle, AttemptPoints
<1>6. RevokedOnlyByFullRefund
  BY DEF Init, RevokedOnlyByFullRefund
<1>7. AttemptInv
  BY <1>2 DEF Init, AttemptInv, OneLiveRefund, Accounted, LiveOwn, Tries, AttemptPoints, Idle
<1>8. QED
  BY <1>2, <1>3, <1>4, <1>5, <1>6, <1>7 DEF IInv, RefundInv

\* Nothing changes in a stuttering step.
LEMMA StutterInv == IInv /\ UNCHANGED vars => IInv'
<1> SUFFICES ASSUME IInv, UNCHANGED vars PROVE IInv'
  OBVIOUS
<1>1. UNCHANGED <<order, revoked, row, prov, job, delivered, faults, retries, gaveUp, strayed>>
  BY DEF vars, bounds, history
<1>2. RefundInv'
  BY <1>1 DEF IInv, RefundInv, TypeOK, RowBacked, JobBacked, Full, ProcessedFor,
              RevokedOnlyByFullRefund
<1>3. AttemptInv'
  BY <1>1 DEF IInv, AttemptInv, OneLiveRefund, Accounted, LiveOwn, Tries, Known
<1>4. QED
  BY <1>2, <1>3 DEF IInv

\* Every step of the system keeps the invariant.
LEMMA NextInv == IInv /\ [Next]_vars => IInv'
<1> SUFFICES ASSUME IInv, [Next]_vars PROVE IInv'
  OBVIOUS
<1>1. ASSUME NEW j \in Jobs, AdminRefund(j) PROVE IInv'
  BY <1>1, ConstantTypes, ClaimStep, ClaimAttempt DEF IInv, AdminRefund
<1>2. ASSUME NEW j \in Jobs, NEW p \in Payments, SchedDuplicate(j, p) PROVE IInv'
  BY <1>2, ClaimStep, ClaimAttempt DEF IInv, SchedDuplicate
<1>3. ASSUME NEW j \in Jobs, \/ \E p \in Payments : SchedKnown(j, p) \/ SchedUnknown(j, p)
                             \/ \E r \in DOMAIN prov : Deliver(j, r)
      PROVE  IInv'
  BY <1>3, StartStep, StartAttempt DEF IInv
<1>4. ASSUME NEW j \in Jobs, Lose(j) PROVE IInv'
  BY <1>4, LoseStep, LoseAttempt DEF IInv
<1>5. ASSUME NEW r \in DOMAIN prov, ProviderFinishes(r) PROVE IInv'
  BY <1>5, ProviderFinishesStep, WorldAttempt DEF IInv
<1>6. ASSUME NEW p \in Payments, DashboardRefund(p) PROVE IInv'
  BY <1>6, DashboardRefundStep, WorldAttempt DEF IInv
<1>7. ASSUME NEW p \in Payments, Age(p) PROVE IInv'
  BY <1>7, AgeStep, WorldAttempt DEF IInv
<1>8. CASE UNCHANGED vars
  BY <1>8, StutterInv
<1>9. QED
  BY <1>1, <1>2, <1>3, <1>4, <1>5, <1>6, <1>7, <1>8, StepKeeps DEF Next, Sched

\* The inductive invariant holds in every state of every behaviour.
THEOREM Invariant == Spec => []IInv
BY InitInv, NextInv, PTL DEF Spec

\* Every variable of the refunds has its type, whatever the number of
\* payments, jobs, refunds, deliveries, faults and retries.
THEOREM TypeCorrect == Spec => []TypeOK
<1>1. IInv => TypeOK
  BY DEF IInv, RefundInv
<1>2. QED
  BY <1>1, Invariant, PTL

\* settleProcessed and recoverRefundWebhook write COMPLETED only with the money
\* of a refund of this payment and of the row's size behind it.
THEOREM CompletedHasItsMoney == Spec => []CompletedIsProcessed
<1>1. IInv => CompletedIsProcessed
  BY DEF IInv, RefundInv, RowBacked, CompletedIsProcessed
<1>2. QED
  BY <1>1, Invariant, PTL

\* Entitlements are revoked and the order ends REFUNDED only with a full,
\* processed refund of the order's own payment.
THEOREM AccessEndsByFullRefund == Spec => []RevokedOnlyByFullRefund
<1>1. IInv => RevokedOnlyByFullRefund
  BY DEF IInv, RefundInv
<1>2. QED
  BY <1>1, Invariant, PTL

\* A FAILED row, which a new attempt may take back, has no refund of the
\* application that is pending or paid out, but for the payments given up or
\* led astray.
THEOREM FailedMeansNothingLives == Spec => []FailedHasNoLiveRefund
<1>1. IInv => FailedHasNoLiveRefund
  BY DEF IInv, AttemptInv, Accounted, LiveOwn, FailedHasNoLiveRefund
<1>2. QED
  BY <1>1, Invariant, PTL
=============================================================================
