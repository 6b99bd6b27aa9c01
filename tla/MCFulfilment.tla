---------------------------- MODULE MCFulfilment -----------------------------
EXTENDS Fulfilment
CONSTANTS o1, o2, o3, a1, w1, w2
MCOrders == {o1, o2, o3}
MCOneOrder == {o1}
MCWorkers == {w1, w2}
MCMonths == [o \in Orders |-> 1]
MCAdmins == {a1}
MCNobody == {}
MCAdminMonths == [a \in Admins |-> 1]
\* 1 and 31 January: a month from the one is shorter than from the other.
MCDays == {0, 30}
\* Admins act only where nothing is lost or outlived. The third purchase comes
\* where they do not grant either and one worker runs at a time: it is there for
\* one that moves up to run into it.
MCQuiet == aborts + overruns = 0
MCGranted == \E a \in Admins: admin[a].status # "NONE"
MCThirdUsed ==
  \/ completed[o3] \/ ent[o3][1].status # "NONE"
  \/ \E w \in Workers: job[w].op \in {"provision", "refund"} /\ job[w].order = o3
MCOneTrouble ==
  /\ MCQuiet \/ (~MCGranted /\ \A w \in Workers: job[w].op # "revoke")
  /\ MCThirdUsed => MCQuiet /\ ~MCGranted /\ Idle \in {job[w1], job[w2]}
MCSymmetry == Permutations(MCWorkers)
=============================================================================
