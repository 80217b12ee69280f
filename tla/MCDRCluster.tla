---------------------------- MODULE MCDRCluster ----------------------------
EXTENDS DRCluster

CONSTANTS c1, c2, c3, none, k1, k2, b1

TwoClusters == {c1, c2}
ThreeClusters == {c1, c2, c3}

Regional(cs) == [clusters |-> cs, metro |-> FALSE]
MetroOf(cs) == [clusters |-> cs, metro |-> TRUE]
Workload(i) == [policy |-> i, backend |-> b1, seen |-> TRUE]
Unseen(i) == [policy |-> i, backend |-> b1, seen |-> FALSE]

\* What users may do to c1, and nothing but fail over to c2.
ActsOn(acts) == [c \in DRClusters |-> CASE c = c1 -> acts [] c = c2 -> {"failover"} [] OTHER -> {}]

Scene(ps, apps, classes, acts, waits, dead, calls, nc, nf) ==
    [policies |-> ps, gone |-> {}, apps |-> apps, old |-> DRClusters,
     classes |-> [c \in DRClusters |-> classes], cidrs |-> [c \in DRClusters |-> "equal"],
     acts |-> ActsOn(acts), waits |-> waits, dead |-> dead, calls |-> calls, changes |-> nc, faults |-> nf]

Pair == <<c1, c2>>

\* c1 is out of reach and not valid; it is fenced and its workload fails over.
Disaster ==
    [Scene(<<MetroOf(Pair)>>, <<Workload(1)>>, {k1, k2}, {"Fenced"}, {"settled"}, {c1}, {"s3", "view"}, 2, 2)
     EXCEPT !.cidrs = [@ EXCEPT ![c1] = "fewer"]]

\* c1 is fenced by two classes, unfenced, and fenced again.
FenceAgain == Scene(<<MetroOf(Pair)>>, <<>>, {k1, k2}, {"Fenced", "Unfenced"}, {"settled"}, {}, {"work"}, 3, 1)

\* c1 is fenced, unfenced and fenced again while its workload fails over.
SecondThoughts ==
    Scene(<<MetroOf(Pair)>>, <<Workload(1)>>, {k1}, {"Fenced", "Unfenced"}, {"settled"}, {}, {"view"}, 4, 1)

\* The fencing is by hand.
Manual == Scene(<<MetroOf(Pair)>>, <<Workload(1)>>, {}, {"ManuallyFenced", "ManuallyUnfenced", ""}, {}, {}, {}, 3, 0)

\* Two workloads fail over to c2 and need the same maintenance there.
Failovers == Scene(<<Regional(Pair)>>, <<Workload(1), Workload(1)>>, {}, {}, {"released"}, {}, {"work"}, 3, 1)
FailoverUnseen == Scene(<<Regional(Pair)>>, <<Unseen(1)>>, {}, {}, {"released"}, {c1}, {}, 1, 0)

\* A failover is withdrawn, and asked for again.
Withdrawals ==
    [Scene(<<Regional(Pair)>>, <<Workload(1)>>, {}, {}, {"released"}, {}, {"work"}, 4, 1)
     EXCEPT !.acts[c2] = {"failover", "withdraw"}]

\* Two clusters are set up; c1 is given wrong CIDRs and deleted.
SetUp ==
    [Scene(<<Regional(Pair)>>, <<>>, {k1}, {"fewer", "malformed", "none", "delete"}, {"settled"}, {},
           {"config", "deploy", "s3", "view", "save"}, 2, 1)
     EXCEPT !.old = {c2}, !.gone = {1}]

\* A cluster that was fenced is deleted.
FencedThenDeleted ==
    [Scene(<<MetroOf(Pair)>>, <<>>, {}, {"Fenced", "Unfenced", "", "delete"}, {"settled"}, {}, {}, 4, 1)
     EXCEPT !.gone = {1}]

\* A workload fails over from c3 to c2 while c1, which it does not use, is deleted.
AnotherDeleted == {Scene(<<Regional(<<c3, c2>>)>>, <<Workload(1)>>, {}, {"delete"}, {}, {}, {}, 2, 0)}

EveryScene == {Disaster, FenceAgain, SecondThoughts, Manual, Failovers, FailoverUnseen, Withdrawals, SetUp, FencedThenDeleted}
=============================================================================
