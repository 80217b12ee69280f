----------------------------- MODULE MCVolSync -----------------------------
(***************************************************************************)
(* Instances of VolSync: two clusters, one or two PVCs, in situations that *)
(* each stress one part of the code.                                       *)
(***************************************************************************)
EXTENDS VolSync

CONSTANTS c1, c2, p1, p2

TwoClusters == <<c1, c2>>
TwoClaims == <<p1, p2>>

Scene(start, direct, submariner, present, acts, calls, nc, nf, nw) ==
    [start |-> start, direct |-> direct, submariner |-> submariner, present |-> present,
     acts |-> acts, calls |-> calls, changes |-> nc, faults |-> nf, writes |-> nw]

Starting ==
    {Scene("deploy", d, s, {p1}, {"jobFails"}, {"class"}, 0, 1, 1) : d, s \in BOOLEAN}

Relocating ==
    {Scene("settled", FALSE, TRUE, {p1}, {"relocate"}, {"updatePV", "createTmp", "saveStatus", "updatePVC"}, 1, 1, 1),
     Scene("settled", TRUE, FALSE, {p1}, {"relocate"}, {"updatePV", "writeRS", "deleteRD", "deleteRS"}, 1, 1, 1),
     Scene("stopped", FALSE, FALSE, {p1, p2}, {"relocate"}, {}, 0, 0, 0)}

FailingOver ==
    {Scene("settled", FALSE, TRUE, {p1}, {"failover"}, {}, 1, 0, 1),
     Scene("settled", FALSE, TRUE, {p1}, {"failover"}, {"saveStatus", "updatePVC"}, 1, 1, 0),
     Scene("settled", TRUE, FALSE, {p1}, {"failover"}, {"updatePV"}, 1, 1, 1),
     Scene("settled", TRUE, TRUE, {p1}, {"failover"}, {"deleteRS"}, 2, 1, 0),
     Scene("settled", FALSE, TRUE, {p1}, {"failover"}, {"deleteRS"}, 2, 1, 0)}

Ending ==
    {Scene("settled", d, TRUE, {p1}, {"end", a}, {"updatePV", "updatePVC", "deleteRD", "deleteRS"}, 1, 1, 0) :
        d \in BOOLEAN, a \in {"delete", "unselect"}}

EveryScene == Starting \cup Relocating \cup FailingOver \cup Ending
=============================================================================
