------------------------------ MODULE MCVolRep ------------------------------
(***************************************************************************)
(* Instances of VolRep: one or two volumes, two S3 stores, in situations   *)
(* that each stress one part of the code.                                  *)
(***************************************************************************)
EXTENDS VolRep

CONSTANTS p1, p2

TwoVolumes == <<p1, p2>>

Scene(start, async, present, acts, calls, nc, nf) ==
    [start |-> start, async |-> async, present |-> present, acts |-> acts, calls |-> calls,
     changes |-> nc, faults |-> nf]

\* One cluster of a relocation there and back, and of a failover.
Moving ==
    {Scene("deploy", TRUE, {p1}, {"delete", "pods", "relocate"}, {"getVR", "updatePVC"}, 3, 1),
     Scene("deploy", TRUE, {p1}, {"failover", "pods"}, {"writeVR", "class"}, 2, 1),
     Scene("deploy", FALSE, {p1}, {"delete", "relocate", "failover"}, {"updatePVC", "updatePV"}, 3, 1),
     Scene("deploy", TRUE, {p1, p2}, {"failover"}, {"class"}, 1, 1),
     Scene("shared", TRUE, {p1, p2}, {"failover"}, {}, 1, 0)}

\* The stores fail at every point while volumes are resized.
Storing ==
    {Scene("deploy", TRUE, {p1}, {"resize", "destination"},
           {"uploadPV", "uploadPVC", "archivePVC", "archivePV", "handle", "saveStatus",
            "retainPV", "annotatePVC"}, 0, 2)}

\* The other cluster's volumes come back from the stores.
Restoring ==
    {Scene("restore", TRUE, {p1, p2}, {}, {"download", "saveStatus"}, 1, 1),
     Scene("restore", FALSE, {p1}, {"relocate", "delete"}, {"download"}, 3, 1),
     Scene("test", TRUE, {p1}, {"failover"}, {"download", "snapshot", "saveStatus"}, 2, 1)}

\* The user gives up a volume, or the hub deletes the VRG.
Ending ==
    {Scene("deploy", TRUE, {p1}, {"delete", "deselect", "reselect", "driverFails"},
           {"deleteS3", "updatePV", "updatePVC", "saveStatus", "class"}, 0, 2),
     Scene("deploy", TRUE, {p1}, {"delete", "end", "relocate", "driverFails"},
           {"saveStatus", "writeVR", "deleteS3", "updatePVC"}, 3, 1),
     Scene("deploy", FALSE, {p1}, {"end", "relocate", "delete"}, {"deleteS3"}, 3, 1)}

EveryScene == Moving \cup Storing \cup Restoring \cup Ending
=============================================================================
