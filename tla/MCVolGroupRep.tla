---------------------------- MODULE MCVolGroupRep ----------------------------
(***************************************************************************)
(* Instances of VolGroupRep: a group of two claims, of one VRG or shared   *)
(* by two, in situations that each stress one part of the code.            *)
(***************************************************************************)
EXTENDS VolGroupRep

CONSTANTS m1, m2

TwoMembers == <<m1, m2>>

GScene(kind, acts, calls, changes, faults) ==
    [global |-> kind = "global", external |-> kind = "external",
     owner |-> [p \in {m1, m2} |-> IF kind = "global" THEN p ELSE m1],
     acts |-> acts, calls |-> calls, changes |-> changes, faults |-> faults]

OwnGroup ==
    {GScene("own", {"delete"}, {"updatePVC", "labelPVC"}, 0, 1),
     GScene("own", {"deselect"}, {"updatePV"}, 0, 1),
     GScene("external", {"deselect"}, {}, 0, 0),
     GScene("external", {"undeploy", "relocate"}, {}, 1, 0),
     GScene("own", {"undeploy", "relocate"}, {"saveStatus"}, 1, 1),
     GScene("own", {"undeploy", "relocate", "promote"}, {}, 2, 0),
     GScene("own", {"failover", "promote"}, {"writeVR", "getVR"}, 2, 1),
     GScene("own", {"end", "relocate", "undeploy"}, {}, 2, 0),
     GScene("own", {"destination"},
            {"uploadVGRC", "uploadVGR", "archiveVGR", "archiveVGRC", "handle"}, 0, 2)}

SharedGroup ==
    {GScene("global", {"undeploy", "relocate", "pods"}, {}, 2, 0),
     GScene("global", {"failover", "promote"}, {}, 3, 0),
     GScene("global", {"failover", "promote"}, {"saveStatus"}, 2, 1),
     GScene("global", {"failover", "end"}, {}, 3, 0)}

EveryGroup == OwnGroup \cup SharedGroup
==============================================================================
