--------------------------- MODULE VolumeContract ---------------------------
(***************************************************************************)
(* What protecting a volume with VolumeReplication promises, whatever the  *)
(* order in which a controller's passes, the user, the pods and the driver *)
(* act on it.  A volume is                                                 *)
(*   role    what replication was asked of it, "following" once the        *)
(*           storage has confirmed that it follows the other site, and     *)
(*           "leaving" once replication was told to stop                   *)
(*   held    its claim cannot be removed                                   *)
(*   used    a pod uses it                                                 *)
(*   ended   its protection was given up, by the user or with the VRG      *)
(*   renewed its claim was just written anew from the stored copy          *)
(*   stored  the volume exists on this cluster                             *)
(***************************************************************************)
CONSTANT ContractVolumes

VARIABLE vol

Replicas == {"none", "primary", "demoted", "following", "leaving"}

VolumeStates ==
    [role : Replicas, held : BOOLEAN, used : BOOLEAN, ended : BOOLEAN,
     renewed : BOOLEAN, stored : BOOLEAN]

\* Replication starts as primary and stops only where it follows, unless the
\* protection was given up.
RoleSteps ==
    {<<r, r>> : r \in Replicas} \cup
    {<<"none", "primary">>, <<"primary", "demoted">>, <<"demoted", "following">>,
     <<"following", "demoted">>, <<"demoted", "primary">>, <<"following", "primary">>,
     <<"following", "leaving">>, <<"leaving", "none">>}

RoleStep(a, b) == <<a.role, b.role>> \in RoleSteps \/ (a.ended /\ b.role = "leaving")

\* A volume in use is never demoted.
DemotedUnused(a, b) == a.role = "primary" /\ b.role = "demoted" => ~a.used

\* A claim is let go only when nothing replicates the volume any more.
LetGoUnreplicated(a, b) == a.held /\ ~b.held => b.role = "none" \/ b.renewed

\* A volume goes only when nothing holds or replicates it.
DestroyedReleased(a, b) == a.stored /\ ~b.stored => ~a.held /\ a.role = "none"

VolumeStep(a, b) ==
    RoleStep(a, b) /\ DemotedUnused(a, b) /\ LetGoUnreplicated(a, b) /\ DestroyedReleased(a, b)

InitContract ==
    vol \in [ContractVolumes -> {s \in VolumeStates : s.role = "none" /\ ~s.held}]

NextContract ==
    /\ vol' \in [ContractVolumes -> VolumeStates]
    /\ \A p \in ContractVolumes : VolumeStep(vol[p], vol'[p])

SpecContract == InitContract /\ [][NextContract]_vol
=============================================================================
