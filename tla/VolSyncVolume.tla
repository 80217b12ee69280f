---------------------------- MODULE VolSyncVolume ----------------------------
(***************************************************************************)
(* One volume that VolSync replicates, on one managed cluster, and what    *)
(* the VRG controller does to it in one pass: the PVC and its PV, the      *)
(* ReplicationSource that sends it, the ReplicationDestination that        *)
(* receives it, the temporary PVC of a final sync, the local pair that     *)
(* rolls a volume back to a snapshot, and the job that mounts a PVC before *)
(* its first sync.  Every operator takes the VRG's specification g, the    *)
(* volume w and the one call of this pass that fails, f.                   *)
(***************************************************************************)
EXTENDS Integers, FiniteSets, Steps

CONSTANT VolumeUnprotectionEnabled   \* the Ramen configuration's feature flag

\* The content of a volume is a version number; a transfer that is under way
\* leaves neither the old nor the new one.
Torn == -1
NoImage == [id |-> 0, ver |-> 0]

Triggers == {"none", "schedule", "prepare", "final"}
Calls == {"none", "updatePVC", "updatePV", "createTmp", "deleteRS", "deleteRD", "class",
          "writeRS", "writeRD", "saveStatus"}

NoPVC == [there |-> FALSE, terminating |-> FALSE, finalizer |-> FALSE, selected |-> TRUE,
          app |-> FALSE, source |-> 0]
NoPV == [there |-> FALSE, retain |-> FALSE, ours |-> FALSE, claim |-> "pvc"]
NoRS == [there |-> FALSE, trigger |-> "none", last |-> "none", synced |-> FALSE,
         job |-> "none", carry |-> 0, here |-> FALSE]
NoRD == [there |-> FALSE, addr |-> FALSE, paused |-> FALSE, image |-> NoImage]
NoLocal == [rd |-> FALSE, addr |-> FALSE, paused |-> FALSE, trigger |-> 0, last |-> 0]
NoStatus == [listed |-> FALSE, restored |-> "None", setup |-> "None"]

\* A new PVC gets a PV that waits for a claim of its name, or a new volume.
\* Kubernetes provisions a PVC that has a data source from that.
Claimed(w, app, source, ver) ==
    LET pvc == [NoPVC EXCEPT !.there = TRUE, !.app = app, !.source = source]
    IN IF w.pv.there /\ w.pv.claim = "free" /\ source = 0
       THEN [w EXCEPT !.pvc = pvc, !.pv.claim = "pvc"]
       ELSE [w EXCEPT !.pvc = pvc, !.pv = [NoPV EXCEPT !.there = TRUE], !.data = ver]

SetupError(w) == [w EXCEPT !.st.setup = "Error"]

-----------------------------------------------------------------------------
(* The objects of a volume.                                                 *)

PVCType ==
    [there : BOOLEAN, terminating : BOOLEAN, finalizer : BOOLEAN, selected : BOOLEAN,
     app : BOOLEAN, source : Nat]
PVType == [there : BOOLEAN, retain : BOOLEAN, ours : BOOLEAN, claim : {"pvc", "tmp", "free", "dead"}]
RSType == [there : BOOLEAN, trigger : Triggers, last : Triggers, synced : BOOLEAN,
           job : Triggers, carry : Nat, here : BOOLEAN]
RDType == [there : BOOLEAN, addr : BOOLEAN, paused : BOOLEAN, image : [id : Nat, ver : Nat]]
LocalType == [rd : BOOLEAN, addr : BOOLEAN, paused : BOOLEAN, trigger : Nat, last : Nat]
StatusType == [listed : BOOLEAN, restored : {"None", "Complete", "Error"},
               setup : {"None", "Complete", "Error"}]

VolumeType ==
    [pvc : PVCType, pv : PVType, data : Nat \cup {Torn}, tmp : BOOLEAN, mounted : BOOLEAN,
     rs : RSType, rd : RDType, local : LocalType, kept : Nat,
     job : {"none", "running", "done", "failed"}, st : StatusType]

-----------------------------------------------------------------------------
(* The PV behind the PVC.                                                   *)

RetainPVForPVC(w, f) ==
    IF ~w.pv.there \/ w.pv.retain THEN Go(w)
    ELSE IF f = "updatePV" THEN Requeue(w)
    ELSE Go([w EXCEPT !.pv.retain = TRUE, !.pv.ours = TRUE])

UndoPVRetentionForPVC(w, f) ==
    IF ~w.pv.there \/ ~w.pv.ours THEN Go(w)
    ELSE IF f = "updatePV" THEN Requeue(w)
    ELSE Go([w EXCEPT !.pv.retain = FALSE, !.pv.ours = FALSE])

RemoveFinalizer(w, f) ==
    IF ~w.pvc.finalizer THEN Go(w)
    ELSE IF f = "updatePVC" THEN Requeue(w)
    ELSE Go([w EXCEPT !.pvc.finalizer = FALSE])

\* The PV is left for the next PVC of the same name.
CleanupPVClaimRefForPVCDeletion(w, f) ==
    IF ~w.pv.there THEN Go(w)
    ELSE IF f = "updatePV" THEN Requeue(w)
    ELSE Go([w EXCEPT !.pv.claim = IF @ = "pvc" THEN "free" ELSE @])

DeletePVC(w) == IF w.pvc.there THEN [w EXCEPT !.pvc.terminating = TRUE] ELSE w

-----------------------------------------------------------------------------
(* Removing what replicates the volume.                                     *)

\* An error of the deletion is logged and the caller goes on (cleanupRS).
DeleteRS(w, f) == IF f = "deleteRS" THEN w ELSE [w EXCEPT !.rs = NoRS]

\* The local pair goes once it has rolled the volume back to the image.
deleteLocalRDAndRS(w) ==
    IF w.rd.image = NoImage THEN Go(w)
    ELSE IF w.local.trigger = 0
            \/ (w.local.trigger = w.rd.image.id /\ w.local.last = w.local.trigger)
         THEN Go([w EXCEPT !.local = NoLocal])
    ELSE Requeue(w)

DeleteRD(g, w, f) ==
    IF ~w.rd.there THEN Go(w)
    ELSE Then(IF g.direct THEN deleteLocalRDAndRS(w) ELSE Go(w), LAMBDA v :
           IF f = "deleteRD" THEN Requeue(v) ELSE Go([v EXCEPT !.rd = NoRD]))

\* An error of the deletion is logged; as Secondary the PVC goes all the same.
CleanupRDNotInSpecList(g, w, f, inSpec) ==
    IF ~w.rd.there \/ inSpec THEN w
    ELSE With(DeleteRD(g, w, f).w, LAMBDA v : IF g.state = "Secondary" THEN DeletePVC(v) ELSE v)

-----------------------------------------------------------------------------
(* A volume of a Primary.                                                   *)

\* The PVC was deleted, and not for a final sync.
isPVCDeletedForUnprotection(g, w) == w.pvc.terminating /\ ~g.prep /\ ~g.run

UnprotectVolSyncPVC(w, f) == RemoveFinalizer([DeleteRS(w, f) EXCEPT !.kept = 0], f)

pvcUnprotectVolSync(w, f) ==
    IF ~VolumeUnprotectionEnabled THEN Go(w)
    ELSE Then(Then(UndoPVRetentionForPVC(w, f), LAMBDA v : UnprotectVolSyncPVC(v, f)), LAMBDA v :
              Go([v EXCEPT !.st = NoStatus]))

\* Kubernetes refuses a new finalizer on a PVC that is being deleted.
buildProtectedPVCForPVC(g, w, f) ==
    IF isPVCDeletedForUnprotection(g, w) THEN Stop(pvcUnprotectVolSync(w, f).w)
    ELSE IF ~w.pvc.finalizer /\ (f = "updatePVC" \/ w.pvc.terminating) THEN Requeue(w)
    ELSE Go([w EXCEPT !.pvc.finalizer = TRUE, !.st.listed = TRUE])

stopSchedulingRS(w, f) ==
    IF ~w.rs.there THEN Requeue(w)
    ELSE IF w.rs.trigger = "prepare" THEN Go(w)
    ELSE IF f = "writeRS" THEN Requeue(w)
    ELSE Go([w EXCEPT !.rs.trigger = "prepare"])

\* The job of a running sync is looked for before the schedule is stopped.
prepareForFinalSync(w, f) ==
    IF w.rs.job # "none" THEN Requeue(w) ELSE stopSchedulingRS(w, f)

PreparePVC(g, w, f) == IF g.prep THEN prepareForFinalSync(w, f) ELSE Go(w)

\* A PVC that no pod has mounted and that was never sent is mounted by a job.
EnsureMountJobForUnmountedPVC(w) ==
    CASE w.job = "none" -> IF w.rs.there \/ w.mounted THEN Go(w)
                           ELSE Requeue([w EXCEPT !.job = "running"])
      [] w.job = "running" -> Requeue(w)
      [] w.job = "done" -> Go(IF w.rs.there THEN [w EXCEPT !.job = "none"] ELSE w)
      [] w.job = "failed" -> Requeue(SetupError([w EXCEPT !.job = "none"]))

\* The final sync reads a temporary PVC that takes over the PV of the one
\* being deleted.
SetupTmpPVCForFinalSync(w, f) ==
    IF w.tmp THEN Go(w)
    ELSE IF f = "updatePV" THEN Requeue(w)
    ELSE With([w EXCEPT !.pv.retain = TRUE, !.pv.ours = TRUE, !.pv.claim = "tmp"], LAMBDA v :
           Requeue(IF f = "createTmp" THEN v ELSE [v EXCEPT !.tmp = TRUE]))

\* The source goes on to the final sync without the temporary PVC.
setupForFinalSync_InPlace(g, w, f) ==
    IF ~w.rs.there THEN Go(w)
    ELSE IF ~g.run THEN IF w.rs.trigger = "prepare" THEN Requeue(w) ELSE Go(w)
    ELSE IF ~w.pvc.terminating THEN Requeue(w)
    ELSE Go(w)

setupForFinalSync(g, w, f) ==
    IF ~w.rs.there THEN Go(w)
    ELSE IF ~g.run THEN IF w.rs.trigger = "prepare" THEN Requeue(w) ELSE Go(w)
    ELSE IF ~w.pvc.terminating THEN Requeue(w)
    ELSE IF w.rs.trigger = "prepare" THEN SetupTmpPVCForFinalSync(w, f)
    ELSE Go(w)

createOrUpdateRS(g, w, f) ==
    IF f = "class" THEN Requeue(SetupError(w))
    ELSE Then(setupForFinalSync(g, w, f), LAMBDA v :
           IF f = "writeRS" THEN Requeue(SetupError(v))
           ELSE Go([v EXCEPT !.rs.there = TRUE, !.st.setup = "Complete",
                             !.rs.trigger = IF g.run THEN "final" ELSE "schedule"]))

UndoAfterFinalSync(w, f) ==
    With([w EXCEPT !.tmp = FALSE], LAMBDA v :
        IF f = "updatePV" THEN Requeue(v)
        ELSE RemoveFinalizer([v EXCEPT !.pv.claim = "pvc", !.pv.retain = FALSE,
                                       !.pv.ours = FALSE], f))

CleanupAfterRSFinalSync(g, w) == IF g.direct THEN w ELSE DeletePVC(w)

isFinalSyncComplete_AnySync(w) == w.rs.synced

\* The last manual sync is the final one.
isFinalSyncComplete(w) == w.rs.last = "final"

FinishFinalSync(g, w, f) ==
    IF ~g.run \/ ~isFinalSyncComplete(w) THEN Go(w)
    ELSE With(UndoAfterFinalSync(w, f), LAMBDA r :
           IF r.res = "go" THEN Stop(CleanupAfterRSFinalSync(g, r.w)) ELSE Requeue(SetupError(r.w)))

\* The PVC must not be in use before the final sync.
validatePVCForFinalSync(g, w) ==
    IF g.run /\ w.mounted
    THEN Requeue(IF w.rs.there THEN [w EXCEPT !.st.setup = "Complete"] ELSE w)
    ELSE Go(w)

\* "stop": the final sync is complete.  "go": the source is set up.
ReconcileRS(g, w, f) ==
    IF ~g.secret THEN Requeue(w)
    ELSE With(DeleteRD(g, w, f), LAMBDA d :
      IF d.res # "go" THEN Requeue(SetupError(d.w))
      ELSE Then(Then(Then(EnsureMountJobForUnmountedPVC(d.w),
                LAMBDA v : validatePVCForFinalSync(g, v)),
                LAMBDA v : createOrUpdateRS(g, v, f)),
                LAMBDA v : FinishFinalSync(g, v, f)))

\* What comes before ReconcileRS: it settles whether the PVC is prepared.
Protect(g, w, f) ==
    Then(Then(buildProtectedPVCForPVC(g, w, f), LAMBDA v :
              IF g.sourced THEN PreparePVC(g, v, f) ELSE Requeue(v)),
         LAMBDA v : RetainPVForPVC(v, f))

-----------------------------------------------------------------------------
(* A volume of a Secondary.                                                 *)

\* An existing RD was made when the PVC was unused.
IsPVCInUseByNonRDPod(w) == ~w.rd.there /\ w.mounted

EnsurePVCforDirectCopy(w, f) ==
    RetainPVForPVC(IF w.pvc.there THEN [w EXCEPT !.pvc.app = FALSE] ELSE Claimed(w, FALSE, 0, 0), f)

PrecreateDestPVCIfEnabled(g, w, f) ==
    IF ~g.direct THEN Go(w)
    ELSE Then(EnsurePVCforDirectCopy(w, f), LAMBDA v :
           IF IsPVCInUseByNonRDPod(v) THEN Requeue(v) ELSE Go(v))

createOrUpdateRD(w, f) ==
    IF f \in {"class", "writeRD"} THEN Requeue(w) ELSE Go([w EXCEPT !.rd.there = TRUE])

\* "stop": the destination has no address yet.
generateRDInfo(w) == IF w.rd.addr THEN Go(w) ELSE Stop(w)

\* The source is removed after the destination was made.
ReconcileRD_SourceKept(g, w, f) ==
    IF ~g.secret THEN Requeue(w)
    ELSE Then(Then(Then(PrecreateDestPVCIfEnabled(g, w, f), LAMBDA v : createOrUpdateRD(v, f)),
                   generateRDInfo), LAMBDA v : Go(DeleteRS(v, f)))

\* The source is looked for only before the destination is made.
ReconcileRD_FirstOnly(g, w, f) ==
    IF ~g.secret THEN Requeue(w)
    ELSE Then(Then(PrecreateDestPVCIfEnabled(g, IF w.rd.there THEN w ELSE DeleteRS(w, f), f),
                   LAMBDA v : createOrUpdateRD(v, f)), generateRDInfo)

ReconcileRD(g, w, f) ==
    IF ~g.secret THEN Requeue(w)
    ELSE Then(Then(PrecreateDestPVCIfEnabled(g, DeleteRS(w, f), f),
                   LAMBDA v : createOrUpdateRD(v, f)), generateRDInfo)

\* A PVC the application deleted goes; its PV waits for the next one.
handleDeletingVolSyncPVCsAsSecondary(w, f) ==
    IF ~w.pvc.terminating THEN Go(w)
    ELSE Then(CleanupPVClaimRefForPVCDeletion(w, f), LAMBDA v : RemoveFinalizer(v, f))

-----------------------------------------------------------------------------
(* Restoring a volume from what its destination received.                   *)

\* A PVC cannot change its data source: a wrong one is deleted first.
ensurePVCFromSnapshot(w) ==
    IF ~w.pvc.there THEN Go(Claimed(w, TRUE, w.rd.image.id, w.rd.image.ver))
    ELSE IF w.pvc.source # w.rd.image.id THEN Requeue(DeletePVC(w))
    ELSE Go(w)

reconcileLocalReplication(w, f) ==
    Then(EnsurePVCforDirectCopy(w, f), LAMBDA v :
        IF ~v.local.addr THEN Requeue([v EXCEPT !.local.rd = TRUE])
        ELSE Go([v EXCEPT !.local.trigger = v.rd.image.id]))

\* The main RD keeps receiving while the volume is rolled back.
rollbackToLastSnapshot_Unpaused(w, f) ==
    IF w.mounted /\ ~w.local.rd THEN Requeue(w)
    ELSE Then(reconcileLocalReplication(w, f), LAMBDA u :
           IF u.local.last = u.rd.image.id THEN Go([u EXCEPT !.local.paused = TRUE])
           ELSE Requeue(u))

rollbackToLastSnapshot(w, f) ==
    With([w EXCEPT !.rd.paused = TRUE], LAMBDA v :
        IF v.mounted /\ ~v.local.rd THEN Requeue(v)
        ELSE Then(reconcileLocalReplication(v, f), LAMBDA u :
               IF u.local.last = u.rd.image.id THEN Go([u EXCEPT !.local.paused = TRUE])
               ELSE Requeue(u)))

\* With direct copies the destination's PVC is the application's: after a
\* failover it may hold half a transfer and is rolled back.
ValidateSnapshotAndEnsurePVC(g, w, f) ==
    With([w EXCEPT !.kept = w.rd.image.id], LAMBDA v :
        IF ~g.direct THEN ensurePVCFromSnapshot(v)
        ELSE IF ~v.pvc.there THEN Requeue(v)
        ELSE Then(IF g.action = "Failover" THEN rollbackToLastSnapshot(v, f) ELSE Go(v),
                  LAMBDA u : Go([u EXCEPT !.pvc.app = TRUE])))

EnsurePVCfromRD(g, w, f) ==
    IF ~w.rd.there \/ w.rd.image = NoImage THEN Requeue(w)
    ELSE ValidateSnapshotAndEnsurePVC(g, w, f)

restorePVForVolSync(g, w, f) ==
    With(EnsurePVCfromRD(g, w, f), LAMBDA r :
        [r EXCEPT !.w.st = [@ EXCEPT !.listed = TRUE,
                                     !.restored = IF r.res = "go" THEN "Complete" ELSE "Error"]])

-----------------------------------------------------------------------------
(* A VRG that is being deleted.                                             *)

\* The VRG goes although a destination could not be deleted.
doCleanupResources_Regardless(g, w, f) == Go([DeleteRD(g, DeleteRS(w, f), f).w EXCEPT !.kept = 0])

doCleanupResources(g, w, f) ==
    Then(DeleteRD(g, DeleteRS(w, f), f), LAMBDA v : Go([v EXCEPT !.kept = 0]))

deleteDestinationPVC(w, f) ==
    IF ~w.pvc.there THEN Go(w)
    ELSE Then(Then(UndoPVRetentionForPVC(w, f), LAMBDA v : RemoveFinalizer(v, f)),
              LAMBDA v : Go(DeletePVC(v)))

\* The PVC is the application's, or was made for the destination.
cleanupResources(g, w, f, isPVC, isRD) ==
    Then(IF isPVC THEN Then(doCleanupResources(g, w, f), LAMBDA v : RemoveFinalizer(v, f))
         ELSE Go(w), LAMBDA v :
      IF ~isRD THEN Go(v)
      ELSE Then(doCleanupResources(g, v, f), LAMBDA u :
             IF g.state = "Secondary" THEN deleteDestinationPVC(u, f) ELSE Go(u)))
=============================================================================
