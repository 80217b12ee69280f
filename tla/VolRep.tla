------------------------------- MODULE VolRep -------------------------------
(***************************************************************************)
(* The VRG controller of one managed cluster over the volumes it protects  *)
(* with VolumeReplication: the passes of its reconciler as Primary, as     *)
(* Secondary and for a VRG that is being deleted, against the user, the    *)
(* pods, Kubernetes and the storage driver, each acting on its own.        *)
(***************************************************************************)
EXTENDS ProtectedVolume, Functions

CONSTANTS
    Volumes,      \* the PVCs, in the order the API server lists them
    Scenes        \* the situations to explore: see SceneType

\* How the VRG starts; DR across regions (async) or the synchronous mode; the
\* volumes there are; what the others may do besides what they always may; the
\* calls that may fail; how often the hub changes the VRG's specification and
\* how many passes have a call that fails.
SceneType ==
    [start : {"deploy", "shared", "restore", "test"}, async : BOOLEAN,
     present : SUBSET Range(Volumes),
     acts : SUBSET {"delete", "deselect", "reselect", "resize", "pods", "destination",
                    "driverFails", "relocate", "failover", "end"},
     calls : SUBSET (Calls \cup {"uploadPV", "uploadPVC", "download"}),
     changes : Nat, faults : Nat]

ASSUME VolRepAssumption == IsInjective(Volumes) /\ Volumes # <<>> /\ Scenes \subseteq SceneType

VARIABLES
    scene,    \* one of Scenes, never changed
    spec,     \* the VRG's specification, with deletionTimestamp as deleted
    vols,     \* every volume: see ProtectedVolume
    cond,     \* the VRG's conditions and status.state
    listed,   \* the order of status.protectedPVCs
    snaps,    \* the volumes with a dry-run snapshot
    changes, faults

volrepVars == <<scene, spec, vols, cond, listed, snaps, changes, faults>>

VolumeSet == Range(Volumes)
May(act) == act \in scene.acts

-----------------------------------------------------------------------------
(* The lists a pass works on.                                               *)

Selected(ws) == {p \in VolumeSet : ws[p].pvc.there /\ ws[p].pvc.selected}

\* A VRG that is being deleted goes by what its status lists.
volRepPVCs(ws) == IF spec.deleted /\ spec.async THEN {p \in Selected(ws) : ws[p].st.listed}
                  ELSE Selected(ws)

\* Entries keep their place; new ones are appended as they are met.
Relisted(old, ws) ==
    LET kept == SelectSeq(old, LAMBDA p : ws[p].st.listed)
    IN kept \o SelectSeq(Volumes, LAMBDA p : ws[p].st.listed /\ p \notin Range(kept))

-----------------------------------------------------------------------------
(* The VRG's conditions, summed up from those of the PVCs.                  *)

\* The scan stops at the first PVC that settles the answer.
aggregateVolRepDataReadyCondition(ws, order) ==
    LET bad == SelectSeq(order, LAMBDA p :
                   ws[p].st.dataReady \in {"None", "Progressing", "Error"})
    IN IF volRepPVCs(ws) = {} THEN "Unused"
       ELSE IF bad = <<>> /\ order # <<>> THEN "Ready"
       ELSE IF bad # <<>> /\ ws[bad[1]].st.dataReady = "Progressing" THEN "Progressing"
       ELSE "Error"

aggregateVolRepDataProtectedCondition(ws, order) ==
    LET bad == SelectSeq(order, LAMBDA p : ws[p].st.dataProtected \in {"None", "Error"})
    IN IF volRepPVCs(ws) = {} THEN "Unused"
       ELSE IF bad # <<>> THEN "Error"
       ELSE IF \E p \in Range(order) : ws[p].st.dataProtected \in {"Replicating", "Ready"}
            THEN "Replicating"
       ELSE "DataProtected"

aggregateVolRepClusterDataProtectedCondition(ws, order) ==
    LET bad == SelectSeq(order, LAMBDA p : ws[p].st.clusterData \notin {"None", "Uploaded"})
    IN IF spec.state = "Secondary" \/ volRepPVCs(ws) = {} THEN "Unused"
       ELSE IF bad # <<>> THEN ws[bad[1]].st.clusterData
       ELSE IF \E p \in Range(order) : ws[p].st.clusterData = "None" THEN "Uploading"
       ELSE "Uploaded"

\* The conditions are summed up together: one generation serves for all.
updateStatusState(c) ==
    IF ~c.current \/ c.dataReady \notin {"Ready", "Unused"} THEN "Unknown"
    ELSE IF spec.state = "Primary" THEN "Primary"
    ELSE IF spec.action # "Relocate" \/ c.dataProtected \in {"Unused", "DataProtected"}
         THEN "Secondary"
    ELSE "Unknown"

updateVRGConditions(ws, order, c) ==
    [c EXCEPT !.dataReady = aggregateVolRepDataReadyCondition(ws, order),
              !.dataProtected = aggregateVolRepDataProtectedCondition(ws, order),
              !.clusterDataProtected = aggregateVolRepClusterDataProtectedCondition(ws, order),
              !.current = TRUE]

\* What a pass makes of the cluster when nothing of it reaches the status.
Unsaved(ws) ==
    [vols |-> [p \in VolumeSet |-> [ws[p] EXCEPT !.st = vols[p].st]],
     cond |-> cond, listed |-> listed, snaps |-> snaps, there |-> TRUE]

\* The status is the last thing a pass writes.  When that fails, everything
\* the pass did to other objects stays and what it learnt is lost.
updateVRGStatus(ws, ss, c, f) ==
    IF f.call = "saveStatus"
    THEN [Unsaved(ws) EXCEPT !.snaps = ss]
    ELSE [Unsaved(ws) EXCEPT !.vols = ws, !.snaps = ss,
                             !.cond = [c EXCEPT !.state = updateStatusState(c)],
                             !.listed = Relisted(listed, ws)]

updateVRGConditionsAndStatus(ws, ss, restore, sums, f) ==
    With([cond EXCEPT !.restore = restore], LAMBDA c :
        updateVRGStatus(ws, ss, IF sums THEN updateVRGConditions(ws, Relisted(listed, ws), c)
                                ELSE c, f))

-----------------------------------------------------------------------------
(* Restoring the PVs and PVCs that the stores hold.                         *)

validateExistingPV(w) ==
    IF w.pv.phase = "Bound" THEN w.pvc.there /\ ~w.pvc.terminating
    ELSE ~spec.async \/ w.pv.restored

validateExistingPVC(w) == w.pvc.bound /\ ~w.pvc.terminating

NoPVC == [there |-> FALSE, bound |-> FALSE, terminating |-> FALSE, selected |-> FALSE,
          owner |-> "none", finalizer |-> FALSE, protected |-> FALSE, archived |-> FALSE,
          resizing |-> FALSE]
NoPV == [phase |-> "None", retain |-> FALSE, retained |-> FALSE, archived |-> FALSE,
         leftBehind |-> FALSE, handle |-> FALSE, restored |-> FALSE]
NoVR == [there |-> FALSE, terminating |-> FALSE, state |-> "None", autoResync |-> FALSE,
         observed |-> FALSE, role |-> "Unknown", cond |-> NoConditions,
         destination |-> "Missing"]

\* The uploaded PV is retained; in the synchronous mode an unbound PV is made
\* available again.
RestorePV(w) ==
    IF w.pv.phase = "None"
    THEN [w EXCEPT !.pv = [NoPV EXCEPT !.phase = "Available", !.retain = TRUE,
                                       !.retained = w.reclaims, !.restored = TRUE]]
    ELSE IF w.pv.phase # "Bound" /\ ~spec.async
    THEN [w EXCEPT !.pv.phase = "Available", !.pv.leftBehind = FALSE, !.pv.restored = TRUE]
    ELSE w

\* A PVC that is there already is replaced by the cleaned copy: what Ramen had
\* put on it is dropped and added again by the passes that follow.
RestorePVC(w) ==
    [w EXCEPT !.pvc = [NoPVC EXCEPT !.there = TRUE, !.selected = TRUE,
                                    !.bound = w.pvc.bound, !.resizing = w.pvc.resizing]]

\* A store that did not give everything; ok unless a call failed on it.
Tried(ws, ok) == [ws |-> ws, ok |-> ok, done |-> FALSE, n |-> 0]

Restored(i, ws) ==
    LET pvs == {p \in VolumeSet : ws[p].s3[i].pv # "none"}
        pvcs == {p \in VolumeSet : ws[p].s3[i].pvc # "none"}
        badPV(p) == ws[p].pv.phase # "None" /\ ~validateExistingPV(ws[p])
        badPVC(p) == ws[p].pvc.there /\ ~validateExistingPVC(ws[p])
        first == [p \in VolumeSet |-> IF p \in pvs /\ ~badPV(p) THEN RestorePV(ws[p]) ELSE ws[p]]
        alike == Cardinality(pvs) = Cardinality(pvcs)
    IN IF \E p \in pvs : badPV(p) THEN Tried(first, FALSE)
       ELSE LET second == [p \in VolumeSet |-> IF p \in pvcs /\ ~badPVC(p)
                                                THEN RestorePVC(first[p]) ELSE first[p]]
            IN IF \E p \in pvcs : badPVC(p) THEN Tried(second, FALSE)
               ELSE IF ~alike THEN Tried(second, TRUE)
               ELSE [ws |-> second, ok |-> TRUE, done |-> TRUE, n |-> Cardinality(pvs) + Cardinality(pvcs)]

\* Store after store until one gives everything it has; the last one that was tried
\* says whether the restore failed.
restorePVsAndPVCsFromS3(ws, f) ==
    LET after[i \in 0..Stores] ==
          IF i = 0 THEN Tried(ws, Stores = 0)
          ELSE IF after[i-1].done THEN after[i-1]
          ELSE IF f.call = "download" /\ f.store = i THEN Tried(after[i-1].ws, FALSE)
          ELSE Restored(i, after[i-1].ws)
    IN after[Stores]

-----------------------------------------------------------------------------
(* One pass.  F[p] is the call that fails on volume p.                      *)

NothingRestored == {"None", "Unused", "Error"}

shouldRestoreClusterData == ~spec.finalSync /\ cond.restore \in NothingRestored

\* Volumes the VRG owns and no longer selects.
pvcsDeselectedUnprotect(ws, F) ==
    LET out == {p \in VolumeSet : /\ ws[p].pvc.there /\ ws[p].pvc.owner = "vrg"
                                  /\ p \notin volRepPVCs(ws)}
        clean(w) == IF VolumeUnprotectionEnabled THEN pvcStatusDeleteIfPresent(w) ELSE w
    IN IF spec.state # "Primary" \/ spec.finalSync THEN ws
       ELSE [p \in VolumeSet |->
               IF p \in volRepPVCs(ws) THEN ws[p]
               ELSE clean(IF p \in out /\ ws[p].pvc.finalizer
                          THEN pvcUnprotectVolRep(spec, ws[p], F[p]).w ELSE ws[p])]

shouldCleanupDryRunSnapshots ==
    ~spec.dryRun /\ (spec.state = "Secondary" \/ spec.action = "Failover")
shouldTakeDryRunSnapshots ==
    spec.state = "Primary" /\ spec.dryRun /\ spec.action = "Failover"

\* What a pass leaves in snaps, and whether it stops there.
DryRunSnapshots(ws, f) ==
    LET cleanup == shouldCleanupDryRunSnapshots
        take == cond.state = "Primary" /\ shouldTakeDryRunSnapshots
        fails == f.call = "snapshot" /\ ((cleanup /\ snaps # {}) \/ take)
    IN [snaps |-> IF fails THEN snaps ELSE IF cleanup THEN {}
                  ELSE IF take THEN volRepPVCs(ws) ELSE snaps,
        go |-> ~fails]

reconcileVolRepsAsPrimary(ws, go, F) ==
    [p \in VolumeSet |-> IF go /\ p \in volRepPVCs(ws)
                         THEN processPVCAsPrimary(spec, ws[p], F[p]).w ELSE ws[p]]

\* What a pass makes of the volumes ws, the snapshots ss and the condition
\* ClusterDataReady, and whether it sums the other conditions up.
Outcome(ws, ss, restore, sums) == [ws |-> ws, ss |-> ss, restore |-> restore, sums |-> sums]

reconcileAsPrimary(ws, F, f) ==
    With(DryRunSnapshots(ws, f), LAMBDA dry :
        Outcome(reconcileVolRepsAsPrimary(ws, dry.go, F), dry.snaps, "Restored", TRUE))

processAsPrimary(f, F) ==
    With(IF shouldRestoreClusterData THEN restorePVsAndPVCsFromS3(vols, f)
         ELSE [ws |-> vols, ok |-> TRUE, n |-> 0], LAMBDA r :
      IF ~r.ok THEN Outcome(r.ws, snaps, "Error", FALSE)
      ELSE IF r.n # 0 THEN Outcome(r.ws, snaps, "Restored", TRUE)
      ELSE reconcileAsPrimary(pvcsDeselectedUnprotect(r.ws, F), F, f))

reconcileVolRepsAsSecondary(ws, go, F) ==
    [p \in VolumeSet |-> IF go /\ p \in volRepPVCs(ws)
                         THEN processPVCAsSecondary(spec, ws[p], F[p]).w ELSE ws[p]]

\* The first pass as Secondary saves the reset and sums nothing up.
processAsSecondary(f, F) ==
    With(DryRunSnapshots(vols, f), LAMBDA dry :
        Outcome(reconcileVolRepsAsSecondary(vols, dry.go, F), dry.snaps, "Unused",
                cond.restore = "Unused"))

deleteLeftBehindPVs(ws) ==
    IF spec.async \/ spec.state # "Secondary" THEN ws
    ELSE [p \in VolumeSet |-> IF ws[p].pv.leftBehind /\ ws[p].pv.phase = "Released"
                              THEN [ws[p] EXCEPT !.pv = NoPV] ELSE ws[p]]

deleteClusterDataInS3Stores(ws) ==
    IF spec.state # "Primary" THEN ws
    ELSE [p \in VolumeSet |-> [ws[p] EXCEPT !.s3 = Emptied]]

\* Kubernetes collects the VolumeReplications with the VRG that owns them.
Collected(ws) == [p \in VolumeSet |->
    IF ws[p].vr.there THEN [ws[p] EXCEPT !.vr.terminating = TRUE] ELSE ws[p]]

reconcileVRsForDeletion(us, F) ==
    [p \in VolumeSet |-> IF p \in volRepPVCs(us) THEN pvcsUnprotectVolRep(spec, us[p], F[p])
                         ELSE Stop(us[p])]

\* The VRG goes when every volume is let go.  Nothing of a pass over a VRG that
\* is being deleted is saved in its status.
DeletionEnds(r, ws, f) ==
    IF (\E p \in VolumeSet : r[p].res = "requeue") \/ (spec.state = "Primary" /\ f.call = "deleteS3")
    THEN Unsaved(ws)
    ELSE [Unsaved(Collected(deleteClusterDataInS3Stores(deleteLeftBehindPVs(ws))))
            EXCEPT !.there = FALSE]

processForDeletion(f, F) ==
    With(reconcileVRsForDeletion(pvcsDeselectedUnprotect(vols, F), F), LAMBDA r :
        DeletionEnds(r, [p \in VolumeSet |-> r[p].w], f))

\* The faults of the whole VRG; the others belong to one volume.
VRGFaults == {"saveStatus", "snapshot", "download"}

At(f, q) == [p \in VolumeSet |-> IF p = q THEN f ELSE NoFault]

\* What the pass makes of the cluster when the call f fails, on volume q.
processVRG(f, q) ==
    IF spec.deleted THEN processForDeletion(f, At(f, q))
    ELSE With(IF spec.state = "Primary" THEN processAsPrimary(f, At(f, q))
              ELSE processAsSecondary(f, At(f, q)),
              LAMBDA o : updateVRGConditionsAndStatus(o.ws, o.ss, o.restore, o.sums, f))

Reconcile(f, q) ==
    /\ spec.there
    /\ f # NoFault => faults < scene.faults /\ f.call \in scene.calls
    /\ f.call \in VRGFaults \cup {"none"} => q = Volumes[1]
    /\ faults' = IF f = NoFault THEN faults ELSE faults + 1
    /\ \E r \in {processVRG(f, q)} :
          /\ vols' = r.vols /\ cond' = r.cond /\ listed' = r.listed /\ snaps' = r.snaps
          /\ spec' = [spec EXCEPT !.there = r.there]
    /\ UNCHANGED <<scene, changes>>

-----------------------------------------------------------------------------
(* The hub: the specifications the DRPC gives the VRG in turn.              *)

Change(s) ==
    /\ changes < scene.changes
    /\ changes' = changes + 1
    /\ spec' = s
    /\ cond' = [cond EXCEPT !.current = FALSE]
    /\ UNCHANGED <<scene, vols, listed, snaps, faults>>

HubFinalSync ==
    /\ spec.there /\ ~spec.deleted /\ spec.state = "Primary" /\ ~spec.dryRun /\ ~spec.finalSync
    /\ May("relocate")
    /\ Change([spec EXCEPT !.finalSync = TRUE, !.action = "Relocate"])

HubDemotes(action) ==
    /\ spec.there /\ ~spec.deleted /\ spec.state = "Primary"
    /\ IF action = "Relocate" THEN spec.finalSync ELSE May("failover")
    /\ Change([spec EXCEPT !.state = "Secondary", !.action = action, !.finalSync = FALSE,
                           !.dryRun = FALSE])

HubPromotes(action) ==
    /\ spec.there /\ ~spec.deleted /\ spec.state = "Secondary"
    /\ Change([spec EXCEPT !.state = "Primary", !.action = action, !.testFailover = FALSE])

\* A test failover is turned into a real one.
HubKeepsTest ==
    /\ spec.there /\ ~spec.deleted /\ spec.dryRun
    /\ Change([spec EXCEPT !.dryRun = FALSE, !.testFailover = FALSE])

HubDeletes ==
    /\ May("end") /\ spec.there /\ ~spec.deleted
    /\ Change([spec EXCEPT !.deleted = TRUE])

-----------------------------------------------------------------------------
(* The user, the pods and Kubernetes.                                       *)

Volume(p, w) ==
    /\ vols' = [vols EXCEPT ![p] = w]
    /\ UNCHANGED <<scene, spec, cond, listed, snaps, changes, faults>>

UserDeletesPVC(p) ==
    /\ May("delete") /\ vols[p].pvc.there /\ ~vols[p].pvc.terminating
    /\ Volume(p, [vols[p] EXCEPT !.pvc.terminating = TRUE])

UserDeselectsPVC(p) ==
    /\ May("deselect") /\ vols[p].pvc.selected
    /\ Volume(p, [vols[p] EXCEPT !.pvc.selected = FALSE])

\* Once the PVC has been let go.
UserReselectsPVC(p) ==
    /\ May("reselect") /\ vols[p].pvc.there /\ ~vols[p].pvc.selected /\ ~vols[p].pvc.finalizer
    /\ Volume(p, [vols[p] EXCEPT !.pvc.selected = TRUE])

UserResizesPVC(p) ==
    /\ May("resize") /\ vols[p].pvc.bound /\ ~vols[p].pvc.resizing
    /\ vols[p].pvc.archived
    /\ Volume(p, [vols[p] EXCEPT !.pvc.resizing = TRUE, !.pvc.archived = FALSE,
                                 !.s3 = Outdated(vols[p].s3)])

DriverResized(p) ==
    /\ vols[p].pvc.resizing
    /\ Volume(p, [vols[p] EXCEPT !.pvc.resizing = FALSE, !.pv.archived = FALSE,
                                 !.s3 = Outdated(vols[p].s3)])

\* A pod is not started on a PVC that is being deleted.
PodStarts(p) ==
    /\ May("pods") /\ vols[p].pvc.bound /\ ~vols[p].pvc.terminating /\ ~vols[p].inUse
    /\ Volume(p, [vols[p] EXCEPT !.inUse = TRUE])

PodStops(p) ==
    /\ vols[p].inUse
    /\ Volume(p, [vols[p] EXCEPT !.inUse = FALSE])

\* Kubernetes drops a deleted PVC that nothing holds; its PV goes by the
\* reclaim policy, and with Delete the driver deletes the volume.
PVCRemoved(p) ==
    /\ vols[p].pvc.terminating /\ ~vols[p].pvc.finalizer /\ ~vols[p].inUse
    /\ Volume(p, [vols[p] EXCEPT !.pvc = NoPVC,
                    !.pv = IF @.phase # "Bound" THEN @
                           ELSE IF @.retain THEN [@ EXCEPT !.phase = "Released"] ELSE NoPV])

PVCBinds(p) ==
    /\ vols[p].pvc.there /\ ~vols[p].pvc.bound /\ vols[p].pv.phase = "Available"
    /\ Volume(p, [vols[p] EXCEPT !.pvc.bound = TRUE, !.pv.phase = "Bound"])

-----------------------------------------------------------------------------
(* The storage driver.                                                      *)

\* What it may say of a request for each role.
Report(v, c, d, r) == [Validated |-> v, Completed |-> c, Degraded |-> d, Resyncing |-> r]

Succeeds(state) ==
    IF state = "Primary" THEN {Report("True", "True", "False", "False")}
    ELSE {Report("Missing", "True", "False", "False"), Report("Missing", "True", "True", "True")}

Fails(state) ==
    IF state = "Primary" THEN Report("False", "False", "False", "False")
    ELSE Report("Missing", "False", "True", "False")

DriverReports(p, r) ==
    /\ vols[p].vr.there /\ ~vols[p].vr.terminating
    /\ vols[p].vr.cond # r \/ ~vols[p].vr.observed
    /\ vols' = [vols EXCEPT ![p].vr.observed = TRUE, ![p].vr.cond = r,
                            ![p].vr.role = IF r["Completed"] = "True" THEN vols[p].vr.state ELSE @]
    /\ UNCHANGED <<scene, spec, cond, listed, snaps, changes>>

DriverSucceeds(p) ==
    /\ \E r \in Succeeds(vols[p].vr.state) : DriverReports(p, r)
    /\ UNCHANGED faults

\* A failure of the driver counts as one of the faults.
DriverFails(p) ==
    /\ May("driverFails") /\ faults < scene.faults
    /\ DriverReports(p, Fails(vols[p].vr.state))
    /\ faults' = faults + 1

DriverKnowsDestination(p) ==
    /\ May("destination") /\ vols[p].vr.there /\ vols[p].vr.state = "Primary"
    /\ vols[p].vr.destination # "True"
    /\ \E d \in {"True", "False"} \ {vols[p].vr.destination} :
          Volume(p, [vols[p] EXCEPT !.vr.destination = d])

\* What the VR said last stays readable in the model after it has gone.
DriverReleasesVR(p) ==
    /\ vols[p].vr.terminating
    /\ Volume(p, [vols[p] EXCEPT !.vr.there = FALSE, !.vr.terminating = FALSE])

-----------------------------------------------------------------------------
(* The specification.                                                       *)

\* "deploy": the application runs and nothing is protected yet.  "restore" and
\* "test": the peer's objects are in the stores and nothing is here yet.
\* "shared": as "deploy", and the last PVC is owned by another resource.
\* reclaims: the user's own reclaim policy is Delete, so Ramen retains the PV.
Running == {"deploy", "shared"}

InitVolume(start, present, shared, reclaims) ==
    [pvc |-> IF start \in Running /\ present
             THEN [NoPVC EXCEPT !.there = TRUE, !.bound = TRUE, !.selected = TRUE,
                                !.owner = IF shared THEN "other" ELSE "none"]
             ELSE NoPVC,
     pv |-> IF start \in Running /\ present THEN [NoPV EXCEPT !.phase = "Bound", !.retain = ~reclaims] ELSE NoPV,
     vr |-> NoVR, st |-> NoStatus, reclaims |-> reclaims, inUse |-> start \in Running /\ present,
     s3 |-> IF start \in Running \/ ~present THEN Emptied
            ELSE [i \in 1..Stores |-> [pv |-> "peer", pvc |-> "peer"]]]

InitSpec(start) ==
    [there |-> TRUE, async |-> scene.async, state |-> "Primary", finalSync |-> FALSE,
     action |-> IF start \in Running THEN "None" ELSE "Failover",
     dryRun |-> start = "test", testFailover |-> start = "test", deleted |-> FALSE]

NoCond == [restore |-> "None", dataReady |-> "None", dataProtected |-> "None",
           clusterDataProtected |-> "None", state |-> "Unknown", current |-> FALSE]

InitVolRep ==
    /\ scene \in Scenes
    /\ spec = InitSpec(scene.start)
    /\ \E reclaims \in BOOLEAN : vols = [p \in VolumeSet |->
          InitVolume(scene.start, p \in scene.present,
                     scene.start = "shared" /\ p = Volumes[Len(Volumes)], reclaims)]
    /\ cond = NoCond /\ listed = <<>> /\ snaps = {} /\ changes = 0 /\ faults = 0

Hub == \/ HubFinalSync \/ HubKeepsTest \/ HubDeletes
       \/ \E a \in {"Relocate", "Failover"} : HubDemotes(a) \/ HubPromotes(a)

Outside(p) ==
    \/ UserDeletesPVC(p) \/ UserDeselectsPVC(p) \/ UserReselectsPVC(p) \/ UserResizesPVC(p)
    \/ PodStarts(p) \/ PodStops(p) \/ PVCRemoved(p) \/ PVCBinds(p)
    \/ DriverResized(p) \/ DriverSucceeds(p) \/ DriverFails(p) \/ DriverKnowsDestination(p)
    \/ DriverReleasesVR(p)

NextVolRep ==
    \/ \E f \in Faults, q \in VolumeSet : Reconcile(f, q)
    \/ Hub
    \/ \E p \in VolumeSet : Outside(p)

SpecVolRep == InitVolRep /\ [][NextVolRep]_volrepVars
-----------------------------------------------------------------------------
(* Fairness: the controller is requeued until nothing is left to do, calls  *)
(* do not fail for ever, pods of a deleted application end, and the driver  *)
(* answers every request with success in the end.                           *)

CleanPass == Reconcile(NoFault, Volumes[1])

\* A pass would change something: weak fairness of CleanPass, with its ENABLED
\* written out.
PassPending ==
    spec.there /\ processVRG(NoFault, Volumes[1])
        # [vols |-> vols, cond |-> cond, listed |-> listed, snaps |-> snaps, there |-> TRUE]

DriverRepairs(p) == vols[p].vr.cond["Completed"] # "True" /\ DriverSucceeds(p)
PodEnds(p) == vols[p].pvc.terminating /\ PodStops(p)

FairVolRep ==
    /\ []<>~PassPending \/ []<><<CleanPass>>_volrepVars
    /\ \A p \in VolumeSet :
          /\ WF_volrepVars(PodEnds(p)) /\ WF_volrepVars(PVCRemoved(p))
          /\ WF_volrepVars(PVCBinds(p)) /\ WF_volrepVars(DriverReleasesVR(p))
          /\ WF_volrepVars(DriverResized(p)) /\ WF_volrepVars(DriverRepairs(p))

FairSpecVolRep == SpecVolRep /\ FairVolRep

-----------------------------------------------------------------------------
(* Properties.                                                              *)

\* The types of the volumes, and a PV is bound exactly when its PVC is:
\* restorePVsAndPVCsFromS3 never leaves one side of a pair bound.
VolRepTypeOK ==
    \A p \in VolumeSet : /\ vols[p] \in VolumeType
                         /\ vols[p].pvc.bound <=> vols[p].pv.phase = "Bound"

\* isArchivedAlready lets a pass skip the upload: whenever both annotations of
\* a live volume say so, every S3 store really holds both objects as they are
\* now, whatever call failed before and however often the PVC was resized.
ArchivedIsStored ==
    \A p \in VolumeSet : LET w == vols[p] IN
        isArchivedAlready(w) /\ w.pvc.selected /\ ~w.pvc.terminating /\ ~spec.deleted =>
            \A i \in 1..Stores : w.s3[i] = [pv |-> "current", pvc |-> "current"]

\* A PV that the user wants retained stays retained through protection,
\* restore and release (undoPVRetention): Ramen gives back what it changed.
UserPolicyKept ==
    \A p \in VolumeSet : ~vols[p].reclaims /\ vols[p].pv.phase # "None" => vols[p].pv.retain

ContractVolume(w) ==
    [role |-> IF ~w.vr.there THEN "none" ELSE IF w.vr.terminating THEN "leaving"
              ELSE IF w.vr.state = "Primary" THEN "primary"
              ELSE IF checkVRStatus(spec, w.vr, "Secondary").ready THEN "following" ELSE "demoted",
     held |-> w.pvc.finalizer,
     used |-> w.inUse,
     ended |-> \/ spec.deleted
               \/ /\ VolumeUnprotectionEnabled /\ spec.state = "Primary" /\ ~spec.finalSync
                  /\ w.pvc.terminating \/ ~w.pvc.selected,
     renewed |-> w.pvc.there /\ w.pvc.owner = "none" /\ ~w.pvc.finalizer,
     stored |-> w.pv.phase # "None"]

Contract == INSTANCE VolumeContract
    WITH ContractVolumes <- VolumeSet, vol <- [p \in VolumeSet |-> ContractVolume(vols[p])]

\* The passes, the user, the pods and the driver together keep the contract of
\* VolumeContract: no volume is demoted in use, let go while it is replicated,
\* destroyed while held, or dropped from replication before it follows.
ImplementsContract == Contract!SpecContract

\* A deleted PVC of a VRG that stays Secondary is let go in the end, with its
\* VolumeReplication (reconcilePVCVRAsSecondary, repeated).
SecondaryReleases ==
    \A p \in VolumeSet :
        <>[](spec.there /\ ~spec.deleted /\ spec.state = "Secondary")
          => [](vols[p].pvc.terminating => <>(~vols[p].pvc.there))

=============================================================================
