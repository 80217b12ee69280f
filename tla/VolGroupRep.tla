----------------------------- MODULE VolGroupRep -----------------------------
(***************************************************************************)
(* Volumes replicated as one consistency group.  A VolumeGroupReplication  *)
(* (VGR) stands for the VolumeReplications of its member PVCs.  It belongs *)
(* to one VRG, or it is global: shared by the VRGs of several applications *)
(* on the cluster, which have to agree before any of them changes it.      *)
(*                                                                         *)
(* The passes of the VRGs are steps of their own, each seeing only what    *)
(* the other VRGs have saved in their specifications and conditions.       *)
(***************************************************************************)
EXTENDS ProtectedVolume, Functions

CONSTANTS
    Members,          \* the PVCs of the group, in the order the API server lists them
    GroupScenes       \* the situations to explore: see GroupSceneType

\* owner: the VRG that selects each PVC.  With a global group every VRG has
\* its own PVCs in it.  external: the storage class is offloaded, so its storage
\* keeps what the stores would hold.  acts: what the others may do; calls: the calls that may
\* fail; changes, faults: how often the hub changes a VRG's specification and
\* how many passes have a call that fails.
GroupSceneType ==
    [global : BOOLEAN, external : BOOLEAN, owner : [Range(Members) -> Range(Members)],
     acts : SUBSET {"delete", "undeploy", "deselect", "failover", "relocate", "promote", "end", "destination", "pods"},
     calls : SUBSET (Calls \cup {"uploadPV", "uploadPVC", "uploadVGRC", "uploadVGR", "archiveVGR",
                                 "archiveVGRC", "labelPVC"}),
     changes : Nat, faults : Nat]

ASSUME GroupAssumption ==
    /\ Members \in Seq(Range(Members)) /\ IsInjective(Members) /\ Members # <<>>
    /\ GroupScenes \subseteq GroupSceneType
    /\ \A s \in GroupScenes : ~s.global => \A p, q \in Range(Members) : s.owner[p] = s.owner[q]

VARIABLES
    gscene,   \* one of GroupScenes, never changed
    vrgs,     \* every VRG: its specification and its GlobalSecondary condition
    members,  \* every PVC: see ProtectedVolume; label is its consistency-group label
    group,    \* the VGR with its content (VGRC) and their copies in the stores
    gchanges, gfaults

groupVars == <<gscene, vrgs, members, group, gchanges, gfaults>>

MemberSet == Range(Members)
Apps == {gscene.owner[p] : p \in MemberSet}
PVCsOf(a) == {p \in MemberSet : gscene.owner[p] = a}
Siblings(a) == {b \in Apps \ {a} : vrgs[b].there}
GroupMay(act) == act \in gscene.acts

-----------------------------------------------------------------------------
(* Agreement among the VRGs that share a global group.                      *)

isGlobalStateInConsensus(a) == \A b \in Siblings(a) : vrgs[b].state = vrgs[a].state

isSiblingReadyForGlobalSecondary(b) == vrgs[b].unused = "True" /\ vrgs[b].fresh

\* The other VRGs are not asked.
areSiblingVRGsReadyForGlobalSecondary_Unasked(a) == TRUE

areSiblingVRGsReadyForGlobalSecondary(a) ==
    \A b \in Siblings(a) : vrgs[b].deleted \/ isSiblingReadyForGlobalSecondary(b)

\* A VRG that has gone already counts as one that was not deleted.
isGlobalDeleteInConsensus_AllThere(a) == \A b \in Apps \ {a} : vrgs[b].there /\ vrgs[b].deleted

isGlobalDeleteInConsensus(a) == \A b \in Siblings(a) : vrgs[b].deleted

-----------------------------------------------------------------------------
(* The VGR.  res is how the pass goes on; the verdict goes to every PVC.    *)

Handled(g, verdict, res) == [g |-> g, verdict |-> verdict, res |-> res]
Said(reason) == Verdict(FALSE, reason, "Keep")
Silent == Said("Keep")

OutdatedGroup(g) ==
    [g EXCEPT !.archived = FALSE,
              !.s3 = [i \in 1..Stores |-> [g.s3[i] EXCEPT !.vgr =
                                              IF @ = "current" THEN "old" ELSE @]]]

\* The storage of a global group reports no conditions: its role is believed.
validateGlobalVGRStatus(v, g) ==
    Verdict(TRUE, IF v.state = "Primary" THEN "Ready" ELSE "Replicated", "DataProtected")

checkVGRStatus(v, g, state) ==
    IF gscene.global /\ g.role = v.state THEN validateGlobalVGRStatus(v, g)
    ELSE checkVRStatus(v, g, state)

createVGR(v, g, state) ==
    [g EXCEPT !.there = TRUE, !.terminating = FALSE, !.state = state, !.autoResync = FALSE,
              !.observed = FALSE, !.role = "Unknown", !.cond = NoConditions,
              !.destination = "Missing", !.refs = {}, !.content = FALSE, !.archived = FALSE,
              !.contentArchived = FALSE, !.handle = FALSE]

Judged(g, verdict) == Handled(g, verdict, IF verdict.ready THEN "go" ELSE "stop")

updateVGR(v, g, state, f) ==
    IF g.state = state /\ g.autoResync = autoResync(v, state)
    THEN Judged(g, checkVGRStatus(v, g, state))
    ELSE IF f.call = "writeVR" THEN Handled(g, Said("Error"), "requeue")
    ELSE Handled(OutdatedGroup([g EXCEPT !.state = state, !.autoResync = autoResync(v, state),
                                         !.observed = FALSE, !.cond = Aged(g.cond)]),
                 Said("Progressing"), "stop")

\* The PVCs are labelled with the VGR's name first; nobody reads that label, but
\* a failure to write it ends the pass over the group without a word.
createOrUpdateVGR(v, g, state, f) ==
    IF f.call = "labelPVC" THEN Handled(g, Silent, "requeue")
    ELSE IF f.call = "getVR" THEN Handled(g, Said("Error"), "requeue")
    ELSE IF g.there THEN updateVGR(v, g, state, f)
    ELSE IF f.call = "writeVR" THEN Handled(g, Said("Error"), "requeue")
    ELSE Handled(createVGR(v, g, state), Said("Progressing"), "stop")

\* As for a single volume: the pass is repeated until the VGR has gone.
deleteVGR(g, f) ==
    IF ~g.there THEN Go(g)
    ELSE IF f.call = "writeVR" THEN Requeue(g)
    ELSE Requeue([g EXCEPT !.terminating = TRUE])

-----------------------------------------------------------------------------
(* The copies of the VGR and of its content in the S3 stores.               *)

annotateWithDestinationVolumeGroupHandle(g, f) ==
    IF ~g.there THEN Requeue(g)
    ELSE IF g.destination = "Missing" THEN Go(g)
    ELSE IF g.destination = "False" \/ ~g.content THEN Requeue(g)
    ELSE IF g.handle THEN Go(g)
    ELSE IF f.call = "handle" THEN Requeue(g)
    ELSE Go([g EXCEPT !.handle = TRUE, !.contentArchived = FALSE,
                      !.s3 = [i \in 1..Stores |-> [g.s3[i] EXCEPT !.vgrc =
                                                     IF @ = "current" THEN "old" ELSE @]]])

\* Store by store, the content and then the VGR, until the call that fails.
UploadVGRandVGRCtoS3Stores(g, f) ==
    LET last == IF f.call \in {"uploadVGRC", "uploadVGR"} THEN f.store ELSE Stores + 1
    IN [g EXCEPT !.s3 = [i \in 1..Stores |->
          [vgrc |-> IF i < last \/ (i = last /\ f.call = "uploadVGR") THEN "current" ELSE g.s3[i].vgrc,
           vgr |-> IF i < last THEN "current" ELSE g.s3[i].vgr]]]

addArchivedAnnotationForVGRandVGRC(g, f) ==
    IF f.call = "archiveVGR" THEN Requeue(g)
    ELSE IF f.call = "archiveVGRC" THEN Requeue([g EXCEPT !.archived = TRUE, !.contentArchived = FALSE])
    ELSE Go([g EXCEPT !.archived = TRUE, !.contentArchived = TRUE])

\* The check of the content's annotation left out.
isVGRandVGRCArchivedAlready_VGROnly(g) == g.content /\ g.archived

isVGRandVGRCArchivedAlready(g) == g.content /\ g.archived /\ g.contentArchived

uploadVGRandVGRCtoS3Stores(v, g, f) ==
    IF v.dryRun THEN Go(g)
    ELSE IF ~g.there THEN Requeue(g)
    ELSE IF gscene.external THEN Go(g)
    ELSE IF isVGRandVGRCArchivedAlready(g) THEN Go(g)
    ELSE IF ~g.content THEN Requeue(g)
    ELSE IF f.call \in {"uploadVGRC", "uploadVGR"} THEN Requeue(UploadVGRandVGRCtoS3Stores(g, f))
    ELSE addArchivedAnnotationForVGRandVGRC(UploadVGRandVGRCtoS3Stores(g, f), f)

\* A PV's handle comes from the mapping in the content's status.
annotateWithDestinationVolumeHandleForVolGroupRep(w, g, f) ==
    IF ~g.there THEN Requeue(w)
    ELSE IF g.destination = "Missing" THEN Go(w)
    ELSE IF g.destination = "False" \/ ~g.content THEN Requeue(w)
    ELSE IF w.pv.handle THEN Go(w)
    ELSE IF f.call = "handle" THEN Requeue(w)
    ELSE Go([w EXCEPT !.pv.handle = TRUE, !.pv.archived = FALSE, !.s3 = Outdated(w.s3)])

-----------------------------------------------------------------------------
(* A pass of VRG a.  r holds what it has made of the PVCs (ws), of the VGR  *)
(* (g), what it says in its GlobalSecondary condition (unused, "Keep" when   *)
(* it does not touch it), and whether it asked to be requeued (again).      *)
(* F[p] is the call that fails on PVC p.                                    *)

Again(r) == [r EXCEPT !.again = TRUE]

\* The outcome of a step on one PVC, and on several that do not depend on each other.
Put(r, p, out) == [r EXCEPT !.ws[p] = out.w, !.again = @ \/ out.res = "requeue"]

PutAll(r, out) ==
    [r EXCEPT !.ws = [p \in MemberSet |-> IF p \in DOMAIN out THEN out[p].w ELSE r.ws[p]],
              !.again = @ \/ \E p \in DOMAIN out : out[p].res = "requeue"]

OnEach(r, ps, Step(_, _)) ==
    LET after[i \in 0..Len(Members)] ==
          IF i = 0 THEN r
          ELSE With(after[i-1], LAMBDA x : IF Members[i] \in ps THEN Step(x, Members[i]) ELSE x)
    IN after[Len(Members)]

\* A PVC of the VRG is labelled when it is listed, unless it is on its way out.
addVolRepConsistencyGroupLabel(w) ==
    IF w.label # "none" /\ w.pvc.terminating THEN w ELSE [w EXCEPT !.label = "member"]

OrError(out) == IF out.res = "go" THEN out ELSE Requeue(DataReady(out.w, "Error"))

resetCGLabelValue(w, f) ==
    IF f.call = "updatePVC" THEN Requeue(DataReady(w, "Error"))
    ELSE Requeue(DataReady([w EXCEPT !.label = "reset"], "Error"))

\* The PVC's label goes with its finalizer.
PreparedForDeletion(v, w, f) ==
    Then(preparePVCForVRDeletion(v, w, f), LAMBDA x : Go([x EXCEPT !.label = "none"]))

ensurePVCUnprotected(p, g) == ~g.terminating /\ p \notin g.refs

\* Out of the group by its label first; the VGR goes with its last member.
pvcUnprotectVolGroupRep(v, r, p, f) ==
    IF r.ws[p].label # "reset" THEN Put(r, p, resetCGLabelValue(r.ws[p], f))
    ELSE IF f.call = "getVR" THEN Put(r, p, Requeue(DataReady(r.ws[p], "Error")))
    ELSE IF r.g.there /\ ~ensurePVCUnprotected(p, r.g)
    THEN Put(r, p, Requeue(DataReady(r.ws[p], "Progressing")))
    ELSE IF r.g.there /\ r.g.refs = {}
    THEN Put([r EXCEPT !.g = deleteVGR(r.g, f).w], p, Requeue(DataReady(r.ws[p], "Error")))
    ELSE Put(r, p, OrError(PreparedForDeletion(v, r.ws[p], f)))

GroupUnprotect(v, r, p, f) ==
    IF ~VolumeUnprotectionEnabled THEN r
    ELSE With(pvAndPvcObjectReplicasDelete(r.ws[p], f), LAMBDA out :
           IF out.res # "go" THEN Put(r, p, out)
           ELSE pvcUnprotectVolGroupRep(v, Put(r, p, out), p, f))

UnprotectEach(v, r, ps, F) == OnEach(r, ps, LAMBDA x, p : GroupUnprotect(v, x, p, F[p]))

GroupSelected(a, ws) == {p \in PVCsOf(a) : ws[p].pvc.there /\ ws[p].pvc.selected}

Deselected(a, ws) ==
    {p \in PVCsOf(a) : /\ ws[p].pvc.there /\ ~ws[p].pvc.selected
                       /\ ws[p].pvc.owner = "vrg" /\ ws[p].pvc.finalizer}

GroupDeselectedUnprotect(a, r, F) ==
    IF vrgs[a].state # "Primary" \/ vrgs[a].finalSync THEN r
    ELSE With(UnprotectEach(vrgs[a], r, Deselected(a, r.ws), F), LAMBDA done :
           [done EXCEPT !.ws = [p \in MemberSet |->
               IF p \in PVCsOf(a) \ GroupSelected(a, r.ws) /\ VolumeUnprotectionEnabled
               THEN pvcStatusDeleteIfPresent(done.ws[p]) ELSE done.ws[p]]])

\* The PVCs that are ready to be handled with their group, and the others.
Prepared(v, w, f) ==
    Then(updateProtectedPVCs(v, w, f), LAMBDA x : preparePVCForVRProtection(x, f))

\* One after the other, until one fails.
LetGoNext(v, r, p, f) ==
    IF r.again THEN r ELSE Put(r, p, PreparedForDeletion(v, r.ws[p], f))

LetGo(v, r, ps, F) ==
    [OnEach([r EXCEPT !.again = FALSE], ps, LAMBDA x, p : LetGoNext(v, x, p, F[p]))
       EXCEPT !.again = @ \/ r.again]

Concluded(r, ps, h) ==
    [r EXCEPT !.g = h.g, !.again = @ \/ h.res = "requeue",
              !.ws = [p \in MemberSet |->
                         IF p \in ps /\ h.verdict.dataReady # "Keep"
                         THEN Applied(r.ws[p], h.verdict) ELSE r.ws[p]]]

\* The uploads do not wait for the VGR to become primary.
ProtectMember(v, w, g, f) ==
    Then(annotateWithDestinationVolumeHandleForVolGroupRep(w, g, f),
         LAMBDA x : uploadPVandPVCtoS3Stores(v, x, f))

ProtectEach(v, r, ps, F) ==
    With([p \in ps |-> ProtectMember(v, r.ws[p], r.g, F[p])], LAMBDA out : PutAll(r, out))

StoreGroup(v, r, f) ==
    With(Then(annotateWithDestinationVolumeGroupHandle(r.g, f),
              LAMBDA g : IF gscene.global THEN Go(g) ELSE uploadVGRandVGRCtoS3Stores(v, g, f)),
         LAMBDA out : [r EXCEPT !.g = out.w, !.again = @ \/ out.res # "go"])

reconcileVolGroupRepsAsPrimary(a, r, ps, f, F) ==
    IF gscene.global /\ ~isGlobalStateInConsensus(a) THEN Again(r)
    ELSE IF ps = {} THEN r
    ELSE With(createOrUpdateVGR(vrgs[a], r.g, "Primary", f), LAMBDA h :
           IF h.res = "requeue" THEN Concluded(r, ps, h)
           ELSE StoreGroup(vrgs[a], ProtectEach(vrgs[a], Concluded(r, ps, h), ps, F), f))

\* As a VRG gets to the group: nothing may be left of it, or it is going.
reconcileMissingVGR(v, r, ps, f, F) ==
    IF f.call = "getVR" \/ (r.g.there /\ r.g.terminating) THEN Again(r)
    ELSE LetGo(v, r, ps, F)

VGRIsThere(r, f) == f.call # "getVR" /\ r.g.there /\ ~r.g.terminating

\* Their places in the list.
InUse(v, ws, ps) ==
    {i \in DOMAIN Members : Members[i] \in ps /\ ~isPVCReadyForSecondary(v, ws[Members[i]])}

OutOf(res, r) == [r |-> r, res |-> res]
Tells(r, unused) == [r EXCEPT !.unused = IF gscene.global THEN unused ELSE @]

reconcileVGRAsSecondary(a, r, ps, f) ==
    With(InUse(vrgs[a], r.ws, ps), LAMBDA busy :
        IF busy # {}
        THEN LET first == Members[CHOOSE i \in busy : \A j \in busy : i <= j]
             IN OutOf("requeue", Again([Tells(r, "False") EXCEPT
                                           !.ws[first] = DataReady(@, "Progressing")]))
        ELSE IF gscene.global /\ ~areSiblingVRGsReadyForGlobalSecondary(a)
        THEN OutOf("requeue", Again(Tells(r, "True")))
        ELSE With(createOrUpdateVGR(vrgs[a], r.g, "Secondary", f), LAMBDA h :
                OutOf(h.res, Concluded(Tells(r, "True"), ps, h))))

\* A global VGR stays; the VRG only lets its own PVCs go.
undoPVCFinalizersAndPVRetentionForVGR(v, r, ps, f, F) ==
    With(IF gscene.global THEN Go(r.g) ELSE deleteVGR(r.g, f), LAMBDA d :
        IF d.res = "go" THEN LetGo(v, r, ps, F) ELSE Again([r EXCEPT !.g = d.w]))

\* A PVC whose label was reset is looked up under a name no VGR has, and is
\* treated as one whose VGR is missing; a global VGR is found by every label.
Strays(r, ps) == {p \in ps : r.ws[p].label = "reset" /\ ~gscene.global}

DemoteAndLetGo(a, r, ps, f, F) ==
    IF ps = {} THEN r
    ELSE IF ~VGRIsThere(r, f) THEN Again(reconcileMissingVGR(vrgs[a], r, ps, f, F))
    ELSE With(reconcileVGRAsSecondary(a, r, ps, f), LAMBDA s :
           IF s.res # "go" THEN s.r
           ELSE undoPVCFinalizersAndPVRetentionForVGR(vrgs[a], s.r, ps, f, F))

\* A VRG without claims says nothing to the others.
reconcileVolGroupRepsAsSecondary_Silent(a, r, ps, f, F) ==
    IF ps = {} \/ (gscene.global /\ ~isGlobalStateInConsensus(a)) THEN Again(r)
    ELSE DemoteAndLetGo(a, r, ps, f, F)

reconcileVolGroupRepsAsSecondary(a, r, ps, f, F) ==
    IF gscene.global /\ ps = {} THEN [r EXCEPT !.unused = "True"]
    ELSE IF gscene.global /\ ~isGlobalStateInConsensus(a) THEN Again(r)
    ELSE DemoteAndLetGo(a, LetGo(vrgs[a], r, Strays(r, ps), F), ps \ Strays(r, ps), f, F)

-----------------------------------------------------------------------------
(* The passes.                                                              *)

Start(a) ==
    [ws |-> [p \in MemberSet |->
               IF p \in GroupSelected(a, members) /\ ~vrgs[a].deleted
               THEN addVolRepConsistencyGroupLabel(members[p]) ELSE members[p]],
     g |-> group, unused |-> "Keep", again |-> FALSE]

\* The PVCs in ps after Prepared, and those of them that may go on.
PrepareEach(v, r, ps, F) ==
    With([p \in ps |-> Prepared(v, r.ws[p], F[p])], LAMBDA out :
        [r |-> PutAll(r, out),
         ready |-> {p \in ps : out[p].res = "go"}])

Leaving(a, ws) == {p \in GroupSelected(a, ws) : ws[p].pvc.terminating}

LeavingUnprotect(a, r, F) ==
    IF vrgs[a].finalSync THEN r
    ELSE UnprotectEach(vrgs[a], r, Leaving(a, r.ws), F)

GroupAsPrimary(a, f, F) ==
    With(LeavingUnprotect(a, GroupDeselectedUnprotect(a, Tells(Start(a), "Primary"), F), F), LAMBDA r :
      With(PrepareEach(vrgs[a], r, GroupSelected(a, r.ws) \ Leaving(a, r.ws), F), LAMBDA prep :
        reconcileVolGroupRepsAsPrimary(a, prep.r, prep.ready, f, F)))

Held(a, ws) == {p \in GroupSelected(a, ws) : ws[p].pvc.finalizer}

Unlisted(a, r) == [r EXCEPT !.ws = [p \in MemberSet |->
    IF p \in GroupSelected(a, r.ws) \ Held(a, r.ws)
    THEN pvcStatusDeleteIfPresent(r.ws[p]) ELSE r.ws[p]]]

GroupAsSecondary(a, f, F) ==
    With(Unlisted(a, Start(a)), LAMBDA r :
      With(PrepareEach(vrgs[a], r, Held(a, r.ws), F), LAMBDA prep :
        reconcileVolGroupRepsAsSecondary(a, prep.r, prep.ready, f, F)))

ProcessVGRForDeletion(a, r, ps, f) ==
    IF vrgs[a].state = "Secondary" THEN reconcileVGRAsSecondary(a, r, ps, f)
    ELSE With(createOrUpdateVGR(vrgs[a], r.g, "Primary", f),
              LAMBDA h : OutOf(h.res, Concluded(r, ps, h)))

reconcileVGRForDeletion(a, r, ps, f, F) ==
    With(ProcessVGRForDeletion(a, r, ps, f), LAMBDA s :
        IF s.res = "go" THEN undoPVCFinalizersAndPVRetentionForVGR(vrgs[a], s.r, ps, f, F)
        ELSE IF s.res = "stop" /\ vrgs[a].state = "Primary" THEN Again(s.r)
        ELSE s.r)

UnprotectGroup(a, r, ps, f, F) ==
    IF ps = {} THEN r
    ELSE IF VGRIsThere(r, f) THEN reconcileVGRForDeletion(a, r, ps, f, F)
    ELSE reconcileMissingVGR(vrgs[a], r, ps, f, F)

\* A PVC that is held is prepared once more; one that cannot be waits.
PrepareHeld(r, ps, F) ==
    With([p \in ps |-> OrRequeue(preparePVCForVRProtection(r.ws[p], F[p]))], LAMBDA out :
        [r |-> PutAll(r, out),
         ready |-> {p \in ps : out[p].res = "go"}])

GroupForDeletion(a, f, F) ==
    With(GroupDeselectedUnprotect(a, Start(a), F), LAMBDA r :
      With(PrepareHeld(r, {p \in Held(a, r.ws) : r.ws[p].st.listed}, F), LAMBDA prep :
        UnprotectGroup(a, prep.r, prep.ready, f, F)))

\* The global VGR goes with the last of its VRGs; one VRG's own VGR is
\* collected with it.
deleteGlobalVGR(a, r, f) ==
    IF ~isGlobalDeleteInConsensus(a) THEN r
    ELSE With(deleteVGR(r.g, f), LAMBDA d : [r EXCEPT !.g = d.w, !.again = d.res # "go"])

GroupDeleted(a, f, F) ==
    With(GroupForDeletion(a, f, F), LAMBDA r :
        IF r.again THEN r
        ELSE IF gscene.global THEN deleteGlobalVGR(a, r, f)
        ELSE [r EXCEPT !.g.terminating = r.g.there])

GroupAt(f, q) == [p \in MemberSet |-> IF p = q THEN f ELSE NoFault]

processVRGOfGroup(a, f, q) ==
    IF vrgs[a].deleted THEN GroupDeleted(a, f, GroupAt(f, q))
    ELSE IF vrgs[a].state = "Primary" THEN GroupAsPrimary(a, f, GroupAt(f, q))
    ELSE GroupAsSecondary(a, f, GroupAt(f, q))

\* A pass over a deleted VRG saves no status.
Unstored(a, ws) == [p \in MemberSet |->
    IF p \in PVCsOf(a) THEN [ws[p] EXCEPT !.st = members[p].st] ELSE ws[p]]

GroupPass(a, f, q) ==
    /\ vrgs[a].there
    /\ f # NoFault => gfaults < gscene.faults /\ f.call \in gscene.calls
    /\ f = NoFault => q = Members[1]
    /\ gfaults' = IF f = NoFault THEN gfaults ELSE gfaults + 1
    /\ \E r \in {processVRGOfGroup(a, f, q)}, lost \in {vrgs[a].deleted \/ f.call = "saveStatus"} :
          /\ members' = IF lost THEN Unstored(a, r.ws) ELSE r.ws
          /\ group' = r.g
          /\ LET told == ~lost /\ r.unused # "Keep"
             IN vrgs' = [vrgs EXCEPT ![a].there = ~vrgs[a].deleted \/ r.again,
                                     ![a].unused = IF told THEN r.unused ELSE @,
                                     ![a].fresh = @ \/ told]
    /\ UNCHANGED <<gscene, gchanges>>

-----------------------------------------------------------------------------
(* The hub, which changes each VRG on its own.                              *)

ChangeVRG(a, v) ==
    /\ vrgs[a].there /\ ~vrgs[a].deleted
    /\ gchanges < gscene.changes
    /\ gchanges' = gchanges + 1
    /\ vrgs' = [vrgs EXCEPT ![a] = [v EXCEPT !.fresh = FALSE]]
    /\ UNCHANGED <<gscene, members, group, gfaults>>

HubDemotesVRG(a, action) ==
    /\ GroupMay(IF action = "Failover" THEN "failover" ELSE "relocate")
    /\ vrgs[a].state = "Primary"
    /\ ChangeVRG(a, [vrgs[a] EXCEPT !.state = "Secondary", !.action = action])

HubPromotesVRG(a) ==
    /\ GroupMay("promote") /\ vrgs[a].state = "Secondary"
    /\ ChangeVRG(a, [vrgs[a] EXCEPT !.state = "Primary"])

HubDeletesVRG(a) ==
    /\ GroupMay("end")
    /\ ChangeVRG(a, [vrgs[a] EXCEPT !.deleted = TRUE])

-----------------------------------------------------------------------------
(* The user, the pods, Kubernetes and the storage driver.                   *)

Member(p, w) ==
    /\ members' = [members EXCEPT ![p] = w]
    /\ UNCHANGED <<gscene, vrgs, group, gchanges, gfaults>>

\* "undeploy": with the application, once the hub has demoted the VRG.
UserDeletesMember(p) ==
    /\ GroupMay("delete") \/ (GroupMay("undeploy") /\ vrgs[gscene.owner[p]].state = "Secondary")
    /\ members[p].pvc.there /\ ~members[p].pvc.terminating
    /\ Member(p, [members[p] EXCEPT !.pvc.terminating = TRUE])

UserDeselectsMember(p) ==
    /\ GroupMay("deselect") /\ members[p].pvc.selected
    /\ Member(p, [members[p] EXCEPT !.pvc.selected = FALSE])

MemberPodStarts(p) ==
    /\ GroupMay("pods") /\ members[p].pvc.bound /\ ~members[p].pvc.terminating /\ ~members[p].inUse
    /\ Member(p, [members[p] EXCEPT !.inUse = TRUE])

MemberPodStops(p) ==
    /\ members[p].inUse
    /\ Member(p, [members[p] EXCEPT !.inUse = FALSE])

NoClaim == [there |-> FALSE, bound |-> FALSE, terminating |-> FALSE, selected |-> FALSE,
            owner |-> "none", finalizer |-> FALSE, protected |-> FALSE, archived |-> FALSE,
            resizing |-> FALSE]

\* With the reclaim policy Delete the volume goes with its claim.
MemberRemoved(p) ==
    /\ members[p].pvc.terminating /\ ~members[p].pvc.finalizer /\ ~members[p].inUse
    /\ Member(p, [members[p] EXCEPT !.pvc = NoClaim, !.label = "none",
                     !.pv.phase = IF members[p].pv.retain THEN "Released" ELSE "None"])

Group(g) ==
    /\ group' = g
    /\ UNCHANGED <<gscene, vrgs, members, gchanges, gfaults>>

\* The driver takes the claims with the group's label into the group.
InGroup == {p \in MemberSet : /\ members[p].label = "member"
                              /\ gscene.global \/ gscene.external \/ members[p].pvc.selected}

DriverGathers ==
    /\ group.there /\ ~group.terminating /\ group.refs # InGroup
    /\ Group([group EXCEPT !.refs = InGroup])

GroupReport(state) ==
    [Validated |-> IF state = "Primary" THEN "True" ELSE "Missing", Completed |-> "True",
     Degraded |-> "False", Resyncing |-> "False"]

\* With its first answer it names the content in the VGR's specification, which
\* makes the VGR newer than the copies in the stores.
DriverAnswers ==
    /\ group.there /\ ~group.terminating /\ ~group.observed
    /\ Group([(IF group.content THEN group ELSE OutdatedGroup(group))
                 EXCEPT !.content = TRUE, !.observed = TRUE, !.role = group.state,
                        !.cond = GroupReport(group.state)])

DriverNamesDestination ==
    /\ GroupMay("destination") /\ group.there /\ group.state = "Primary"
    /\ group.observed /\ group.destination # "True"
    /\ Group([group EXCEPT !.destination = IF group.destination = "Missing" THEN "False" ELSE "True"])

DriverReleasesVGR ==
    /\ group.terminating
    /\ Group([group EXCEPT !.there = FALSE, !.terminating = FALSE, !.refs = {}])

-----------------------------------------------------------------------------
(* The specification: the applications run and nothing is protected yet.    *)

InitMember ==
    [pvc |-> [NoClaim EXCEPT !.there = TRUE, !.bound = TRUE, !.selected = TRUE],
     pv |-> [phase |-> "Bound", retain |-> FALSE, retained |-> FALSE, archived |-> FALSE,
             leftBehind |-> FALSE, handle |-> FALSE],
     st |-> NoStatus, inUse |-> TRUE, label |-> "none", s3 |-> Emptied]

InitVRG ==
    [there |-> TRUE, deleted |-> FALSE, state |-> "Primary", action |-> "None", async |-> TRUE,
     finalSync |-> FALSE, dryRun |-> FALSE, testFailover |-> FALSE, unused |-> "None", fresh |-> FALSE]

InitGroup ==
    /\ gscene \in GroupScenes
    /\ vrgs = [a \in Apps |-> InitVRG]
    /\ members = [p \in MemberSet |-> InitMember]
    /\ group = [there |-> FALSE, terminating |-> FALSE, state |-> "None", autoResync |-> FALSE,
                observed |-> FALSE, role |-> "Unknown", cond |-> NoConditions,
                destination |-> "Missing", refs |-> {}, content |-> FALSE, archived |-> FALSE,
                contentArchived |-> FALSE, handle |-> FALSE,
                s3 |-> [i \in 1..Stores |-> [vgrc |-> "none", vgr |-> "none"]]]
    /\ gchanges = 0 /\ gfaults = 0

GroupFaults ==
    Faults \cup [call : {"archiveVGR", "archiveVGRC", "labelPVC"}, store : {0}]
           \cup [call : {"uploadVGRC", "uploadVGR"}, store : 1..Stores]

HubChanges(a) ==
    HubPromotesVRG(a) \/ HubDeletesVRG(a) \/ \E action \in {"Failover", "Relocate"} : HubDemotesVRG(a, action)

Surroundings ==
    \/ \E p \in MemberSet : \/ UserDeletesMember(p) \/ UserDeselectsMember(p)
                            \/ MemberPodStarts(p) \/ MemberPodStops(p) \/ MemberRemoved(p)
    \/ DriverGathers \/ DriverAnswers \/ DriverNamesDestination
    \/ DriverReleasesVGR

NextGroup ==
    \/ \E a \in Apps, f \in GroupFaults, q \in MemberSet : GroupPass(a, f, q)
    \/ \E a \in Apps : HubChanges(a)
    \/ Surroundings

SpecGroup == InitGroup /\ [][NextGroup]_groupVars

-----------------------------------------------------------------------------
(* Fairness: every VRG is requeued until it has nothing left to do, pods of *)
(* deleted claims end, and the driver does what it is asked.                *)

CleanGroupPass(a) == GroupPass(a, NoFault, Members[1])

GroupPending(a) ==
    /\ vrgs[a].there
    /\ \E r \in {processVRGOfGroup(a, NoFault, Members[1])} :
          \/ r.g # group
          \/ IF vrgs[a].deleted THEN ~r.again \/ Unstored(a, r.ws) # members
             ELSE r.ws # members \/ (r.unused # "Keep" /\
                     (r.unused # vrgs[a].unused \/ ~vrgs[a].fresh))

FairGroup ==
    /\ \A a \in MemberSet : []<>~(a \in Apps /\ GroupPending(a)) \/ []<><<a \in Apps /\ CleanGroupPass(a)>>_groupVars
    /\ \A p \in MemberSet :
          /\ WF_groupVars(members[p].pvc.terminating /\ MemberPodStops(p))
          /\ WF_groupVars(MemberRemoved(p))
    /\ WF_groupVars(DriverGathers)
    /\ WF_groupVars(DriverAnswers) /\ WF_groupVars(DriverReleasesVGR)

FairSpecGroup == SpecGroup /\ FairGroup

-----------------------------------------------------------------------------
(* Properties.                                                              *)

\* The types of what the passes write, and a VGR that has gone has no members
\* and is not being deleted once more.
GroupTypeOK ==
    /\ gscene \in GroupSceneType
    /\ group.refs \subseteq MemberSet /\ group.state \in Roles \cup {"None"}
    /\ ~group.there => group.refs = {} /\ ~group.terminating
    /\ \A p \in MemberSet : members[p].label \in {"none", "member", "reset"}
    /\ \A a \in Apps : vrgs[a].unused \in {"None", "Primary", "True", "False"}
    /\ gchanges \in 0..gscene.changes /\ gfaults \in 0..gscene.faults

\* A pass that turns the VGR Secondary (updateVGR) does so only when no held
\* claim of a VRG in the group is in use by a pod, although it sees the other
\* VRGs' claims only through the conditions those have saved before.  A VRG that
\* is being torn down is not waited for.
GroupDemotedUnused ==
    [][group.state = "Primary" /\ group'.state = "Secondary" =>
         \A p \in MemberSet :
             members[p].pvc.finalizer /\ members[p].label = "member" /\ ~vrgs[gscene.owner[p]].deleted
             => ~members[p].inUse]_groupVars

\* isVGRandVGRCArchivedAlready lets a pass skip the upload: every store then
\* really holds the VGR and its content as they are now.
GroupArchivedIsStored ==
    group.there /\ isVGRandVGRCArchivedAlready(group) =>
        \A i \in 1..Stores : group.s3[i] = [vgrc |-> "current", vgr |-> "current"]

\* The last VRG to go takes the VGR with it (deleteGlobalVGR), in whatever
\* order the VRGs that share it are deleted; until then the state is well formed.
NoGroupLeftBehind ==
    /\ GroupTypeOK
    /\ (\A a \in Apps : ~vrgs[a].there) => ~group.there \/ group.terminating

\* The VRGs do not wait for each other for ever: once all of them stay
\* Secondary and their claims are deleted, every claim is let go.
GroupReleases ==
    <>[](\A a \in Apps : vrgs[a].there /\ ~vrgs[a].deleted /\ vrgs[a].state = "Secondary")
      /\ <>[](\A p \in MemberSet : members[p].pvc.there => members[p].pvc.terminating /\ members[p].pvc.selected)
    => <>[](\A p \in MemberSet : ~members[p].pvc.finalizer)
=============================================================================
