------------------------------ MODULE VolSync ------------------------------
(***************************************************************************)
(* Replication with VolSync between the two managed clusters of a policy:  *)
(* the passes of the VRG controller on each, the part of the hub that      *)
(* hands destinations and sources across, the application and the VolSync  *)
(* operator, each acting on its own.                                       *)
(***************************************************************************)
EXTENDS VolSyncVolume, Functions

CONSTANTS
    Clusters,   \* the two clusters, in the order of the policy
    Claims,     \* the PVCs, in the order they are listed
    Scenes      \* the situations to explore: see SceneType

\* How it starts; whether the destination's PVC is the application's (direct)
\* or made from a snapshot; whether the clusters are joined by Submariner, or
\* the hub hands addresses across; the PVCs there are; what users may do; the
\* calls that may fail; bounds on changes of mind, failing passes and writes.
SceneType ==
    [start : {"deploy", "settled", "stopped"}, direct : BOOLEAN, submariner : BOOLEAN,
     present : SUBSET Range(Claims),
     acts : SUBSET {"relocate", "failover", "unselect", "delete", "end", "jobFails"},
     calls : SUBSET Calls, changes : Nat, faults : Nat, writes : Nat]

ASSUME VolSyncAssumption ==
    /\ DOMAIN Clusters = 1..2 /\ IsInjective(Clusters)
    /\ IsInjective(Claims) /\ Claims # <<>>
    /\ Scenes \subseteq SceneType

VARIABLES
    scene,    \* one of Scenes, never changed
    site,     \* cluster -> its VRG, secret and volumes
    home,     \* the cluster the hub means the application to be on
    placed,   \* the cluster the placement names, or "none"
    written,  \* PVC -> the newest version the application wrote
    syncs,    \* how many syncs were completed: the names of the snapshots
    changes, faults, writes

volsyncVars == <<scene, site, home, placed, written, syncs, changes, faults, writes>>

ClusterSet == Range(Clusters)
PVCs == scene.present
Peer(c) == CHOOSE d \in ClusterSet : d # c
May(act) == act \in scene.acts

NoStatusYet == [prepared |-> FALSE, final |-> FALSE, active |-> FALSE, ready |-> "none",
                data |-> FALSE, state |-> "Unknown", rdInfo |-> {}]

-----------------------------------------------------------------------------
(* The pass of a VRG controller over its site s.                            *)

volSyncPVCs(s) == {p \in PVCs : s.vol[p].pvc.there /\ s.vol[p].pvc.selected}

\* The specification as the operators on a volume see it.
Given(s, p) ==
    [direct |-> scene.direct, secret |-> s.secret, state |-> s.spec.state,
     sourced |-> scene.submariner \/ p \in s.spec.rs,
     prep |-> s.spec.prep, run |-> s.spec.run, action |-> s.spec.action]

\* The volumes ps after their steps, in a site.
Each(s, r) == [s EXCEPT !.vol = [p \in DOMAIN s.vol |-> IF p \in DOMAIN r THEN r[p].w ELSE @[p]]]

isVolSyncProtectedPVCConditionReady(s, type) ==
    LET listed == {p \in PVCs : s.vol[p].st.listed}
    IN listed # {} /\ \A p \in listed : s.vol[p].st[type] = "Complete"

aggregateVolSyncDataReadyCondition(s) ==
    \/ volSyncPVCs(s) = {}
    \/ s.spec.state = "Secondary" /\ ~s.status.active
    \/ /\ s.spec.state = "Primary"
       /\ \/ isVolSyncProtectedPVCConditionReady(s, "restored")
          \/ isVolSyncProtectedPVCConditionReady(s, "setup")

\* The status is written last; when that fails what the pass learnt is lost.
Saved(old, s, f) ==
    IF f = "saveStatus"
    THEN [s EXCEPT !.status = old.status,
                   !.vol = [p \in DOMAIN s.vol |-> [@[p] EXCEPT !.st = old.vol[p].st]]]
    ELSE With(aggregateVolSyncDataReadyCondition(s), LAMBDA d :
           [s EXCEPT !.status.data = d,
                     !.status.state = IF d THEN s.spec.state ELSE "Unknown"])

shouldRestoreClusterData(s) == ~s.spec.prep /\ ~s.spec.run /\ s.status.ready # "restored"

restorePVsAndPVCsForVolSync(s, F) ==
    With([p \in s.spec.rd |-> restorePVForVolSync(Given(s, p), s.vol[p], F[p])], LAMBDA r :
        [s |-> Each(s, r), all |-> \A p \in s.spec.rd : r[p].res = "go", some |-> s.spec.rd # {}])

\* PVCs that no longer match the selector, with the VRG's labels still on.
pvcsDeselectedUnprotect(s, F) ==
    [p \in {q \in PVCs : s.vol[q].pvc.there /\ ~s.vol[q].pvc.selected /\ s.vol[q].pvc.finalizer} |->
        pvcUnprotectVolSync(s.vol[p], F[p])]

Deselected(s, F) == Each(s, pvcsDeselectedUnprotect(s, F))

reconcileVolSyncAsPrimary(s, F) ==
    With([p \in volSyncPVCs(s) |-> Protect(Given(s, p), s.vol[p], F[p])], LAMBDA a :
      With([p \in DOMAIN a |-> Then(a[p], LAMBDA v : ReconcileRS(Given(s, p), v, F[p]))], LAMBDA b :
        [s |-> Each(s, b),
         prepared |-> \A p \in DOMAIN a : a[p].res = "go",
         done |-> \A p \in DOMAIN b : b[p].res = "stop" \/ (b[p].res = "go" /\ ~s.spec.run)]))

Cleaned(s, F) ==
    [s EXCEPT !.vol = [p \in DOMAIN s.vol |->
        CleanupRDNotInSpecList(Given(s, p), @[p], F[p], p \in s.spec.rd)]]

\* With no PVC there is nothing to clean up and the final sync is complete.
reconcileAsPrimary(s, F) ==
    With(reconcileVolSyncAsPrimary(IF volSyncPVCs(s) = {} THEN s ELSE Cleaned(s, F), F), LAMBDA r :
        [r.s EXCEPT !.status.prepared = IF s.spec.prep THEN r.prepared ELSE @,
                    !.status.final = IF r.done THEN s.spec.run ELSE @])

processAsPrimary(s, F) ==
    IF ~shouldRestoreClusterData(s)
    THEN reconcileAsPrimary(Deselected([s EXCEPT !.status.ready = "restored"], F), F)
    ELSE With(restorePVsAndPVCsForVolSync(s, F), LAMBDA r :
           IF ~r.all THEN [r.s EXCEPT !.status.ready = "error"]
           ELSE With([r.s EXCEPT !.status.ready = "restored"], LAMBDA t :
                  IF r.some THEN t ELSE reconcileAsPrimary(Deselected(t, F), F)))

\* The destination at p comes no later in the list than any of those in bad.
NotAfter(p, bad) ==
    \A i, j \in DOMAIN Claims : Claims[i] = p /\ Claims[j] \in bad => i <= j

\* A destination that fails keeps those after it from being looked at.
reconcileNonCG(s, F) ==
    With([p \in s.spec.rd |-> ReconcileRD(Given(s, p), s.vol[p], F[p])], LAMBDA r :
      LET bad == {p \in s.spec.rd : r[p].res = "requeue"}
          seen == {p \in s.spec.rd : NotAfter(p, bad)}
      IN [Each(s, [p \in seen |-> r[p]]) EXCEPT
            !.status.rdInfo = IF scene.submariner THEN @
                              ELSE @ \cup {p \in seen : r[p].res = "go"},
            !.status.active = @ \/ \E p \in bad \cap seen : scene.direct /\ s.secret
                                                            /\ IsPVCInUseByNonRDPod(r[p].w)])

reconcileVolSyncAsSecondary(s, F) ==
    With([s EXCEPT !.vol = [p \in DOMAIN s.vol |-> [@[p] EXCEPT !.st = NoStatus]]], LAMBDA t :
      IF \E p \in volSyncPVCs(t) : IsPVCInUseByNonRDPod(t.vol[p])
      THEN [t EXCEPT !.status.active = TRUE]
      ELSE With([p \in volSyncPVCs(t) |-> handleDeletingVolSyncPVCsAsSecondary(t.vol[p], F[p])],
             LAMBDA r :
               With([Each(t, r) EXCEPT !.status.prepared = FALSE, !.status.final = FALSE,
                                       !.status.active = FALSE], LAMBDA u :
                 IF \E p \in DOMAIN r : r[p].res = "requeue" THEN u
                 ELSE reconcileNonCG(Cleaned(u, F), F))))

processAsSecondary(s, F) == [reconcileVolSyncAsSecondary(s, F) EXCEPT !.status.ready = "unused"]

\* Nothing of a pass over a VRG that is being deleted is saved in its status.
processForDeletion(s, F) ==
    With(pvcsDeselectedUnprotect(s, F), LAMBDA d :
      With([p \in PVCs |->
              IF p \in DOMAIN d THEN d[p]
              ELSE Then(IF p \in volSyncPVCs(s) THEN UndoPVRetentionForPVC(s.vol[p], F[p])
                        ELSE Go(s.vol[p]), LAMBDA v :
                     cleanupResources(Given(s, p), v, F[p], p \in volSyncPVCs(s), p \in s.spec.rd))],
           LAMBDA r :
             [Each(s, r) EXCEPT !.spec.there = \E p \in PVCs : r[p].res = "requeue"]))

\* What the pass makes of the site when the call f fails, on PVC q.
processVRG(s, f, q) ==
    With([p \in PVCs |-> IF p = q THEN f ELSE "none"], LAMBDA F :
        IF s.spec.deleted THEN processForDeletion(s, F)
        ELSE Saved(s, IF s.spec.state = "Primary" THEN processAsPrimary(s, F)
                      ELSE processAsSecondary(s, F), f))

FirstPVC == CHOOSE p \in PVCs : TRUE

Reconcile(c, f, q) ==
    /\ site[c].spec.there
    /\ IF f = "none" THEN q = FirstPVC ELSE faults < scene.faults /\ f \in scene.calls
    /\ faults' = IF f = "none" THEN faults ELSE faults + 1
    /\ \E r \in {processVRG(site[c], f, q)} : site' = [site EXCEPT ![c] = r]
    /\ UNCHANGED <<scene, home, placed, written, syncs, changes, writes>>

-----------------------------------------------------------------------------
(* The hub.                                                                 *)

Hub(s, h, pl) ==
    /\ site' = s /\ home' = h /\ placed' = pl
    /\ UNCHANGED <<scene, written, syncs, faults, writes>>

\* A DRPC that is being deleted has its VRGs deleted and no more.
Protected == \A c \in ClusterSet : ~site[c].spec.deleted

Decided == changes < scene.changes /\ changes' = changes + 1

HubPrepares ==
    /\ May("relocate") /\ placed = home /\ site[home].status.data
    /\ ~site[home].spec.prep /\ ~site[home].spec.run
    /\ site[Peer(home)].spec.there /\ site[Peer(home)].spec.state = "Secondary"
    /\ Decided
    /\ Hub([site EXCEPT ![home].spec.prep = TRUE], home, placed)

HubClears ==
    /\ site[home].spec.prep /\ site[home].status.prepared /\ placed = home
    /\ Hub(site, home, "none") /\ UNCHANGED changes

HubRunsFinalSync ==
    /\ site[home].spec.prep /\ site[home].status.prepared /\ placed = "none"
    /\ Hub([site EXCEPT ![home].spec.prep = FALSE, ![home].spec.run = TRUE], home, placed)
    /\ UNCHANGED changes

Demoted(c) == [site EXCEPT ![c].spec.state = "Secondary", ![c].spec.prep = FALSE,
                           ![c].spec.run = FALSE]

HubDemotes ==
    /\ site[home].spec.run /\ site[home].status.final
    /\ Hub(Demoted(home), home, placed) /\ UNCHANGED changes

Promoted(c, action) == [site EXCEPT ![c].spec.state = "Primary", ![c].spec.action = action]

\* A relocation goes on when the old home reports Secondary.
HubRelocates ==
    /\ placed = "none" /\ site[home].spec.state = "Secondary"
    /\ site[home].status.state = "Secondary"
    /\ Hub(Promoted(Peer(home), "Relocate"), Peer(home), placed) /\ UNCHANGED changes

\* A failover goes to a cluster that reports Secondary (isValidFailoverTarget).
\* Who asks for it waits for PeerReady, when the cluster was given its
\* destinations; whether they have received anything is not looked at.
HubFailsOver ==
    /\ May("failover") /\ placed = home
    /\ site[Peer(home)].spec.there /\ site[Peer(home)].spec.state = "Secondary"
    /\ site[Peer(home)].status.state = "Secondary" /\ site[Peer(home)].spec.rd # {}
    /\ Decided
    /\ Hub(Promoted(Peer(home), "Failover"), Peer(home), placed)

HubPlaces ==
    /\ placed # home /\ site[home].spec.state = "Primary" /\ ~site[home].spec.prep
    /\ ~site[home].spec.run
    /\ site[home].status.ready = "restored" /\ site[home].status.state = "Primary"
    /\ Hub(site, home, home) /\ UNCHANGED changes

\* The application is where it should be: its home has no use for destinations.
ResetVolSyncRDOnPrimary ==
    /\ placed = home /\ site[home].spec.state = "Primary" /\ site[home].spec.rd # {}
    /\ Hub([site EXCEPT ![home].spec.rd = {}], home, placed) /\ UNCHANGED changes

\* The other cluster is cleaned up once the destinations were reset.
HubCleansUp ==
    /\ placed = home /\ site[home].spec.rd = {}
    /\ site[Peer(home)].spec.there /\ site[Peer(home)].spec.state = "Primary"
    /\ Hub(Demoted(Peer(home)), home, placed) /\ UNCHANGED changes

\* The destinations of the other cluster follow what the home protects, and
\* the sources of the home follow the addresses the destinations report.
refreshVRGSecondarySpec(s) ==
    LET listed == {p \in PVCs : s[home].vol[p].st.listed}
    IN [s[Peer(home)].spec EXCEPT !.there = TRUE, !.rd = IF listed = {} THEN @ ELSE listed]

EnsureVolSyncReplicationSetup(s) ==
    IF \E p \in PVCs : s[home].vol[p].st.listed
    THEN [c \in ClusterSet |-> [s[c] EXCEPT !.secret = TRUE]] ELSE s

ensureVolSyncReplicationSource(s) ==
    IF scene.submariner THEN s
    ELSE [s EXCEPT ![home].spec.rs = @ \cup s[Peer(home)].status.rdInfo]

EnsureSecondaryReplicationSetup ==
    /\ placed = home /\ site[home].spec.rd = {} /\ ~site[home].spec.prep
    /\ LET d == Peer(home)
           t == [site EXCEPT ![d].spec = refreshVRGSecondarySpec(site)]
           u == IF ~site[d].spec.there THEN t
                ELSE ensureVolSyncReplicationSource(EnsureVolSyncReplicationSetup(t))
       IN /\ site[d].spec.state = "Secondary"
          /\ site[d].spec.there => site[d].status.state = "Secondary"
          /\ u # site
          /\ Hub(u, home, placed) /\ UNCHANGED changes

\* DR is disabled: the Secondary goes first.
HubDeletes(c) ==
    /\ May("end") /\ site[c].spec.there /\ ~site[c].spec.deleted /\ placed = home
    /\ site[home].spec.rd = {}
    /\ IF c = home THEN ~site[Peer(c)].spec.there ELSE Decided
    /\ c = home => UNCHANGED changes
    /\ Hub([site EXCEPT ![c].spec.deleted = TRUE], home, placed)

-----------------------------------------------------------------------------
(* The application and Kubernetes.                                          *)

Volume(c, p, w) ==
    /\ site' = [site EXCEPT ![c].vol[p] = w]
    /\ UNCHANGED <<scene, home, placed, syncs, changes, faults>>

Quiet == UNCHANGED <<written, writes>>

AppCreatesPVC(c, p) ==
    /\ placed = c /\ ~site[c].vol[p].pvc.there
    /\ Volume(c, p, Claimed(site[c].vol[p], TRUE, 0, 0)) /\ Quiet

\* After a failover what was written last may be lost, and the application
\* goes on from what it finds.
PodStarts(c, p) ==
    /\ placed = c /\ site[c].vol[p].pvc.app /\ ~site[c].vol[p].pvc.terminating
    /\ site[c].vol[p].pv.claim = "pvc" /\ ~site[c].vol[p].mounted
    /\ Volume(c, p, [site[c].vol[p] EXCEPT !.mounted = TRUE])
    /\ written' = IF site[c].spec.action = "Failover"
                  THEN [written EXCEPT ![p] = site[c].vol[p].data] ELSE written
    /\ UNCHANGED writes

AppWrites(c, p) ==
    /\ site[c].vol[p].mounted /\ writes < scene.writes
    /\ writes' = writes + 1
    /\ LET new == writes' + 1
       IN /\ Volume(c, p, [site[c].vol[p] EXCEPT !.data = new])
          /\ written' = IF c = home THEN [written EXCEPT ![p] = new] ELSE written

\* The placement has moved on: the pods stop and the PVC is deleted.
Leaving(c) == placed # c /\ (home # c \/ site[c].spec.prep \/ site[c].spec.run)

AppStops(c, p) ==
    /\ Leaving(c) /\ site[c].vol[p].mounted
    /\ Volume(c, p, [site[c].vol[p] EXCEPT !.mounted = FALSE]) /\ Quiet

AppDeletesPVC(c, p) ==
    /\ Leaving(c) /\ site[c].vol[p].pvc.app /\ ~site[c].vol[p].pvc.terminating
    /\ Volume(c, p, DeletePVC(site[c].vol[p])) /\ Quiet

\* Who deletes the PVC gives up what is in it; an empty one is kept, which
\* bounds how often.
UserDeletesPVC(c, p) ==
    /\ May("delete") /\ placed = c /\ site[c].vol[p].mounted /\ written[p] # 0
    /\ ~site[c].vol[p].pvc.terminating /\ ~site[c].spec.prep
    /\ Volume(c, p, [DeletePVC(site[c].vol[p]) EXCEPT !.mounted = FALSE])
    /\ written' = [written EXCEPT ![p] = 0] /\ UNCHANGED writes

UserDeselectsPVC(c, p) ==
    /\ May("unselect") /\ placed = c /\ site[c].vol[p].pvc.there /\ site[c].vol[p].pvc.selected
    /\ Volume(c, p, [site[c].vol[p] EXCEPT !.pvc.selected = FALSE]) /\ Quiet

\* The volume goes by the PV's reclaim policy.
Reclaimed(pv) ==
    IF pv.retain \/ pv.claim = "tmp"
    THEN [pv EXCEPT !.claim = IF @ = "pvc" THEN "dead" ELSE @] ELSE NoPV

PVCRemoved(c, p) ==
    /\ site[c].vol[p].pvc.terminating /\ ~site[c].vol[p].pvc.finalizer
    /\ ~site[c].vol[p].mounted
    /\ Volume(c, p, [site[c].vol[p] EXCEPT !.pvc = NoPVC, !.pv = Reclaimed(@)])
    /\ Quiet

MountJobEnds(c, p, result) ==
    /\ site[c].vol[p].job = "running"
    /\ IF result = "failed" THEN May("jobFails") /\ faults < scene.faults ELSE TRUE
    /\ site' = [site EXCEPT ![c].vol[p].job = result]
    /\ faults' = IF result = "failed" THEN faults + 1 ELSE faults
    /\ Quiet /\ UNCHANGED <<scene, home, placed, syncs, changes>>

-----------------------------------------------------------------------------
(* The VolSync operator.                                                    *)

RDGetsAddress(c, p) ==
    /\ site[c].vol[p].rd.there /\ ~site[c].vol[p].rd.addr
    /\ Volume(c, p, [site[c].vol[p] EXCEPT !.rd.addr = TRUE]) /\ Quiet

LocalRDGetsAddress(c, p) ==
    /\ site[c].vol[p].local.rd /\ ~site[c].vol[p].local.addr
    /\ Volume(c, p, [site[c].vol[p] EXCEPT !.local.addr = TRUE]) /\ Quiet

\* A source sends to an address of the peer, or with Submariner to whoever
\* exports the destination's name, the destination beside it included.
Target(c, here) == IF here THEN c ELSE Peer(c)
Receives(v) == /\ v.rd.there /\ v.rd.addr /\ ~v.rd.paused
               /\ scene.direct => v.pvc.there /\ ~v.pvc.terminating

\* The source's own snapshot is taken when the sync starts.  With direct
\* copies the target's PVC is written in place.
SyncStarts(c, p, here) ==
    LET w == site[c].vol[p]
        v == site[Target(c, here)].vol[p]
    IN /\ w.rs.there /\ w.rs.job = "none" /\ w.data # Torn
       /\ here => scene.submariner
       /\ Receives(v)
       /\ IF w.rs.trigger = "final" THEN w.tmp ELSE w.pvc.there
       /\ IF w.rs.trigger = "schedule" THEN v.rd.image = NoImage \/ v.rd.image.ver # w.data
          ELSE w.rs.last # w.rs.trigger
       /\ site' = [site EXCEPT
            ![c].vol[p].rs = [w.rs EXCEPT !.job = w.rs.trigger, !.carry = w.data, !.here = here],
            ![Target(c, here)].vol[p].data = IF scene.direct THEN Torn ELSE v.data]
       /\ UNCHANGED <<scene, home, placed, written, syncs, changes, faults, writes>>

SyncEnds(c, p) ==
    LET w == site[c].vol[p]
        d == Target(c, w.rs.here)
        done == [site EXCEPT ![c].vol[p].rs =
                   [w.rs EXCEPT !.job = "none", !.synced = TRUE, !.here = FALSE,
                                !.last = IF w.rs.job = "schedule" THEN "none" ELSE w.rs.job]]
        v == done[d].vol[p]
    IN /\ w.rs.job # "none"
       /\ Receives(v)
       /\ syncs' = syncs + 1
       /\ site' = [done EXCEPT ![d].vol[p] =
                     [v EXCEPT !.rd.image = [id |-> syncs', ver |-> w.rs.carry],
                               !.data = IF scene.direct THEN w.rs.carry ELSE v.data]]
       /\ UNCHANGED <<scene, home, placed, written, changes, faults, writes>>

\* The local pair writes the snapshot back into the PVC.
LocalSync(c, p) ==
    LET w == site[c].vol[p]
    IN /\ w.local.rd /\ w.local.addr /\ ~w.local.paused
       /\ w.local.trigger # 0 /\ w.local.last # w.local.trigger
       /\ Volume(c, p, [w EXCEPT !.local.last = w.local.trigger, !.data = w.rd.image.ver])
       /\ Quiet

-----------------------------------------------------------------------------
(* The specification.                                                       *)

NoVolume == [pvc |-> NoPVC, pv |-> NoPV, data |-> 0, tmp |-> FALSE, mounted |-> FALSE,
             rs |-> NoRS, rd |-> NoRD, local |-> NoLocal, kept |-> 0, job |-> "none",
             st |-> NoStatus]

Bound(app, finalizer) ==
    [NoVolume EXCEPT !.pvc = [NoPVC EXCEPT !.there = TRUE, !.app = app, !.finalizer = finalizer],
                     !.pv = [NoPV EXCEPT !.there = TRUE, !.retain = TRUE, !.ours = TRUE],
                     !.data = 1]

\* Everything was replicated once.
Sending == [Bound(TRUE, TRUE) EXCEPT
              !.mounted = TRUE, !.st = [listed |-> TRUE, restored |-> "None", setup |-> "Complete"],
              !.rs = [NoRS EXCEPT !.there = TRUE, !.trigger = "schedule", !.synced = TRUE]]

Receiving(direct) ==
    [(IF direct THEN Bound(FALSE, FALSE) ELSE NoVolume) EXCEPT
        !.rd = [NoRD EXCEPT !.there = TRUE, !.addr = TRUE, !.image = [id |-> 1, ver |-> 1]]]

VRG(state, rd, rs) == [there |-> TRUE, deleted |-> FALSE, state |-> state, prep |-> FALSE,
                       run |-> FALSE, action |-> "none", rd |-> rd, rs |-> rs]

DeploySite(sc, c) ==
    [spec |-> [VRG(IF c = Clusters[1] THEN "Primary" ELSE "Secondary", {}, {}) EXCEPT
                 !.there = (c = Clusters[1])],
     status |-> NoStatusYet, secret |-> FALSE, vol |-> [p \in sc.present |-> NoVolume]]

SettledSite(sc, c) ==
    IF c = Clusters[1]
    THEN [spec |-> VRG("Primary", {}, IF sc.submariner THEN {} ELSE sc.present), secret |-> TRUE,
          status |-> [NoStatusYet EXCEPT !.ready = "restored", !.data = TRUE, !.state = "Primary"],
          vol |-> [p \in sc.present |-> Sending]]
    ELSE [spec |-> VRG("Secondary", sc.present, {}), secret |-> TRUE,
          status |-> [NoStatusYet EXCEPT !.ready = "unused", !.data = TRUE, !.state = "Secondary",
                                         !.rdInfo = IF sc.submariner THEN {} ELSE sc.present],
          vol |-> [p \in sc.present |-> Receiving(sc.direct)]]

\* The application has gone for a relocation, after a last write.
StoppedSite(sc, c) ==
    IF c # Clusters[1] THEN SettledSite(sc, c)
    ELSE [SettledSite(sc, c) EXCEPT
            !.spec.run = TRUE, !.status.prepared = TRUE,
            !.vol = [p \in sc.present |->
                [Sending EXCEPT !.mounted = FALSE, !.pvc.terminating = TRUE, !.data = 2,
                                !.rs.trigger = "prepare", !.rs.last = "prepare"]]]

Site(sc, c) ==
    CASE sc.start = "deploy" -> DeploySite(sc, c)
      [] sc.start = "settled" -> SettledSite(sc, c)
      [] sc.start = "stopped" -> StoppedSite(sc, c)

Init ==
    /\ scene \in Scenes
    /\ site = [c \in ClusterSet |-> Site(scene, c)]
    /\ home = Clusters[1]
    /\ placed = IF scene.start = "stopped" THEN "none" ELSE Clusters[1]
    /\ written = [p \in scene.present |-> site[Clusters[1]].vol[p].data]
    /\ syncs = 1 /\ changes = 0 /\ faults = 0 /\ writes = 0

HubWorks ==
    \/ /\ Protected
       /\ \/ HubClears \/ HubRunsFinalSync \/ HubDemotes \/ HubRelocates \/ HubPlaces
          \/ ResetVolSyncRDOnPrimary \/ HubCleansUp \/ EnsureSecondaryReplicationSetup
    \/ (site[home].spec.there /\ ~site[Peer(home)].spec.there /\ HubDeletes(home))

Works(c, p) ==
    \/ AppCreatesPVC(c, p) \/ PodStarts(c, p) \/ AppStops(c, p) \/ AppDeletesPVC(c, p)
    \/ PVCRemoved(c, p) \/ MountJobEnds(c, p, "done")
    \/ RDGetsAddress(c, p) \/ LocalRDGetsAddress(c, p)
    \/ SyncStarts(c, p, FALSE) \/ SyncStarts(c, p, TRUE) \/ SyncEnds(c, p) \/ LocalSync(c, p)

Chooses ==
    \/ Protected /\ (HubPrepares \/ HubFailsOver)
    \/ \E c \in ClusterSet :
          \/ c # home /\ HubDeletes(c)
          \/ \E p \in PVCs : \/ AppWrites(c, p) \/ UserDeletesPVC(c, p) \/ UserDeselectsPVC(c, p)
                             \/ MountJobEnds(c, p, "failed")

Next ==
    \/ \E c \in ClusterSet, f \in Calls, q \in PVCs : Reconcile(c, f, q)
    \/ HubWorks \/ Chooses
    \/ \E c \in ClusterSet, p \in PVCs : Works(c, p)

SpecVolSync == Init /\ [][Next]_volsyncVars

\* The controllers keep reconciling until a pass changes nothing; the hub, the
\* application and VolSync go on with what they have begun.
PassPending(c) ==
    site[c].spec.there /\ processVRG(site[c], "none", FirstPVC) # site[c]

CleanPass(c) ==
    /\ UNCHANGED <<home, placed, written, syncs, changes, faults, writes>>
    /\ site'[Peer(c)] = site[Peer(c)]
    /\ Reconcile(c, "none", FirstPVC)

FairSpecVolSync ==
    /\ SpecVolSync
    /\ \/ []<>(\A c \in ClusterSet : ~PassPending(c))
       \/ []<><<\E c \in ClusterSet : CleanPass(c)>>_volsyncVars
    /\ WF_volsyncVars(HubWorks \/ \E c \in ClusterSet, p \in PVCs : Works(c, p))

-----------------------------------------------------------------------------
(* Properties.                                                              *)

\* Every object is well formed; a source that runs is there, a local source has
\* the snapshot of a destination, and what is mounted exists.
VolSyncTypeOK ==
    \A c \in ClusterSet : \A p \in PVCs :
        LET w == site[c].vol[p]
        IN /\ w \in VolumeType
           /\ w.rs.trigger # "none" <=> w.rs.there
           /\ w.mounted => w.pvc.there
           /\ w.pvc.there => w.pv.there
           /\ w.local.trigger # 0 => w.local.rd

\* The application never runs on half a transfer or, after a failover or a
\* relocation, on a new empty volume: the restore waits for an image, a direct
\* copy is rolled back behind a paused destination, and no destination writes
\* to a PVC in use.
HandedOverWhole ==
    \A c \in ClusterSet, p \in PVCs :
        site[c].vol[p].mounted =>
            /\ site[c].vol[p].data # Torn
            /\ site[c].spec.action # "none" => site[c].vol[p].data # 0

\* What runs at home after a relocation goes on from the last write.
RelocatedIsNewest ==
    \A p \in PVCs : site[home].vol[p].mounted => site[home].vol[p].data = written[p]

\* A source and a destination of the PVC are on the same cluster.
Looped(c, p) == site[c].vol[p].rs.there /\ site[c].vol[p].rd.there

\* A source and a destination of one PVC come to be on the same cluster in one
\* way only: in a pass in which the deletion of the source failed, which
\* cleanupRS logs before ReconcileRD goes on to make the destination.  In
\* every other pass ReconcileRD and ReconcileRS each remove the other first.
LoopsOnlyPastAFailedDelete ==
    [][\A c \in ClusterSet, p \in PVCs :
          ~Looped(c, p) /\ Looped(c, p)' => Reconcile(c, "deleteRS", p)]_volsyncVars

\* Such a loop is undone on a cluster that stays Secondary: a later pass
\* deletes the source (ReconcileRD), or the destination when the home no longer
\* protects the PVC (CleanupRDNotInSpecList).
LoopsAreUndone ==
    []<>(\A c \in ClusterSet, p \in PVCs : Looped(c, p) => site[c].spec.state = "Primary")

\* Disabling DR leaves the application its volume, and on neither cluster a
\* finalizer, a destination or a volume kept by Ramen, and a source only where
\* its deletion failed (cleanupResources, undoPVRetentionForVolSyncPVCs).
\* Until then what is there is well formed.
NothingLeftBehind ==
    /\ VolSyncTypeOK
    /\ \A c \in ClusterSet, p \in PVCs :
         site[c].spec.deleted /\ ~site[c].spec.there =>
             LET w == site[c].vol[p]
             IN /\ ~w.pvc.finalizer /\ ~w.rd.there /\ w.kept = 0 /\ ~w.tmp
                /\ w.rs.there => faults > 0 /\ "deleteRS" \in scene.calls
                /\ w.pvc.there => ~w.pv.ours
                /\ c = home /\ ~May("delete") => w.pvc.there /\ ~w.pvc.terminating

\* A relocation that began is carried through: both final syncs and the
\* restore end, and the application is placed on the other cluster.
RelocationEnds ==
    (site[home].spec.prep \/ placed = "none")
        ~> (placed = home /\ site[home].spec.action = "Relocate")

=============================================================================
