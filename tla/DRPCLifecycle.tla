--------------------------- MODULE DRPCLifecycle ---------------------------
(***************************************************************************)
(* The life of a DRPC beyond its actions: the loss of the hub and its      *)
(* restoration from a backup, the adoption of the VRGs that the restored   *)
(* hub finds, clusters that fail, and the deletion of the DRPC.            *)
(*                                                                         *)
(* A backup holds the DRPC without its status.  The ManifestWorks, the     *)
(* ManagedClusterViews and the PlacementDecision are not in it, and the    *)
(* spec may be older than the last one that the lost hub acted on.  The    *)
(* VRGs live on.                                                           *)
(***************************************************************************)
EXTENDS DRSystem, Steps

CONSTANT Scenes   \* what happens in a behavior, and how often

ASSUME SceneAssumption ==
  \A s \in Scenes : /\ s.acts \subseteq {"lose", "lose both", "stale",
                                         "stale failover", "delete", "fail",
                                         "return", "hasty", "other"}
                    /\ s.actions \cup s.answers \subseteq UserActions
                    /\ s.generations \in 0..MaxGeneration
                    /\ s.faults \in 0..MaxFaults

VARIABLES
  scene,      \* the scene of the behavior
  life,       \* "live", "deleted" by the user, "deleting" as its status
              \* says, or "gone"
  owner,      \* the clusters where the VRG in the ManifestWork, the VRG and
              \* its view carry the UID of the DRPC
  dels,       \* the clusters where they have a deletion timestamp
  answering,  \* the clusters whose view has an answer
  down,       \* the clusters that have failed
  decided,    \* the PlacementDecision exists
  backups,    \* the spec and the annotations of the DRPC in each backup
  stored,     \* the last Primary VRG that was uploaded to the S3 stores
  stale,      \* the restored spec is not the one that was lost
  lost        \* the hub has been lost

lifeVars == <<scene, life, owner, dels, answering, down, decided, backups,
              stored, stale, lost>>
allVars == <<vars, lifeVars>>

Copies == [mw : SUBSET Clusters, vrg : SUBSET Clusters, view : SUBSET Clusters]
Everywhere == [mw |-> Clusters, vrg |-> Clusters, view |-> Clusters]
Nowhere == [mw |-> {}, vrg |-> {}, view |-> {}]

dstCluster == IF spec.action = "Failover" THEN spec.failoverCluster
              ELSE spec.preferredCluster

(* getVRGsFromManagedClusters: the VRGs of the clusters that answer.       *)
getVRGsFromManagedClusters ==
  [c \in Clusters |-> IF c \in answering THEN view[c] ELSE NoVRG]

Found(v) == {c \in Clusters : Exists(v[c])}

AskedFor(s) == [s EXCEPT !.generation = 0]

InBackup(s, l) == [spec |-> AskedFor(s), lastAction |-> l]

(* The DRPC is backed up whenever it has changed, until the hub is lost.   *)
BackedUp == IF lost THEN backups ELSE backups \cup {InBackup(spec', lastAction')}

(* What a step leaves alone, but for some of the variables.                *)
UnchangedBut(changed) ==
  /\ UNCHANGED <<scene, stale, lost>>
  /\ backups' = BackedUp
  /\ "life" \notin changed => UNCHANGED <<life, dels>>
  /\ "answering" \notin changed => UNCHANGED <<answering, down>>
  /\ "owner" \notin changed => UNCHANGED owner
  /\ "stored" \notin changed => UNCHANGED stored
  /\ "decided" \notin changed => UNCHANGED decided
-----------------------------------------------------------------------------
(* Adoption.                                                               *)

(* ensureVRGsManagedByDRPC: the VRGs found that another instance of the    *)
(* DRPC created.                                                           *)
Unmanaged(v) == Found(v) \ (owner.view \cup dels.view)

(* Mutant: a VRG is adopted as a new Secondary.                            *)
adoptVRG_Anew(v, c) ==
  IF mw[c].state = "None" THEN [NoSpec EXCEPT !.state = "Secondary"] ELSE mw[c]

(* adoptVRG: a ManifestWork is created from the view, or the UID set in    *)
(* the one that exists.                                                    *)
adoptVRG(v, c) == IF mw[c].state = "None" THEN v[c].spec ELSE mw[c]

(* The clusters of cs are adopted.                                         *)
Adopted(v, cs) ==
  [mw |-> [c \in Clusters |-> IF c \in cs THEN adoptVRG(v, c) ELSE mw[c]],
   owner |-> [owner EXCEPT !.mw = @ \cup cs]]

(* The VRGs to adopt; one whose ManifestWork is being deleted is left.     *)
Orphans(v) == Unmanaged(v) \ dels.mw

ensureVRGsManagedByDRPC(v, cs) ==
  /\ mw' = Adopted(v, cs).mw
  /\ owner' = Adopted(v, cs).owner
-----------------------------------------------------------------------------
(* The state of a DRPC without a status.                                   *)

Verdict(c, v) == IF v[c].spec.action = spec.action /\ dstCluster = c
                 THEN "Continue" ELSE "AllowFailover"

(* One cluster failed to answer, and the other has no VRG: the S3 stores   *)
(* have the last Primary, or none.                                         *)
StateFromS3(failed) ==
  IF stored.cluster = NoCluster
  THEN IF failed # dstCluster THEN "Continue" ELSE "Stop"
  ELSE IF /\ spec.action = stored.action
          /\ dstCluster = stored.cluster
          /\ dstCluster # failed
       THEN "Continue" ELSE "AllowFailover"

(* One cluster failed to answer, and the other, c, has a VRG.              *)
StateFromOne(v, c) ==
  IF isVRGPrimary(v[c]) /\ dstCluster = c
  THEN IF spec.action = v[c].spec.action THEN "Continue" ELSE "Stop"
  ELSE "AllowFailover"

(* Both answered: a Primary decides, and if there are two, the first that  *)
(* the range over the map finds.                                           *)
StatesFromBoth(v) ==
  LET primary == {c \in Clusters : isVRGPrimary(v[c])} IN
  IF primary = {} /\ Found(v) = Clusters THEN {"Stop"}
  ELSE {Verdict(c, v) : c \in IF primary = {} THEN Found(v) ELSE primary}

(* determineDRPCState, with the VRGs v found.                              *)
determineState(v) ==
  LET failed == IF answering = Clusters THEN NoCluster
                ELSE CHOOSE c \in Clusters : c \notin answering
  IN
  CASE answering = Clusters /\ Found(v) = {} -> {"Continue"}
    [] /\ ~(answering = Clusters /\ Found(v) = {})
       /\ status.phase = "WaitForUser"
       /\ spec.action = "Failover"
       /\ spec.failoverCluster # failed -> {"Continue"}
    [] OTHER ->
         CASE answering = Clusters -> StatesFromBoth(v)
           [] answering # Clusters /\ Found(v) = {} -> {StateFromS3(failed)}
           [] answering # Clusters /\ Found(v) # {} ->
                {StateFromOne(v, c) : c \in Found(v)}

(* A reconcile starts.  VRGs that are not managed by the DRPC are adopted, *)
(* and the request is requeued; a DRPC without a status determines what to *)
(* do; otherwise the action goes on.                                       *)
ReconcileLive ==
  LET v == getVRGsFromManagedClusters
      rebuilding == status.phase \in {"", "WaitForUser"}
  IN
  /\ pc = "idle"
  /\ life = "live"
  /\ answering # {}
  /\ IF Orphans(v) # {}
     THEN /\ ensureVRGsManagedByDRPC(v, Orphans(v))
          /\ IF rebuilding
             THEN FinishInstance(Loaded(status),
                                 ensureDRPCStatusConsistency("Stop"))
             ELSE UNCHANGED <<reconcileVars, status, faults>>
          /\ UNCHANGED <<spec, lastAction, decisions, view>>
     ELSE /\ \E verdict \in IF rebuilding THEN determineState(v)
                            ELSE {"Continue"} :
               IF verdict = "Continue"
               THEN StartReconcile(v, answering = Clusters) /\ UNCHANGED faults
               ELSE FinishInstance(Loaded(status),
                                   ensureDRPCStatusConsistency(verdict))
          /\ UNCHANGED <<resourceVars, owner>>
  /\ faults' <= scene.faults
  /\ UNCHANGED clusterVars
  /\ UnchangedBut({"owner"})

(* The write of a ManifestWork fails: the error is only logged.            *)
AdoptionFails ==
  LET v == getVRGsFromManagedClusters IN
  /\ pc = "idle"
  /\ life = "live"
  /\ faults < scene.faults
  /\ faults' = faults + 1
  /\ \E c \in Orphans(v) : ensureVRGsManagedByDRPC(v, Orphans(v) \ {c})
  /\ UNCHANGED <<spec, lastAction, decisions, view, status, reconcileVars,
                 clusterVars>>
  /\ UnchangedBut({"owner"})

(* isValidFailoverTarget gets no answer from the failover cluster.         *)
TargetUnanswered ==
  /\ pc = "action"
  /\ inst.spec.action = "Failover"
  /\ failoverCluster \notin answering

(* The reconcile goes on.  Every VRG that it writes carries the UID.       *)
ReconcileGoesOn ==
  /\ IF TargetUnanswered THEN Finish(inst.status) /\ UNCHANGED resourceVars
     ELSE ReconcileStep
  /\ faults' <= scene.faults
  /\ owner' = [owner EXCEPT !.mw = @ \cup {c \in Clusters : mw'[c] # mw[c]}]
  /\ decided' = (decided \/ decisions' # decisions)
  /\ UNCHANGED clusterVars
  /\ UnchangedBut({"owner", "decided"})

ReconcileFails ==
  /\ WriteFails \/ Crash
  /\ faults' <= scene.faults
  /\ UNCHANGED clusterVars
  /\ UnchangedBut({})

(* numClustersQueriedSuccessfully is a field of the reconciler, which all  *)
(* DRPCs share: another one's reconcile overwrites it.                     *)
OtherReconcile ==
  /\ "other" \in scene.acts
  /\ pc = "action"
  /\ faults < scene.faults
  /\ faults' = faults + 1
  /\ queried' = ~queried
  /\ UNCHANGED <<resourceVars, status, pc, inst, vrgs, target, clusterVars>>
  /\ UnchangedBut({})
-----------------------------------------------------------------------------
(* The deletion of the DRPC, as steps on the record of what it writes.     *)

(* Mutant: the ManifestWorks of all VRGs go at once.                       *)
ensureVRGsDeleted_AnyState(w, v, state) ==
  CASE Found(v) = {} -> Go(w)
    [] Found(v) # {} /\ Orphans(v) # {} ->
         Requeue([w EXCEPT !.mw = Adopted(v, Orphans(v)).mw,
                           !.owner = Adopted(v, Orphans(v)).owner])
    [] OTHER -> Requeue([w EXCEPT !.dels.mw = @ \cup Found(v)])

(* Mutant: VRGs in the other state are waited for as well.                 *)
ensureVRGsDeleted_AnyLeft(w, v, state) ==
  LET mine == {c \in Found(v) : v[c].spec.state = state} IN
  IF Found(v) = {} THEN Go(w)
  ELSE Requeue([w EXCEPT !.dels.mw = @ \cup {c \in mine : mw[c].state # "None"}])

ensureVRGsDeleted(w, v, state) ==
  LET mine == {c \in Found(v) : v[c].spec.state = state} IN
  CASE mine = {} -> Go(w)
    [] mine # {} /\ Orphans(v) # {} ->
         Requeue([w EXCEPT !.mw = Adopted(v, Orphans(v)).mw,
                           !.owner = Adopted(v, Orphans(v)).owner])
    [] OTHER ->
         Requeue([w EXCEPT !.dels.mw =
                    @ \cup {c \in mine : mw[c].state # "None"}])

(* Mutant: the VRGs found in the other state are taken for deleted.        *)
cleanupVRGs_OneState(w) ==
  IF answering = {} THEN Requeue(w)
  ELSE With(getVRGsFromManagedClusters, LAMBDA v :
         ensureVRGsDeleted(w, v, "Secondary"))

cleanupVRGs(w) ==
  IF answering = {} THEN Requeue(w)
  ELSE With(getVRGsFromManagedClusters, LAMBDA v :
         Then(ensureVRGsDeleted(w, v, "Secondary"), LAMBDA x :
           ensureVRGsDeleted(x, v, "Primary")))

deleteAllManagedClusterViews(w) ==
  Go([w EXCEPT !.view = NoViews, !.answering = {},
               !.owner.view = {}, !.dels.view = {}])

(* processDeletion; done is whether the writes after the views succeed.    *)
processDeletion(w, done) ==
  Then(cleanupVRGs([w EXCEPT !.life = "deleting"]), LAMBDA x :
    Then(deleteAllManagedClusterViews(x), LAMBDA y :
      IF done THEN Go([y EXCEPT !.life = "gone"]) ELSE Requeue(y)))

ReconcileDeleted ==
  /\ pc = "idle"
  /\ life \in {"deleted", "deleting"}
  /\ \E done \in {TRUE} \cup (IF faults < scene.faults THEN {FALSE} ELSE {}) :
       \E r \in {processDeletion([life |-> life, mw |-> mw, view |-> view,
                                  owner |-> owner, dels |-> dels,
                                  answering |-> answering], done)} :
         /\ life' = r.w.life
         /\ mw' = r.w.mw
         /\ view' = r.w.view
         /\ owner' = r.w.owner
         /\ dels' = r.w.dels
         /\ answering' = r.w.answering
         /\ faults' = IF done THEN faults ELSE faults + 1
  /\ UNCHANGED <<spec, lastAction, decisions, status, reconcileVars,
                 clusterVars, down>>
  /\ UnchangedBut({"life", "owner", "answering"})
-----------------------------------------------------------------------------
(* The managed clusters.                                                   *)

(* The workload manager of a restored hub waits for the PlacementDecision. *)
Placed == IF decided THEN PlacedOn(decisions)
          ELSE {c \in Clusters : running[c]}

Uploads(c) == isVRGPrimary(vrg'[c]) /\ vrg'[c].status.clusterDataProtected

(* The ManifestWork as the work agent sees it.                             *)
Applied(c) == IF c \in dels.mw THEN NoSpec ELSE mw[c]

(* A step of the VRG or of the workload also brings the UID of an applied  *)
(* ManifestWork, and uploads a Primary.                                    *)
WithUpload(c) ==
  /\ owner' = IF vrg'[c].spec # vrg[c].spec
              THEN [owner EXCEPT !.vrg = @ \cup ({c} \cap owner.mw)] ELSE owner
  /\ stored' = IF vrg'[c] # vrg[c] /\ Uploads(c)
               THEN [cluster |-> c, action |-> vrg[c].spec.action] ELSE stored
  /\ UNCHANGED hubVars
  /\ UnchangedBut({"owner", "stored"})

ClusterWorks(c) ==
  /\ c \notin down
  /\ IF c \in dels.vrg THEN FollowsPlacement(c, Placed)
     ELSE NextVRG(c, Applied(c), Placed)
  /\ WithUpload(c)

(* The work agent applies a change of the annotations alone.               *)
ApplyAnnotation(c) ==
  /\ c \notin down
  /\ c \in owner.mw \ owner.vrg
  /\ vrg[c].spec = mw[c]
  /\ owner' = [owner EXCEPT !.vrg = @ \cup {c}]
  /\ UNCHANGED <<hubVars, clusterVars>>
  /\ UnchangedBut({"owner"})

(* The work agent deletes the VRG of a ManifestWork that is deleted.       *)
DeleteVRG(c) ==
  /\ c \notin down
  /\ c \in dels.mw \ dels.vrg
  /\ Exists(vrg[c])
  /\ dels' = [dels EXCEPT !.vrg = @ \cup {c}]
  /\ UNCHANGED <<hubVars, clusterVars, life>>
  /\ UnchangedBut({"life"})

(* The VRG has let go of its volumes: it is gone, and the ManifestWork.    *)
VRGDeleted(c) ==
  /\ c \notin down
  /\ c \in dels.mw
  /\ Exists(vrg[c]) => c \in dels.vrg
  /\ vrg' = [vrg EXCEPT ![c] = NoVRG]
  /\ mw' = [mw EXCEPT ![c] = NoSpec]
  /\ dels' = [dels EXCEPT !.mw = @ \ {c}, !.vrg = @ \ {c}]
  /\ owner' = [owner EXCEPT !.mw = @ \ {c}, !.vrg = @ \ {c}]
  /\ UNCHANGED <<spec, lastAction, decisions, view, status, reconcileVars,
                 faults, running, unsynced, life>>
  /\ UnchangedBut({"life", "owner"})

Sync(copies, c) ==
  [copies EXCEPT !.view = (@ \ {c}) \cup ({c} \cap copies.vrg)]

(* The view of c is refreshed.                                             *)
ViewRefreshed(c) ==
  /\ c \notin down
  /\ life # "gone"
  /\ \/ c \notin answering
     \/ view[c] # vrg[c]
     \/ owner # Sync(owner, c)
     \/ dels # Sync(dels, c)
  /\ view' = [view EXCEPT ![c] = vrg[c]]
  /\ owner' = Sync(owner, c)
  /\ dels' = Sync(dels, c)
  /\ answering' = answering \cup {c}
  /\ UNCHANGED <<spec, lastAction, decisions, mw, status, reconcileVars,
                 faults, clusterVars, life, down>>
  /\ UnchangedBut({"life", "owner", "answering"})

(* Cluster c fails.  Its view answers no more, or goes on answering with   *)
(* what it has.                                                            *)
ClusterFails(c) ==
  /\ "fail" \in scene.acts
  /\ pc = "idle"
  /\ down = {}
  /\ down' = {c}
  /\ answering' \in {answering, answering \ {c}}
  /\ UNCHANGED <<hubVars, clusterVars>>
  /\ UnchangedBut({"answering"})

ClusterReturns(c) ==
  /\ "return" \in scene.acts
  /\ pc = "idle"
  /\ c \in down
  /\ down' = {}
  /\ UNCHANGED <<hubVars, clusterVars, answering>>
  /\ UnchangedBut({"answering"})
-----------------------------------------------------------------------------
(* The user, the backup and the loss of the hub.                           *)

(* What was asked for last is reported completed.                          *)
Settled ==
  ReportsCompleted(CASE spec.action = "" -> "Deployed"
                     [] spec.action = "Failover" -> "FailedOver"
                     [] spec.action = "Relocate" -> "Relocated")

Patient == "hasty" \in scene.acts \/ Settled

(* The user moves the workload.                                            *)
SetActionLive(action, c) ==
  /\ life = "live"
  /\ c \notin ActiveClusters(decisions)
  /\ action \in IF lost THEN scene.answers ELSE scene.actions
  /\ spec.generation < scene.generations
  /\ Patient \/ status.phase = "WaitForUser"
  /\ SetAction(action, c)
  /\ stale' = FALSE
  /\ backups' = BackedUp
  /\ UNCHANGED <<scene, life, owner, dels, answering, down, decided, stored,
                 lost>>

(* The deletion timestamp changes the generation.                          *)
DeleteDRPC ==
  /\ "delete" \in scene.acts
  /\ life = "live"
  /\ spec.generation < scene.generations
  /\ Patient
  /\ life' = "deleted"
  /\ spec' = [spec EXCEPT !.generation = @ + 1]
  /\ UNCHANGED <<lastAction, decisions, mw, view, status, reconcileVars,
                 faults, clusterVars, dels>>
  /\ UnchangedBut({"life"})

(* The hub is lost, perhaps with a cluster, and restored from backup b.    *)
LoseHub(failed, b) ==
  /\ (IF failed = {} THEN "lose" ELSE "lose both") \in scene.acts
  /\ ~lost
  /\ life = "live"
  /\ Patient
  /\ down \subseteq failed
  /\ lost' = TRUE
  /\ \/ b = InBackup(spec, lastAction)
     \/ (IF b.spec.action = "Failover" THEN "stale failover" ELSE "stale")
          \in scene.acts
  /\ stale' = (b.spec # AskedFor(spec))
  /\ spec' = b.spec
  /\ lastAction' = b.lastAction
  /\ backups' = {}
  /\ status' = NewDRPCStatus
  /\ decisions' = NoDecisions
  /\ decided' = FALSE
  /\ mw' = [c \in Clusters |-> NoSpec]
  /\ view' = NoViews
  /\ owner' = Nowhere
  /\ dels' = Nowhere
  /\ answering' = {}
  /\ down' = failed
  /\ EndReconcile
  /\ UNCHANGED <<faults, clusterVars, scene, life, stored>>
-----------------------------------------------------------------------------
HubWorks == ReconcileLive \/ ReconcileGoesOn \/ ReconcileDeleted

NextLifecycle ==
  \/ HubWorks \/ AdoptionFails \/ ReconcileFails \/ OtherReconcile
  \/ \E c \in Clusters :
       \/ ClusterWorks(c) \/ ApplyAnnotation(c) \/ ViewRefreshed(c)
       \/ DeleteVRG(c) \/ VRGDeleted(c)
       \/ ClusterFails(c) \/ ClusterReturns(c)
  \/ \E c \in Clusters, action \in UserActions : SetActionLive(action, c)
  \/ DeleteDRPC
  \/ \E failed \in {{}} \cup {{c} : c \in Clusters}, b \in backups :
       LoseHub(failed, b)

(* A DRPC with the backups since it was created.                           *)
NewLife(s, older) ==
  /\ scene = s
  /\ life = "live"
  /\ owner = IF status.phase = "" THEN Nowhere ELSE Everywhere
  /\ dels = Nowhere
  /\ answering = Clusters
  /\ down = {}
  /\ decided = TRUE
  /\ backups = older \cup {InBackup(spec, lastAction)}
  /\ stored = lastAction
  /\ stale = FALSE
  /\ lost = FALSE

(* Fairness.  The controllers requeue a request until it needs nothing     *)
(* more, so the hub goes on reconciling; a cluster that is up goes on      *)
(* working, its work agent applying and deleting, and its view answers.    *)
FairLifecycle ==
  /\ WF_allVars(HubWorks)
  /\ \A c \in Clusters :
       /\ WF_allVars(/\ c \notin down \cup dels.vrg
                     /\ Works(c, Applied(c))
                     /\ WithUpload(c))
       /\ WF_allVars(/\ c \notin down
                     /\ FollowsPlacement(c, Placed)
                     /\ WithUpload(c))
       /\ WF_allVars(ApplyAnnotation(c) \/ DeleteVRG(c) \/ VRGDeleted(c))
       /\ WF_allVars(ViewRefreshed(c))
-----------------------------------------------------------------------------
(* Every variable keeps its type, and no VRG carries a UID or a deletion   *)
(* that its ManifestWork does not, until the hub is lost.                  *)
LifecycleTypeOK ==
  /\ TypeOK
  /\ scene \in Scenes
  /\ life \in {"live", "deleted", "deleting", "gone"}
  /\ owner \in Copies /\ owner.vrg \subseteq owner.mw
  /\ dels \in Copies /\ dels.vrg \subseteq dels.mw
  /\ answering \subseteq Clusters
  /\ down \subseteq Clusters
  /\ decided \in BOOLEAN
  /\ backups \subseteq [spec : Specs, lastAction : Annotations]
  /\ stored \in Annotations
  /\ stale \in BOOLEAN /\ lost \in BOOLEAN

(* A hub restored from a backup that is older than the last action waits   *)
(* for the user: whatever determineDRPCState finds, no ManifestWork that   *)
(* it writes makes a VRG Primary or Secondary that is not so already.      *)
StaleSpecIsInert ==
  [][stale /\ stale' =>
       \A c \in Clusters :
         mw'[c].state \in {"None", mw[c].state, vrg[c].spec.state}]_allVars

(* A restored hub takes up what was asked for last, completed or not: with *)
(* the clusters up, the DRPC reports it completed in the end, manages both *)
(* VRGs, and the workload runs where it should, and nowhere else.          *)
RecoveryResumes ==
  <>[](lost /\ ~stale /\ life = "live" /\ down = {}) =>
    <>[](Settled /\ owner.mw = Clusters /\ RunsOnlyOn(dstCluster))

(* A failover restores the workload on the failover cluster even if the    *)
(* other cluster fails, with or without the hub.                           *)
FailoverRecovers ==
  \A c \in Clusters :
    <>[](/\ life = "live" /\ ~stale
         /\ spec.action = "Failover" /\ spec.failoverCluster = c
         /\ c \notin down) =>
      <>[](getClusterDecision(decisions) = c /\ running[c])

(* A relocation that is asked for when the peer is ready ends, even if a   *)
(* cluster is down for a while: it is reported completed, and the workload *)
(* runs on the preferred cluster alone.                                    *)
RelocateCompletes ==
  \A c \in Clusters :
    <>[](/\ life = "live" /\ ~lost /\ down = {}
         /\ spec.action = "Relocate" /\ spec.preferredCluster = c) =>
      <>[](ReportsCompleted("Relocated") /\ RunsOnlyOn(c))

(* The VRG of the Primary is deleted only when there is no Secondary any   *)
(* more (cleanupVRGs).                                                     *)
SecondaryDeletedFirst ==
  [][\A c \in dels'.mw \ dels.mw :
       isVRGPrimary(vrg[c]) => ~Exists(vrg[Peer(c)])]_allVars

(* When the DRPC is gone, no ManifestWork and no VRG is left, and at all   *)
(* times the state is well formed.                                         *)
NoVRGLeftBehind ==
  /\ LifecycleTypeOK
  /\ life = "gone" => \A c \in Clusters : mw[c] = NoSpec /\ ~Exists(vrg[c])

(* The deletion of a DRPC ends.                                            *)
DRPCDeletionCompletes == []<>(life \notin {"deleted", "deleting"})
=============================================================================
