----------------------------- MODULE DRCluster -----------------------------
(***************************************************************************)
(* The DRCluster controller of the hub: deploying to a managed cluster,    *)
(* fencing it from its peer, validating it, holding storage backends in    *)
(* maintenance while workloads fail over to it, and deleting it.  The work *)
(* agents, the views, csi-addons and the storage backends are around it,   *)
(* and so are the DRPCs, which wait for what it reports before they fail   *)
(* over.                                                                   *)
(***************************************************************************)
EXTENDS Integers, FiniteSetsExt, SequencesExt, Steps

CONSTANTS
    DRClusters,  \* the names of the clusters
    NFClasses,   \* the NetworkFenceClasses there may be
    Backends,    \* storage backends that need maintenance for a failover
    None,        \* no name
    Scenes       \* the situations to explore: see SceneType

FenceStates == {"", "Fenced", "Unfenced", "ManuallyFenced", "ManuallyUnfenced"}

\* Spec.CIDRs, as they compare with those detected on the cluster.
CIDRs == {"none", "equal", "more", "fewer", "malformed"}

\* The calls of a pass that may fail: reading the configuration, deploying, the
\* object store, its copy of a VRG, a view, creating or deleting a ManifestWork
\* (the last of several), saving the status.
Calls == {"config", "deploy", "s3", "s3vrg", "view", "work", "save"}

\* What users may wait for: that the last fence request is through before the
\* next, and that a backend is released or still held, and not on its way out,
\* before the next failover.
Waits == {"settled", "released"}

\* The policies in the order they are listed and those that users may delete;
\* the workloads, whether the VRG each leaves behind can be seen; for each
\* cluster whether it is set up already, its NetworkFenceClasses, its CIDRs and
\* what users may do to it; what they wait for (Waits); the clusters out of
\* reach; the calls that may fail; bounds on the changes users make and on
\* failures.
SceneType ==
    [policies : Seq([clusters : Seq(DRClusters), metro : BOOLEAN]), gone : SUBSET Nat,
     apps : Seq([policy : Nat, backend : Backends, seen : BOOLEAN]),
     old : SUBSET DRClusters, classes : [DRClusters -> SUBSET NFClasses], cidrs : [DRClusters -> CIDRs],
     acts : [DRClusters -> SUBSET (FenceStates \cup CIDRs \cup {"delete", "failover", "withdraw"})],
     waits : SUBSET Waits, dead : SUBSET DRClusters, calls : SUBSET Calls, changes : Nat, faults : Nat]

ASSUME SceneAssumption == Scenes \subseteq SceneType

VARIABLES
    scene,     \* one of Scenes, never changed
    drc,       \* cluster -> its DRCluster
    queued,    \* the clusters whose DRCluster is to be reconciled
    work,      \* the ManifestWorks: nf by key, deploy and config by cluster, mode by cluster and backend
    view,      \* the ManagedClusterViews: nf by key, config by cluster, mode by cluster and backend
    site,      \* what is on the clusters: nf by key, config by cluster, mode by cluster and backend
    blocked,   \* the keys by which a cluster is cut off from its storage
    app,       \* workload -> its DRPC
    policies,  \* the positions of the policies that exist
    changes, faults

drcVars == <<scene, drc, queued, work, view, site, blocked, app, policies, changes, faults>>

\* A fence is of one cluster, with one class ("" is the generic one), at another.
Keys == {k \in DRClusters \X (NFClasses \cup {""}) \X DRClusters : k[1] # k[3]}
Modes == DRClusters \X Backends

\* A view that is not there, was asked for, or shows that there is nothing.
NoView == [st |-> "noview"]
Asked == [st |-> "asked"]
Nothing == [st |-> "nothing"]
Unread(v) == v \in {NoView, Asked}

There(c) == drc[c].st = "there"
Exists(c) == drc[c].st # "none"
Policy(i) == scene.policies[i]

-----------------------------------------------------------------------------
(* The state w of a pass over one DRCluster: the object o with its status   *)
(* in memory, the works, the views and whether the pass is to run again.    *)

Requeued(w) == [w EXCEPT !.requeue = TRUE]
setDRClusterPhase(w, p) == [w EXCEPT !.o.phase = p]
Conditions(w, fenced, clean) == [w EXCEPT !.o.fenced = fenced, !.o.clean = clean, !.o.observed = TRUE]

setDRClusterFencingCondition(w) == Conditions(w, FALSE, TRUE)
setDRClusterUnfencingCondition(w) == Conditions(w, TRUE, FALSE)
setDRClusterCleaningCondition(w) == Conditions(w, FALSE, FALSE)
setDRClusterFencedCondition(w) == Conditions(w, TRUE, FALSE)
setDRClusterUnfencedCondition(w) == Conditions(w, FALSE, FALSE)
setDRClusterCleanCondition(w) == Conditions(w, FALSE, TRUE)
setDRClusterFencingFailedCondition(w) == Conditions(w, FALSE, TRUE)
setDRClusterUnfencingFailedCondition(w) == Conditions(w, TRUE, FALSE)

\* A work that is being deleted takes the new content and goes all the same.
createOrUpdateManifestWork(old, content) == IF old = "terminating" THEN old ELSE content
DeleteManifestWork(old) == IF old = "none" THEN old ELSE "terminating"

\* Reading a view that is not there asks for it.
Read(v) == IF v = NoView THEN Asked ELSE v

-----------------------------------------------------------------------------
(* Fencing.                                                                 *)

PoliciesListed == SelectSeq([i \in DOMAIN scene.policies |-> i], LAMBDA i : i \in policies)
DrpolicyContainsDrcluster(i, c) == c \in Range(Policy(i).clusters)

\* (All clusters are of one region: the first that can serve as a peer does.)
getPeerFromPolicy(i, c) == SelectSeq(Policy(i).clusters, LAMBDA p : p # c /\ There(p))

\* The peer, or None: the first policy that has one decides.
getPeerCluster(c) ==
    FoldLeft(LAMBDA peer, i :
        IF peer = None /\ DrpolicyContainsDrcluster(i, c) /\ getPeerFromPolicy(i, c) # <<>>
        THEN Head(getPeerFromPolicy(i, c)) ELSE peer,
        None, PoliciesListed)

\* The classes that match a cluster's storage; without any there is the
\* generic fence.
findMatchingNFClasses(classes) == IF classes = {} THEN <<"">> ELSE SetToSeq(classes)

\* The view of a cluster's DRClusterConfig is asked for by reading it.
getDRCCFromCluster(w, p) == [w EXCEPT !.view.config[p] = Read(@)]
DRCCUnread(w, p, f) == f = "view" \/ Unread(w.view.config[p])

getNFClassesFromDRClusterConfig(w, p, f) ==
    With(getDRCCFromCluster(w, p), LAMBDA x :
        IF DRCCUnread(x, p, f) \/ x.view.config[p] = Nothing THEN Requeue(Requeued(x)) ELSE Go(x))

\* The step for every class of the cluster p, until one is not through.
OnEachClass(w, c, p, f, Step(_, _, _)) ==
    Then(getNFClassesFromDRClusterConfig(w, p, f), LAMBDA x :
        With(findMatchingNFClasses(x.view.config[p].classes), LAMBDA classes :
            FoldLeft(LAMBDA r, k : Then(r, LAMBDA y : Step(y, <<c, k, p>>, k = Last(classes))), Go(x), classes)))

FailedTo(w) == IF w.o.fence = "Fenced" THEN setDRClusterFencingFailedCondition(w)
               ELSE setDRClusterUnfencingFailedCondition(w)

createNFManifestWork(w, k, last, f) ==
    IF w.o.cidrs = "none" \/ (f = "work" /\ last) THEN Requeue(Requeued(FailedTo(w)))
    ELSE Go([w EXCEPT !.work.nf[k] = createOrUpdateManifestWork(@, w.o.fence)])

isFencingOrFenced(o) == o.phase \in {"Fencing", "Fenced"}
isUnfencingOrUnfenced(o) == o.phase \in {"Unfencing", "Unfenced"}

advanceToNextPhase(w) ==
    setDRClusterPhase(w, CASE w.o.phase = "Fencing" -> "Fenced"
                           [] w.o.phase = "Unfencing" -> "Unfenced"
                           [] OTHER -> w.o.phase)

\* The NetworkFence is seen in the state asked for, and to have got there.
checkResult(w, v) ==
    CASE v.fence # w.o.fence -> Requeue(Requeued(w))
      [] v.result # "Succeeded" -> Requeue(Requeued(FailedTo(w)))
      [] OTHER -> Go(w)

ReadNF(w, k) == [w EXCEPT !.view.nf[k] = Read(@)]


checkFenceStatus(w, k) ==
    With(ReadNF(w, k), LAMBDA x :
        IF Unread(x.view.nf[k]) \/ x.view.nf[k] = Nothing THEN Requeue(Requeued(x))
        ELSE checkResult(x, x.view.nf[k]))

\* (The work is looked for under a name no work has, and never found.)
requeueIfNFMWExists(w) == Go(w)

\* (Only the state is asked for.)
checkUnfenceStatus_StateOnly(w, k) ==
    With(ReadNF(w, k), LAMBDA x :
        CASE Unread(x.view.nf[k]) -> Requeue(Requeued(x))
          [] x.view.nf[k] = Nothing -> requeueIfNFMWExists(x)
          [] OTHER -> IF x.view.nf[k].fence # w.o.fence THEN Requeue(Requeued(x)) ELSE Go(x))

checkUnfenceStatus(w, k) ==
    With(ReadNF(w, k), LAMBDA x :
        CASE Unread(x.view.nf[k]) -> Requeue(Requeued(x))
          [] x.view.nf[k] = Nothing -> requeueIfNFMWExists(x)
          [] OTHER -> checkResult(x, x.view.nf[k]))

clusterFence(w, c, f) ==
    With(getPeerCluster(c), LAMBDA p :
        CASE p = None -> Requeued(w)
          [] isFencingOrFenced(w.o) ->
             Then(OnEachClass(w, c, p, f, LAMBDA x, k, last : checkFenceStatus(x, k)),
                  LAMBDA x : Go(advanceToNextPhase(setDRClusterFencedCondition(x)))).w
          [] OTHER ->
             Then(OnEachClass(w, c, p, f, LAMBDA x, k, last : createNFManifestWork(x, k, last, f)),
                  LAMBDA x : Go(Requeued(setDRClusterPhase(setDRClusterFencingCondition(x), "Fencing")))).w)

\* The works of every class the cluster at has now are deleted; there are none
\* of a cluster at itself.
removeFencingCR(w, c, at, f) ==
    OnEachClass(w, c, at, f, LAMBDA x, k, last :
        IF f = "work" /\ last THEN Requeue(Requeued(x))
        ELSE IF at = c THEN Go(x) ELSE Go([x EXCEPT !.work.nf[k] = DeleteManifestWork(@)]))

\* One that cannot be cleaned does not keep the other from it.
cleanClusters(w, c, peer, f) ==
    With(removeFencingCR(w, c, c, f), LAMBDA r :
        With(removeFencingCR(r.w, c, peer, f), LAMBDA s :
            IF r.res = "go" /\ s.res = "go" THEN Go(setDRClusterCleanCondition(s.w))
            ELSE Requeue(setDRClusterCleaningCondition(s.w))))

clusterUnfence(w, c, f) ==
    With(getPeerCluster(c), LAMBDA p :
        CASE p = None -> Requeued(w)
          [] isUnfencingOrUnfenced(w.o) ->
             Then(OnEachClass(w, c, p, f, LAMBDA x, k, last : checkUnfenceStatus(x, k)),
                  LAMBDA x : cleanClusters(advanceToNextPhase(setDRClusterUnfencedCondition(x)), c, p, f)).w
          [] OTHER ->
             Then(OnEachClass(w, c, p, f, LAMBDA x, k, last : createNFManifestWork(x, k, last, f)),
                  LAMBDA x : Go(Requeued(setDRClusterPhase(setDRClusterUnfencingCondition(x), "Unfencing")))).w)

clusterFenceHandle(w, c, f) ==
    CASE w.o.fence = "Unfenced" -> clusterUnfence(w, c, f)
      [] w.o.fence = "ManuallyFenced" -> setDRClusterPhase(setDRClusterFencedCondition(w), "Fenced")
      [] w.o.fence = "ManuallyUnfenced" -> setDRClusterPhase(setDRClusterCleanCondition(w), "Unfenced")
      [] w.o.fence = "Fenced" -> clusterFence(w, c, f)
      [] OTHER -> setDRClusterPhase(setDRClusterCleanCondition(w), "Available")

-----------------------------------------------------------------------------
(* Maintenance modes.                                                       *)

\* A DRPC asks for a failover and is not Available at its generation.
InFailover(d) == app[d].action = "Failover" /\ app[d].available # "True"
GetDRClusters(i) == \A p \in Range(Policy(i).clusters) : Exists(p)

\* The workloads failing over to a cluster.  A policy with a missing cluster
\* ends the search in an error, one with a single cluster without a result, a
\* metro one with what was found before it.
DRPCsFailingOverToCluster(c) ==
    FoldLeft(LAMBDA r, i :
        CASE r.res # "go" \/ ~DrpolicyContainsDrcluster(i, c) -> r
          [] ~GetDRClusters(i) -> [r EXCEPT !.res = "error"]
          [] Len(Policy(i).clusters) <= 1 -> [ds |-> {}, res |-> "nothing"]
          [] Policy(i).metro -> [r EXCEPT !.res = "break"]
          [] OTHER -> [r EXCEPT !.ds = @ \cup {d \in DOMAIN app :
                          scene.apps[d].policy = i /\ InFailover(d) /\ app[d].target = c}],
        [ds |-> {}, res |-> "go"], PoliciesListed)

Backend(d) == scene.apps[d].backend

\* The VRG that was Primary elsewhere is seen, or else read from the object
\* store; unread, nothing is required.
requiresRegionalFailoverPrerequisites(d, f) == IF scene.apps[d].seen \/ f # "s3vrg" THEN {Backend(d)} ELSE {}
checkFailoverMaintenanceActivations(o, required) == \A b \in required : o.modes[b] = "Activated"

activateRegionalFailoverPrequisites(w, c, required, f) ==
    CASE checkFailoverMaintenanceActivations(w.o, required) -> w
      [] f = "work" -> Requeued(w)
      [] OTHER -> [w EXCEPT !.work.mode = [k \in Modes |->
                      IF k[1] = c /\ k[2] \in required THEN createOrUpdateManifestWork(@[k], "there") ELSE @[k]]]

\* A VRG of the workload is seen to use the backend: the one it leaves, or the
\* one it has at its new place.
mmodeStillNeededByFailoverDRPC(ds, b) ==
    \E d \in ds : Backend(d) = b /\ (scene.apps[d].seen \/ app[d].phase = "started")

Listed(w, c) == {b \in Backends : w.work.mode[<<c, b>>] # "none"}
Survivors(w, c, ds, required) ==
    {b \in Listed(w, c) : b \in required \/ mmodeStillNeededByFailoverDRPC(ds, b)}

pruneMModesActivations(w, c, survivors, f) ==
    CASE Listed(w, c) \subseteq survivors -> w
      [] f = "work" -> Requeued(w)
      [] OTHER -> [w EXCEPT !.work.mode = [k \in Modes |->
                      IF k[1] = c /\ k[2] \notin survivors THEN DeleteManifestWork(@[k]) ELSE @[k]]]

\* (No view is asked for.)
createMModeMCV_Never(v, survivor) == v

\* A view that shows nothing of a mode that is over is deleted; one that still
\* shows the mode is reported.
createMModeMCV(v, survivor) == IF survivor THEN Read(v) ELSE v
pruneMModeMCV(v, survivor) == IF v = Nothing /\ ~survivor THEN NoView ELSE v
reportMMode(v, survivor) ==
    CASE v = NoView -> "none"
      [] v \in {Asked, Nothing} -> IF survivor THEN "Unknown" ELSE "none"
      [] OTHER -> v.st

updateMModeActivationStatus(w, c, survivors) ==
    With([b \in Backends |-> createMModeMCV(w.view.mode[<<c, b>>], b \in survivors)], LAMBDA v :
        [w EXCEPT !.o.modes = [b \in Backends |-> reportMMode(v[b], b \in survivors)],
                  !.view.mode = [k \in Modes |->
                      IF k[1] = c THEN pruneMModeMCV(v[k[2]], k[2] \in survivors) ELSE @[k]],
                  !.requeue = @ \/ \E b \in Backends :
                      v[b] = Asked \/ (b \in survivors /\ v[b] = Nothing)])

clusterMModeHandler(w, c, f) ==
    With(DRPCsFailingOverToCluster(c), LAMBDA failing :
        IF failing.res = "error" THEN Requeued(w)
        ELSE With(UNION {requiresRegionalFailoverPrerequisites(d, f) : d \in failing.ds}, LAMBDA required :
             With(activateRegionalFailoverPrequisites(w, c, required, f), LAMBDA x :
                 With(Survivors(x, c, failing.ds, required), LAMBDA survivors :
                     updateMModeActivationStatus(pruneMModesActivations(x, c, survivors, f), c, survivors)))))

-----------------------------------------------------------------------------
(* A pass.                                                                  *)

validatedSetFalseAndUpdate(w) == Requeue(Requeued([w EXCEPT !.o.valid = "False"]))

drClusterDeploy(w, c, f) ==
    IF f = "deploy" THEN validatedSetFalseAndUpdate(w)
    ELSE Go([w EXCEPT !.work.deploy[c] = IF @ = "none" THEN "created" ELSE @])

getDRClusterDeployedStatus(w, c) == IF w.work.deploy[c] = "applied" THEN Go(w) ELSE validatedSetFalseAndUpdate(w)

ensureDRClusterConfig(w, c, f) ==
    IF f = "work" THEN validatedSetFalseAndUpdate(w)
    ELSE With([w EXCEPT !.work.config[c] = IF @ = "none" THEN "created" ELSE @], LAMBDA x :
             IF x.work.config[c] = "applied" THEN Go(x) ELSE validatedSetFalseAndUpdate(x))

\* (A cluster without NetworkFenceClasses detects no CIDRs: all are more.)
Compared(cidrs, classes) == IF classes = {} THEN "more" ELSE cidrs

validateCIDRs(w, c, f) ==
    IF w.o.cidrs = "none" THEN Go([w EXCEPT !.o.cidrsCond = "none"])
    ELSE IF w.o.cidrs = "malformed" THEN validatedSetFalseAndUpdate([w EXCEPT !.o.cidrsCond = "InvalidFormat"])
    ELSE With(getDRCCFromCluster(w, c), LAMBDA x :
        CASE DRCCUnread(x, c, f) -> validatedSetFalseAndUpdate(x)
          [] x.view.config[c] = Nothing \/ ~x.view.config[c].processed -> Go(x)
          [] Compared(x.o.cidrs, x.view.config[c].classes) = "fewer" ->
             validatedSetFalseAndUpdate([x EXCEPT !.o.cidrsCond = "Unconfigured"])
          [] Compared(x.o.cidrs, x.view.config[c].classes) = "more" -> Go([x EXCEPT !.o.cidrsCond = "Undetected"])
          [] OTHER -> Go([x EXCEPT !.o.cidrsCond = "Succeeded"]))

validateS3Profile(w, f) == IF f = "s3" THEN validatedSetFalseAndUpdate(w) ELSE Go(w)

\* A fence is asked for first: the cluster may fail every other check.
processCreateOrUpdate(w, c, f) ==
    IF f = "config" THEN validatedSetFalseAndUpdate(w).w
    ELSE Then(Then(Then(Then(Then(drClusterDeploy([w EXCEPT !.o.fin = TRUE], c, f),
        LAMBDA x : validateS3Profile(clusterFenceHandle(x, c, f), f)),
        LAMBDA x : getDRClusterDeployedStatus(x, c)),
        LAMBDA x : ensureDRClusterConfig(x, c, f)),
        LAMBDA x : validateCIDRs(x, c, f)),
        LAMBDA x : Go(clusterMModeHandler([x EXCEPT !.o.valid = "True"], c, f))).w

\* (A DRCluster has no namespace: the works of every cluster are listed.)
drClusterMModeCleanup(w, c) ==
    [w EXCEPT !.work.mode = [k \in Modes |-> DeleteManifestWork(@[k])],
              !.view.mode = [k \in Modes |-> IF k[1] = c THEN NoView ELSE @[k]]]

drClusterUndeploy(w, c, f) ==
    IF f = "view" \/ \E i \in policies : DrpolicyContainsDrcluster(i, c) THEN Requeue(Requeued(w))
    ELSE With([w EXCEPT !.view.config[c] = NoView, !.work.config[c] = DeleteManifestWork(@)], LAMBDA x :
        CASE x.work.config[c] # "none" -> Requeue(Requeued(x))
          [] f = "work" -> Requeue(Requeued(drClusterMModeCleanup(x, c)))
          [] OTHER -> Go([drClusterMModeCleanup(x, c) EXCEPT !.work.deploy[c] = DeleteManifestWork(@)]))

handleDeletion(w, c, f) ==
    With(getPeerCluster(c), LAMBDA p :
        IF p = None THEN Requeue(Requeued(w)) ELSE cleanClusters(w, c, p, f))

\* The status is not saved on the way, and the finalizer goes last.
processDeletion(w, c, f) ==
    With(Then(Then(drClusterUndeploy(w, c, f),
        LAMBDA x : IF x.o.fence \in {"Fenced", "Unfenced"} THEN handleDeletion(x, c, f) ELSE Go(x)),
        LAMBDA x : Go([x EXCEPT !.o.st = "none"])), LAMBDA r :
        IF r.w.o.st = "none" THEN r.w ELSE [r.w EXCEPT !.o = w.o])

initializeStatus(o) == IF o.phase = "" THEN [o EXCEPT !.phase = "Starting"] ELSE o

Passed(c, f) ==
    With([o |-> initializeStatus(drc[c]), work |-> work, view |-> view, requeue |-> FALSE], LAMBDA w :
        IF drc[c].st = "deleting" THEN processDeletion(w, c, f) ELSE processCreateOrUpdate(w, c, f))

\* A status that is not saved is lost, and the pass does not run again for it
\* where it was to end well.
Saved(c, r, f) == IF f = "save" THEN [drc[c] EXCEPT !.fin = r.o.fin] ELSE r.o

Reconcile(c, f) ==
    /\ Exists(c) /\ c \in queued
    /\ f # "none" => faults < scene.faults
    /\ faults' = IF f # "none" THEN faults + 1 ELSE faults
    /\ \E r \in {Passed(c, f)} :
        /\ drc' = [drc EXCEPT ![c] = Saved(c, r, f)]
        /\ work' = r.work /\ view' = r.view
        /\ queued' = IF r.requeue \/ drc'[c] # drc[c] \/ (f = "save" /\ drc[c].st = "deleting")
                     THEN queued ELSE queued \ {c}
    /\ UNCHANGED <<scene, site, blocked, app, policies, changes>>

-----------------------------------------------------------------------------
(* The clusters.                                                            *)

Alive(c) == c \notin scene.dead
Enqueue(c) == queued' = IF Exists(c) THEN queued \cup {c} ELSE queued

Deployed(c) ==
    /\ Alive(c)
    /\ \/ /\ work.deploy[c] = "created" /\ work' = [work EXCEPT !.deploy[c] = "applied"]
          /\ Enqueue(c)
       \/ /\ work.deploy[c] = "terminating" /\ work' = [work EXCEPT !.deploy[c] = "none"]
          /\ UNCHANGED queued
    /\ UNCHANGED <<scene, drc, view, site, blocked, app, policies, changes, faults>>

\* The DRClusterConfig is created, later processed, and removed with its work;
\* the controller does not hear of its work.
Configured(c) ==
    /\ Alive(c)
    /\ \/ /\ work.config[c] = "created" /\ work' = [work EXCEPT !.config[c] = "applied"]
          /\ site' = [site EXCEPT !.config[c] = [st |-> "there", processed |-> FALSE, classes |-> {}]]
       \/ /\ site.config[c] # Nothing /\ ~site.config[c].processed
          /\ site' = [site EXCEPT !.config[c] = [@ EXCEPT !.processed = TRUE, !.classes = scene.classes[c]]]
          /\ UNCHANGED work
       \/ /\ work.config[c] = "terminating" /\ work' = [work EXCEPT !.config[c] = "none"]
          /\ site' = [site EXCEPT !.config[c] = Nothing]
    /\ UNCHANGED <<scene, drc, queued, view, blocked, app, policies, changes, faults>>

\* The work agent applies or removes a NetworkFence; a new state has no result
\* yet.  Removing the NetworkFence lifts nothing.
FenceApplied(k) ==
    /\ Alive(k[3])
    /\ \/ /\ work.nf[k] \in {"Fenced", "Unfenced"}
          /\ IF site.nf[k] = Nothing THEN TRUE ELSE site.nf[k].fence # work.nf[k]
          /\ site' = [site EXCEPT !.nf[k] = [st |-> "there", fence |-> work.nf[k], result |-> "none"]]
          /\ UNCHANGED work /\ Enqueue(k[1])
       \/ /\ work.nf[k] = "terminating" /\ work' = [work EXCEPT !.nf[k] = "none"]
          /\ site' = [site EXCEPT !.nf[k] = Nothing]
          /\ UNCHANGED queued
    /\ UNCHANGED <<scene, drc, view, blocked, app, policies, changes, faults>>

\* csi-addons does what the NetworkFence says, now or when it tries again.
FenceServed(k) ==
    /\ Alive(k[3]) /\ site.nf[k] # Nothing /\ site.nf[k].result # "Succeeded"
    /\ site' = [site EXCEPT !.nf[k] = [@ EXCEPT !.result = "Succeeded"]]
    /\ blocked' = IF site.nf[k].fence = "Fenced" THEN blocked \cup {k} ELSE blocked \ {k}
    /\ UNCHANGED <<scene, drc, queued, work, view, app, policies, changes, faults>>

FenceFails(k) ==
    /\ Alive(k[3]) /\ site.nf[k] # Nothing /\ site.nf[k].result = "none"
    /\ faults < scene.faults /\ faults' = faults + 1
    /\ site' = [site EXCEPT !.nf[k] = [@ EXCEPT !.result = "Failed"]]
    /\ UNCHANGED <<scene, drc, queued, work, view, blocked, app, policies, changes>>

\* The work agent applies or removes a mode; a new one takes time.
ModeApplied(k) ==
    /\ Alive(k[1])
    /\ \/ /\ work.mode[k] = "there" /\ site.mode[k] = Nothing
          /\ site' = [site EXCEPT !.mode[k] = [st |-> "Progressing"]]
          /\ UNCHANGED work /\ Enqueue(k[1])
       \/ /\ site.mode[k].st = "Progressing"
          /\ site' = [site EXCEPT !.mode[k] = [st |-> "Activated"]]
          /\ UNCHANGED <<work, queued>>
       \/ /\ work.mode[k] = "terminating" /\ work' = [work EXCEPT !.mode[k] = "none"]
          /\ site' = [site EXCEPT !.mode[k] = Nothing]
          /\ UNCHANGED queued
    /\ UNCHANGED <<scene, drc, view, blocked, app, policies, changes, faults>>

\* A view shows what is on the cluster.
ViewRefreshed ==
    /\ \/ \E k \in Keys : /\ Alive(k[3]) /\ view.nf[k] # NoView /\ view.nf[k] # site.nf[k]
                          /\ view' = [view EXCEPT !.nf[k] = site.nf[k]]
                          /\ Enqueue(k[1])
       \/ \E c \in DRClusters : /\ Alive(c) /\ view.config[c] # NoView /\ view.config[c] # site.config[c]
                                /\ view' = [view EXCEPT !.config[c] = site.config[c]]
                                /\ Enqueue(c)
       \/ \E k \in Modes : /\ Alive(k[1]) /\ view.mode[k] # NoView /\ view.mode[k] # site.mode[k]
                           /\ view' = [view EXCEPT !.mode[k] = site.mode[k]]
                           /\ Enqueue(k[1])
    /\ UNCHANGED <<scene, drc, work, site, blocked, app, policies, changes, faults>>

-----------------------------------------------------------------------------
(* The workloads and their DRPCs.                                           *)

Metro(d) == Policy(scene.apps[d].policy).metro

\* (A DRPC whose failover is over is of no interest.)
DRPCUpdateOfInterest_Asked(old, new) == new.action = "Failover" /\ new.available # "True"

\* A DRPC that fails over, or did just now; its target is reconciled.
DRPCUpdateOfInterest(old, new) ==
    /\ new.action = "Failover"
    /\ \/ old.action # "Failover" \/ old.target # new.target
       \/ new.available # "True" \/ old.available = "False"

filterDRPC(d) ==
    queued' = IF DRPCUpdateOfInterest(app[d], app'[d]) /\ Exists(app'[d].target)
              THEN queued \cup {app'[d].target} ELSE queued

Released(d, c) ==
    \/ \E e \in DOMAIN app : InFailover(e) /\ app[e].target = c /\ Backend(e) = Backend(d)
    \/ drc[c].modes[Backend(d)] = "none" /\ work.mode[<<c, Backend(d)>>] = "none"
    \/ drc[c].modes[Backend(d)] = "Activated" /\ work.mode[<<c, Backend(d)>>] = "there"

\* A new generation: what was Available is so of the last one only.
Outlived(available) == IF available = "True" THEN "Stale" ELSE available

Failover(d, c) ==
    /\ "failover" \in scene.acts[c] /\ changes < scene.changes
    /\ scene.apps[d].policy \in policies /\ DrpolicyContainsDrcluster(scene.apps[d].policy, c)
    /\ app[d].phase = "idle" /\ app[d].home # c
    /\ "released" \in scene.waits => Released(d, c)
    /\ app' = [app EXCEPT ![d] = [@ EXCEPT !.target = c, !.action = "Failover", !.phase = "asked",
                                           !.available = Outlived(@)]]
    /\ changes' = changes + 1 /\ filterDRPC(d)
    /\ UNCHANGED <<scene, drc, work, view, site, blocked, policies, faults>>

\* Users change their mind before the workload is promoted: the DRPC relocates
\* it to where it is.
Withdraw(d) ==
    /\ app[d].phase = "asked" /\ "withdraw" \in scene.acts[app[d].target] /\ changes < scene.changes
    /\ app' = [app EXCEPT ![d] = [@ EXCEPT !.action = "Relocate", !.phase = "idle"]]
    /\ changes' = changes + 1 /\ filterDRPC(d)
    /\ UNCHANGED <<scene, drc, work, view, site, blocked, policies, faults>>

checkClusterFenced(o) == o.fenced /\ o.observed

checkFailoverPrerequisites(d, f) ==
    IF Metro(d) THEN checkClusterFenced(drc[app[d].home])
    ELSE checkFailoverMaintenanceActivations(drc[app[d].target], requiresRegionalFailoverPrerequisites(d, f))

\* The DRPC is not Available from here on.  It promotes the workload at its
\* target, which takes time.
switchToFailoverCluster(d, f) ==
    /\ app[d].phase = "asked" /\ scene.apps[d].policy \in policies /\ GetDRClusters(scene.apps[d].policy)
    /\ f # "none" => faults < scene.faults
    /\ faults' = IF f # "none" THEN faults + 1 ELSE faults
    /\ app' = [app EXCEPT ![d] = [@ EXCEPT !.available = "False",
                                  !.phase = IF checkFailoverPrerequisites(d, f) THEN "started" ELSE @]]
    /\ filterDRPC(d)
    /\ UNCHANGED <<scene, drc, work, view, site, blocked, policies, changes>>

\* It is available there: its DRPC says so, and the target is reconciled.
FailedOver(d) ==
    /\ app[d].phase = "started" /\ Alive(app[d].target)
    /\ app' = [app EXCEPT ![d] = [@ EXCEPT !.phase = "idle", !.home = app[d].target, !.available = "True"]]
    /\ filterDRPC(d)
    /\ UNCHANGED <<scene, drc, work, view, site, blocked, policies, changes, faults>>

-----------------------------------------------------------------------------
(* The users.                                                               *)

NFWorks(c) == {k \in Keys : k[1] = c /\ work.nf[k] # "none"}

\* The last request to fence or unfence is through, and cleaned up after.
Settled(c) ==
    CASE drc[c].fence = "Fenced" -> drc[c].phase = "Fenced" /\ drc[c].fenced /\ drc[c].observed
      [] OTHER -> drc[c].clean /\ drc[c].observed /\ NFWorks(c) = {}

Edits(c) == There(c) /\ changes < scene.changes /\ changes' = changes + 1 /\ queued' = queued \cup {c}

SetFence(c, v) ==
    /\ v \in scene.acts[c] \cap FenceStates /\ v # drc[c].fence /\ Edits(c)
    /\ "settled" \in scene.waits => Settled(c) /\ (drc[c].fence = "Fenced" => v = "Unfenced")
    /\ drc' = [drc EXCEPT ![c] = [@ EXCEPT !.fence = v, !.observed = FALSE]]
    /\ UNCHANGED <<scene, work, view, site, blocked, app, policies, faults>>

SetCIDRs(c, v) ==
    /\ v \in scene.acts[c] \cap CIDRs /\ v # drc[c].cidrs /\ Edits(c)
    /\ drc' = [drc EXCEPT ![c] = [@ EXCEPT !.cidrs = v, !.observed = FALSE]]
    /\ UNCHANGED <<scene, work, view, site, blocked, app, policies, faults>>

Delete(c) ==
    /\ "delete" \in scene.acts[c] /\ Edits(c)
    /\ "settled" \in scene.waits => Settled(c) /\ drc[c].fence \notin {"Fenced", "Unfenced"}
    /\ drc' = [drc EXCEPT ![c].st = IF @ = "there" /\ drc[c].fin THEN "deleting" ELSE "none"]
    /\ UNCHANGED <<scene, work, view, site, blocked, app, policies, faults>>

\* A policy no workload uses is deleted; its clusters are reconciled.
DeletePolicy(i) ==
    /\ i \in policies \cap scene.gone /\ \A d \in DOMAIN app : scene.apps[d].policy # i
    /\ policies' = policies \ {i}
    /\ queued' = queued \cup {c \in Range(Policy(i).clusters) : Exists(c)}
    /\ UNCHANGED <<scene, drc, work, view, site, blocked, app, changes, faults>>

-----------------------------------------------------------------------------

\* A DRCluster that is new, or valid and deployed.
DRClusterOf(s, c) ==
    [st |-> "there", fin |-> c \in s.old, fence |-> "", cidrs |-> s.cidrs[c],
     phase |-> IF c \in s.old THEN "Available" ELSE "", fenced |-> FALSE, clean |-> c \in s.old,
     observed |-> c \in s.old, valid |-> IF c \in s.old THEN "True" ELSE "none", cidrsCond |-> "none",
     modes |-> [b \in Backends |-> "none"]]

ConfigOf(s, c) ==
    IF c \in s.old THEN [st |-> "there", processed |-> TRUE, classes |-> s.classes[c]] ELSE Nothing

InitDRCluster ==
    /\ scene \in Scenes
    /\ drc = [c \in DRClusters |-> DRClusterOf(scene, c)]
    /\ queued = DRClusters
    /\ LET deployed == [c \in DRClusters |-> IF c \in scene.old THEN "applied" ELSE "none"]
       IN work = [nf |-> [k \in Keys |-> "none"], deploy |-> deployed, config |-> deployed,
                  mode |-> [k \in Modes |-> "none"]]
    /\ site = [nf |-> [k \in Keys |-> Nothing], config |-> [c \in DRClusters |-> ConfigOf(scene, c)],
               mode |-> [k \in Modes |-> Nothing]]
    /\ view = [nf |-> [k \in Keys |-> NoView],
               config |-> [c \in DRClusters |-> IF c \in scene.old THEN ConfigOf(scene, c) ELSE NoView],
               mode |-> [k \in Modes |-> NoView]]
    /\ app = [d \in DOMAIN scene.apps |->
                 [home |-> Head(Policy(scene.apps[d].policy).clusters), target |-> None,
                  action |-> "", phase |-> "idle", available |-> "True"]]
    /\ policies = DOMAIN scene.policies
    /\ blocked = {} /\ changes = 0 /\ faults = 0

AgentsOn(c) ==
    \/ Deployed(c) \/ Configured(c)
    \/ \E k \in Keys : k[3] = c /\ (FenceApplied(k) \/ FenceServed(k))
    \/ \E k \in Modes : k[1] = c /\ ModeApplied(k)

NextDRCluster ==
    \/ \E c \in DRClusters :
        \/ \E f \in scene.calls \cup {"none"} : Reconcile(c, f)
        \/ Deployed(c) \/ Configured(c) \/ Delete(c)
        \/ \E v \in FenceStates : SetFence(c, v)
        \/ \E v \in CIDRs : SetCIDRs(c, v)
        \/ \E d \in DOMAIN app : Failover(d, c)
    \/ \E k \in Keys : FenceApplied(k) \/ FenceServed(k) \/ FenceFails(k)
    \/ \E k \in Modes : ModeApplied(k)
    \/ ViewRefreshed
    \/ \E d \in DOMAIN app :
        FailedOver(d) \/ Withdraw(d) \/ \E f \in (scene.calls \cap {"s3vrg"}) \cup {"none"} : switchToFailoverCluster(d, f)
    \/ \E i \in policies : DeletePolicy(i)

SpecDRCluster == InitDRCluster /\ [][NextDRCluster]_drcVars

\* A queued pass that would change something.
PassPending(c) ==
    /\ Exists(c) /\ c \in queued
    /\ With(Passed(c, "none"), LAMBDA r : <<r.o, r.work, r.view>> # <<drc[c], work, view>>)

CleanPass(c) == /\ faults' = faults /\ changes' = changes /\ site' = site
                /\ Exists(c) /\ c \in queued
                /\ Reconcile(c, "none")

\* The work queue is served and not every call fails; the agents, csi-addons and
\* the backends of clusters within reach serve their resources; views are
\* refreshed; a DRPC that waits for its target looks again.
FairSpecDRCluster ==
    /\ SpecDRCluster
    /\ \A c \in DRClusters : []<>~PassPending(c) \/ []<><<CleanPass(c)>>_drcVars
    /\ \A c \in DRClusters : WF_drcVars(AgentsOn(c))
    /\ WF_drcVars(ViewRefreshed)
    /\ WF_drcVars(\E d \in DOMAIN app : FailedOver(d) \/ switchToFailoverCluster(d, "none"))

-----------------------------------------------------------------------------
(* Properties.                                                              *)

\* The DRClusters and the works for them have their types: a DRCluster's phase
\* is one that clusterFenceHandle sets, and its works are there, going or gone.
DRClusterTypeOK ==
    /\ drc \in [DRClusters ->
          [st : {"there", "deleting", "none"}, fin : BOOLEAN, fence : FenceStates, cidrs : CIDRs,
           phase : {"", "Starting", "Available", "Fencing", "Fenced", "Unfencing", "Unfenced"},
           fenced : BOOLEAN, clean : BOOLEAN, observed : BOOLEAN, valid : {"none", "True", "False"},
           cidrsCond : {"none", "InvalidFormat", "Unconfigured", "Undetected", "Succeeded"},
           modes : [Backends -> {"none", "Unknown", "Progressing", "Activated"}]]]
    /\ work.nf \in [Keys -> {"none", "Fenced", "Unfenced", "terminating"}]
    /\ work.mode \in [Modes -> {"none", "there", "terminating"}]
    /\ queued \subseteq DRClusters /\ blocked \subseteq Keys

\* The fences that cut a cluster off, by the classes its peer has.
CutOff(c, p) == \A k \in Range(findMatchingNFClasses(scene.classes[p])) : <<c, k, p>> \in blocked


\* Where users unfence only what is fenced, a cluster reported Clean after it was
\* unfenced is not cut off by any fence (clusterUnfence cleans what
\* checkUnfenceStatus confirmed to be lifted), and the state is well formed.
UnfencedIsOpen ==
    /\ DRClusterTypeOK
    /\ \A c \in DRClusters : "settled" \in scene.waits /\ There(c) /\ drc[c].phase = "Unfenced" /\ drc[c].fence = "Unfenced" /\ drc[c].clean
         => \A k \in blocked : k[1] # c

\* While a workload is promoted at its target, its backend is in maintenance
\* there (checkRegionalFailoverPrerequisites waits for the mode, and
\* pruneMModesActivations keeps it as long as some failover needs it).
ModeHeld ==
    \A d \in DOMAIN app : app[d].phase = "started" /\ ~Metro(d)
        => site.mode[<<app[d].target, Backend(d)>>] = [st |-> "Activated"]

Waiting(d) == app[d].phase = "asked" /\ (Metro(d) => drc[app[d].home].fence = "Fenced")

\* A failover that is asked for goes ahead: its backend is put in maintenance, or
\* its old cluster is fenced where users ask for that.
FailoverProceeds == (\E d \in DOMAIN app : Waiting(d)) ~> (\A d \in DOMAIN app : ~Waiting(d))

Withdrawn(d) == app[d].action = "Relocate"
AllOver == \A d \in DOMAIN app : ~InFailover(d) /\ ~Withdrawn(d)

\* A backend does not stay in maintenance when the failovers are over, one that
\* was withdrawn and asked for again included (DRPCUpdateOfInterest brings the
\* DRCluster back to prune the mode).  A failover that stays withdrawn brings
\* nothing back.
ModeReleased ==
    ((\E k \in Modes : site.mode[k] # Nothing) /\ AllOver)
    ~> ((\A k \in Modes : site.mode[k] = Nothing) \/ ~AllOver)

=============================================================================
