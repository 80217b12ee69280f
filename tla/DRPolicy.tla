----------------------------- MODULE DRPolicy ------------------------------
(***************************************************************************)
(* The DRPolicy controller of the hub: validating a policy, pairing the    *)
(* storage of its two clusters, delivering the secrets of their object     *)
(* stores to them, and deleting it.  Around it are the DRClusters, the     *)
(* views of the clusters' classes, users who rotate secrets, and the       *)
(* workloads, whose VRGs are given the peer classes of their policy.       *)
(***************************************************************************)
EXTENDS Integers, SequencesExt, PeerClasses

CONSTANTS
    Policies,   \* names of DRPolicies
    DRClusters, \* names of clusters
    Secrets,    \* names of secrets
    None,       \* no secret
    Scenes      \* the situations to explore: see SceneOK

Formats == {"ramen", "velero"}
NoClasses == [s |-> {}, vs |-> {}, vgs |-> {}, vr |-> {}, vgr |-> {}]

\* A pass that fails: where it reads the configuration and sets up its namespace,
\* or at its nth write.
NoFault == -1
ConfigFault == -2

\* A scene has, for each policy, its clusters, schedule, time of creation,
\* whether it has a network mapping and whether it is there; for each cluster
\* the secret of its object store, the state of its DRCluster and what may be on
\* it, at first and later; the formats of secrets; the workloads with the
\* StorageClasses they use; what users may do; whether the cache may lag; the
\* writes that may fail; bounds on changes and failures.
SceneOK(s) ==
    /\ \A p \in Policies : Len(s.policies[p].clusters) = 2 /\ s.policies[p].sched \in {"", "5m"}
    /\ s.secret \in [DRClusters -> Secrets \cup {None}]
    /\ s.drc \in [DRClusters -> {"none", "there", "valid"}]
    /\ s.formats \subseteq Formats
    /\ \A d \in DOMAIN s.apps : s.apps[d].policy \in Policies
    /\ s.acts \subseteq {"create", "delete", "hasty", "rotate", "unmap", "secret", "cluster", "failover", "drpc"}
    /\ s.lag \in BOOLEAN
    /\ s.writes \subseteq Nat \cup {ConfigFault}
    /\ s.changes \in Nat /\ s.faults \in Nat

ASSUME SceneAssumption == \A s \in Scenes : SceneOK(s)

VARIABLES
    scene,   \* one of Scenes, never changed
    pol,     \* policy -> the DRPolicy with its status
    queued,  \* the policies to be reconciled
    listed,  \* the policies that the cache lists
    drc,     \* cluster -> the state of its DRCluster
    site,    \* cluster -> the classes cl and network attachments nads on it
    view,    \* cluster -> what was last read of it
    sec,     \* secret -> the secret on the hub
    res,     \* secret -> format -> what delivers it
    app,     \* workload -> its DRPC and VRGs
    changes, faults

polVars == <<scene, pol, queued, listed, drc, site, view, sec, res, app, changes, faults>>

There(p) == pol[p].st = "there"
Exists(p) == pol[p].st # "none"
Settled(p) == There(p) /\ p \notin queued
Existing == {p \in Policies : Exists(p)}
Clusters(p) == scene.policies[p].clusters
ClusterSet(p) == Range(Clusters(p))
Sched(p) == scene.policies[p].sched

-----------------------------------------------------------------------------
(* A pass over a policy: o is its object, sec and res are as above, n       *)
(* counts the writes.                                                       *)

Put(w, f, v) == IF w.n = f THEN Requeue(w) ELSE Go([v EXCEPT !.n = @ + 1])

statusConditionSet(w, f, reason) ==
    IF w.o.validated = reason THEN Go(w) ELSE Put(w, f, [w EXCEPT !.o.validated = reason])

validatedSetTrue(w, f) == statusConditionSet(w, f, "Succeeded")
validatedSetFalse(w, f, reason) == Then(statusConditionSet(w, f, reason), LAMBDA x : Requeue(x))

-----------------------------------------------------------------------------
(* Delivering secrets: a binding, a policy with the version of the secret   *)
(* it last triggered on (0: there is none) and a rule with the clusters     *)
(* ({}: there is none).                                                     *)

createPolicyResources(w, s, c, fm, f) ==
    Then(Then(Then(
        IF fm \in w.sec[s].fins THEN Go(w)
        ELSE Put(w, f, [w EXCEPT !.sec[s].fins = @ \cup {fm}, !.sec[s].ver = @ + 1]),
        LAMBDA x : Put(x, f, [x EXCEPT !.res[s][fm].binding = TRUE])),
        LAMBDA x : Put(x, f, [x EXCEPT !.res[s][fm].policy = IF @ = 0 THEN x.sec[s].ver ELSE @])),
        LAMBDA x : Put(x, f, [x EXCEPT !.res[s][fm].rule = {c}]))

Unfinalized(e, fm) ==
    [e EXCEPT !.fins = @ \ {fm}, !.ver = @ + 1,
              !.st = IF e.st = "deleting" /\ e.fins \subseteq {fm} THEN "none" ELSE @]

deletePolicyResources(w, s, fm, f) ==
    Then(Then(Then(
        Put(w, f, [w EXCEPT !.res[s][fm].binding = FALSE]),
        LAMBDA x : Put(x, f, [x EXCEPT !.res[s][fm].policy = 0])),
        LAMBDA x : Put(x, f, [x EXCEPT !.res[s][fm].rule = {}])),
        LAMBDA x : IF fm \in x.sec[s].fins THEN Put(x, f, [x EXCEPT !.sec[s] = Unfinalized(@, fm)]) ELSE Go(x))

\* The policy for Ramen's own format is the one that is triggered.
ticklePolicy_Never(w, s, f) == Go(w)
ticklePolicy(w, s, f) ==
    CASE w.res[s]["ramen"].policy = 0 -> Requeue(w)
      [] w.res[s]["ramen"].policy = w.sec[s].ver -> Go(w)
      [] OTHER -> Put(w, f, [w EXCEPT !.res[s]["ramen"].policy = w.sec[s].ver])

updatePlacementRule(w, s, fm, rule, f) ==
    IF w.res[s][fm].rule = rule THEN Go(w) ELSE Put(w, f, [w EXCEPT !.res[s][fm].rule = rule])

AddSecretToCluster(w, s, c, fm, f) ==
    CASE w.sec[s].st # "there" -> Then(deletePolicyResources(w, s, fm, f), LAMBDA x : Requeue(x))
      [] w.res[s][fm].rule = {} -> createPolicyResources(w, s, c, fm, f)
      [] OTHER -> Then(updatePlacementRule(w, s, fm, w.res[s][fm].rule \cup {c}, f), LAMBDA x : ticklePolicy(x, s, f))

RemoveSecretFromCluster(w, s, c, fm, f) ==
    IF w.sec[s].st # "there" \/ w.res[s][fm].rule \subseteq {c} THEN deletePolicyResources(w, s, fm, f)
    ELSE Then(updatePlacementRule(w, s, fm, w.res[s][fm].rule \ {c}, f), LAMBDA x : ticklePolicy(x, s, f))

\* The step for every secret and format, on every cluster.
ForEach(w, clusters, secrets, Step(_, _, _, _)) ==
    FoldLeft(LAMBDA r, c :
        FoldLeft(LAMBDA q, s :
            FoldLeft(LAMBDA t, fm : Then(t, LAMBDA x : Step(x, s, c, fm)), q,
                     SelectSeq(<<"ramen", "velero">>, LAMBDA fm : fm \in scene.formats)),
            r, SetToSeq(secrets[c])),
        Go(w), clusters)

drPolicySecretNames(p) == {scene.secret[c] : c \in {d \in ClusterSet(p) : drc[d] # "none"}} \ {None}

propagateS3Secret(w, p, f) ==
    IF drPolicySecretNames(p) = {} THEN Requeue(w)
    ELSE ForEach(w, Clusters(p), [c \in ClusterSet(p) |-> drPolicySecretNames(p)],
                 LAMBDA x, s, c, fm : AddSecretToCluster(x, s, c, fm, f))

\* What the other policies that are listed need on a cluster.
drClusterListMustHaveSecrets_TwoSided(c, p) ==
    UNION {drPolicySecretNames(q) : q \in {r \in listed \ {p} : ClusterSet(r) = ClusterSet(p)}}

drClusterListMustHaveSecrets(c, p) ==
    UNION {drPolicySecretNames(q) : q \in {r \in listed \ {p} : c \in ClusterSet(r)}}

drPolicyUndeploy(w, p, f, order) ==
    ForEach(w, order, [c \in ClusterSet(p) |-> drPolicySecretNames(p) \ drClusterListMustHaveSecrets(c, p)],
            LAMBDA x, s, c, fm : RemoveSecretFromCluster(x, s, c, fm, f))

-----------------------------------------------------------------------------
(* Validating.                                                              *)

validateDRPolicy(p) ==
    CASE \E c \in ClusterSet(p) : drc[c] = "none" -> "DRClusterNotFound"
      [] \A c \in ClusterSet(p) : drc[c] # "valid" -> "DRClustersUnavailable"
      [] OTHER -> ""

\* A verdict that a later step gave is left for that step to lift.
setValidationSucceeded(w, p, f) ==
    CASE ~w.o.mapping /\ w.o.nads # "none" -> Put(w, f, [w EXCEPT !.o.nads = "none", !.o.peers = {}])
      [] w.o.validated = "ConflictFound" -> Go(w)
      [] w.o.mapping /\ w.o.validated = "NADsMissing" -> Go(w)
      [] OTHER -> validatedSetTrue(w, f)

\* Clusters without StorageClasses have no peers.
updatePeerClasses(w, p, f) ==
    LET a == Clusters(p)[1]  b == Clusters(p)[2]
    IN  IF ~view[a].read \/ ~view[b].read THEN Requeue(w)
        ELSE With(findAllPeers(view[a].cl, view[b].cl, ClusterSet(p), Sched(p)), LAMBDA peers :
             Put(w, f, [w EXCEPT !.o.async = pruneAndUpdateStatusPeers(@, peers.async),
                                 !.o.sync = pruneAndUpdateStatusPeers(@, peers.sync)]))

\* The clusters that a policy pairs by shared storage.
MetroClusters(o) == UNION {pc.ids : pc \in o.sync}
dRPolicySupportsMetro(o, p) == IF o.sync = {} /\ o.async = {} THEN Sched(p) = "" ELSE o.sync # {}

haveOverlappingMetroZones(p, o, q) ==
    (ClusterSet(p) \cap ClusterSet(q)) \cap (MetroClusters(o) \cup MetroClusters(pol[q])) # {}

HasConflictingDRPolicy(p, o) ==
    \E q \in (Existing \cap listed) \ {p} :
        ~(scene.policies[p].at < scene.policies[q].at) /\ haveOverlappingMetroZones(p, o, q)

validatePolicyConflicts(p, o) == (o.sync # {} /\ o.async # {}) \/ HasConflictingDRPolicy(p, o)

UpdateNADValidationCondition(w, p, f) ==
    LET A == view[Clusters(p)[1]].nads  B == view[Clusters(p)[2]].nads
    IN  Put(w, f, [w EXCEPT !.o.peers = A \cap B,
                            !.o.nads = CASE A # B -> "missing" [] A = {} -> "noneEligible" [] OTHER -> "valid",
                            !.o.validated = IF A # B THEN "NADsMissing" ELSE @])

validateNADs(w, p, f) ==
    IF ~w.o.mapping THEN Go(w)
    ELSE Then(UpdateNADValidationCondition(w, p, f), LAMBDA x :
              IF x.o.nads = "missing" THEN Requeue(x) ELSE Go(x))

reconcile(w, p, f) ==
    Then(Then(Then(Then(Then(
        setValidationSucceeded(w, p, f),
        LAMBDA x : updatePeerClasses(x, p, f)),
        LAMBDA x : propagateS3Secret(x, p, f)),
        LAMBDA x : IF validatePolicyConflicts(p, x.o) THEN validatedSetFalse(x, f, "ConflictFound") ELSE Go(x)),
        LAMBDA x : validateNADs(x, p, f)),
        LAMBDA x : validatedSetTrue(x, f))

\* Not before the workloads of the policy are gone.
deleteDRPolicy(w, p, f, order) ==
    IF \E d \in DOMAIN app : app[d].st = "there" /\ scene.apps[d].policy = p THEN Requeue(w)
    ELSE Then(drPolicyUndeploy(w, p, f, order), LAMBDA x : Put(x, f, [x EXCEPT !.o.st = "none"]))

Pass(p, f, order) ==
    With([o |-> pol[p], sec |-> sec, res |-> res, n |-> 0], LAMBDA w :
        CASE f = ConfigFault -> validatedSetFalse(w, f, "ConfigMapGetFailed")
          [] \A c \in DRClusters : drc[c] = "none" -> validatedSetFalse(w, f, "drClusterDetailsFailed")
          [] w.o.st = "deleting" -> deleteDRPolicy(w, p, f, order)
          [] validateDRPolicy(p) = "DRClusterNotFound" ->
                Then(statusConditionSet(w, f, "DRClusterNotFound"), LAMBDA x : Stop(x))
          [] validateDRPolicy(p) # "" -> validatedSetFalse(w, f, validateDRPolicy(p))
          [] ~w.o.fin /\ f = 0 -> validatedSetFalse(w, NoFault, "FinalizerAddFailed")
          [] OTHER -> Then(IF w.o.fin THEN Go(w) ELSE Put(w, f, [w EXCEPT !.o.fin = TRUE]),
                           LAMBDA x : reconcile(x, p, f)))

\* A policy is reconciled once the cache has it.  Every change of it brings it
\* back, and one of a secret brings all back.
\* (The clusters of a deleted policy are taken in the order of a Go map.)
Ordered(p, back) == IF back THEN Reverse(Clusters(p)) ELSE Clusters(p)

ReconcileInOrder(p, f, order) ==
    /\ p \in queued /\ p \in listed
    /\ f # NoFault => faults < scene.faults
    /\ faults' = IF f = NoFault THEN faults ELSE faults + 1
    /\ \E r \in {Pass(p, f, order)} :
        /\ pol' = [pol EXCEPT ![p] = r.w.o]
        /\ sec' = r.w.sec /\ res' = r.w.res
        /\ queued' = IF r.w.sec # sec THEN Existing
                     ELSE IF r.res = "requeue" \/ r.w.o # pol[p] THEN queued ELSE queued \ {p}
    /\ listed' = IF scene.lag \/ pol'[p].st # "none" THEN listed ELSE listed \ {p}
    /\ UNCHANGED <<scene, drc, site, view, app, changes>>

Reconcile(p, f) ==
    Exists(p) /\ \E back \in {FALSE, ~There(p)} : ReconcileInOrder(p, f, Ordered(p, back))

-----------------------------------------------------------------------------
(* Around the controller.                                                   *)

Change(act) == act \in scene.acts /\ changes < scene.changes /\ changes' = changes + 1
getDRPoliciesForCluster(c) == {p \in Existing : c \in ClusterSet(p)}

CacheCatchesUp ==
    /\ listed # Existing /\ listed' = Existing
    /\ queued' = queued \cup (Existing \ listed)
    /\ UNCHANGED <<scene, pol, drc, site, view, sec, res, app, changes, faults>>

\* A view is refreshed, and brings back the policies of the cluster.
ViewRefreshed(c) ==
    /\ view[c] # [read |-> TRUE, cl |-> site[c].cl, nads |-> site[c].nads]
    /\ view' = [view EXCEPT ![c] = [read |-> TRUE, cl |-> site[c].cl, nads |-> site[c].nads]]
    /\ queued' = queued \cup getDRPoliciesForCluster(c)
    /\ UNCHANGED <<scene, pol, listed, drc, site, sec, res, app, changes, faults>>

\* The DRCluster of a policy is created, or is found to be valid.
DRClusterAppears(c) ==
    /\ drc[c] # "valid"
    /\ drc' = [drc EXCEPT ![c] = IF @ = "none" THEN "there" ELSE "valid"]
    /\ queued' = queued \cup getDRPoliciesForCluster(c)
    /\ UNCHANGED <<scene, pol, listed, site, view, sec, res, app, changes, faults>>

\* The classes on a cluster are changed, or its network attachments.
ClusterChanges(c) ==
    /\ Change("cluster")
    /\ \E x \in scene.later[c] : x # site[c] /\ site' = [site EXCEPT ![c] = x]
    /\ UNCHANGED <<scene, pol, queued, listed, drc, view, sec, res, app, faults>>

\* A user creates or deletes a policy, a hasty one even before it has been
\* reconciled, or takes its network mapping away.
CreatePolicy(p) ==
    /\ Change("create")
    /\ pol[p].st = "none" /\ scene.policies[p].new
    /\ pol' = [pol EXCEPT ![p] = [@ EXCEPT !.st = "there"]]
    /\ IF scene.lag THEN UNCHANGED <<queued, listed>>
       ELSE queued' = queued \cup {p} /\ listed' = listed \cup {p}
    /\ UNCHANGED <<scene, drc, site, view, sec, res, app, faults>>

DeletePolicy(p) ==
    /\ Change("delete")
    /\ There(p) /\ (pol[p].fin \/ "hasty" \in scene.acts)
    /\ pol' = [pol EXCEPT ![p].st = IF pol[p].fin THEN "deleting" ELSE "none"]
    /\ queued' = queued \cup {p}
    /\ listed' = IF pol[p].fin THEN listed ELSE listed \ {p}
    /\ UNCHANGED <<scene, drc, site, view, sec, res, app, faults>>

UnmapPolicy(p) ==
    /\ Change("unmap")
    /\ There(p) /\ pol[p].mapping
    /\ pol' = [pol EXCEPT ![p].mapping = FALSE]
    /\ queued' = queued \cup {p}
    /\ UNCHANGED <<scene, listed, drc, site, view, sec, res, app, faults>>

\* A user rotates a secret, deletes it, or creates it again: secretMapFunc.
ChangeSecret(s, act) ==
    /\ Change(act)
    /\ CASE act = "rotate" -> sec[s].st = "there" /\ sec' = [sec EXCEPT ![s].ver = @ + 1]
         [] sec[s].st = "there" -> sec' = [sec EXCEPT ![s].st = IF sec[s].fins = {} THEN "none" ELSE "deleting"]
         [] sec[s].st = "none" -> sec' = [sec EXCEPT ![s] = [st |-> "there", fins |-> {}, ver |-> @.ver + 1]]
         [] OTHER -> FALSE
    /\ queued' = Existing
    /\ UNCHANGED <<scene, pol, listed, drc, site, view, res, app, faults>>

-----------------------------------------------------------------------------
(* The workloads of a policy: the DRPC, the cluster home of its workload,   *)
(* and on each cluster the spec of its VRG and how that has sorted its      *)
(* PVCs so far.                                                             *)

NoVRG == [has |-> {}, sync |-> {}, async |-> {}, volSyncDisabled |-> FALSE]
NotYet == How("none", FALSE)
PolicyOf(d) == scene.apps[d].policy
SCNames(d) == scene.apps[d].names
Peer(d, c) == CHOOSE e \in ClusterSet(PolicyOf(d)) : e # c
NewApp(d) == [st |-> "none", home |-> Clusters(PolicyOf(d))[1],
              spec |-> [c \in ClusterSet(PolicyOf(d)) |-> NoVRG],
              how |-> [c \in ClusterSet(PolicyOf(d)) |-> [n \in SCNames(d) |-> NotYet]]]

allVRGPeerClassesOffloaded(d) ==
    With(UNION {app[d].spec[c].async : c \in ClusterSet(PolicyOf(d))}, LAMBDA pcs :
         pcs # {} /\ \A pc \in pcs : pc.off)

drType(d) ==
    IF ~allVRGPeerClassesOffloaded(d) /\ dRPolicySupportsMetro(pol[PolicyOf(d)], PolicyOf(d)) THEN "sync" ELSE "async"

getAndEnsureValidDRPolicy(d) == There(PolicyOf(d)) /\ pol[PolicyOf(d)].validated = "Succeeded"

newVRG(d, t) == [NoVRG EXCEPT !.has = {t}, ![t] = pol[PolicyOf(d)][t], !.volSyncDisabled = t = "sync"]

\* The spec for the StorageClasses names, which the VRG reports.
updateVRGDRTypeSpec(d, spec, names, t) ==
    With(pol[PolicyOf(d)][t], LAMBDA peers :
         [spec EXCEPT !.has = @ \cup {t}, !.volSyncDisabled = t = "sync",
                      ![t] = CASE peers = {} -> @
                               [] t \notin spec.has -> peers
                               [] OTHER -> updatePeers(@, names, peers, t = "async" /\ scene.apps[d].cg)])

Reported(d, c) == {n \in SCNames(d) : app[d].how[c][n] # NotYet}

\* A user protects a workload, a hasty one even before its policy is settled and
\* has peer classes.
SetApp(d, a) == app' = [app EXCEPT ![d] = a]

CreateDRPC(d) ==
    /\ Change("drpc") /\ app[d].st = "none"
    /\ "hasty" \notin scene.acts =>
          Settled(PolicyOf(d)) /\ pol[PolicyOf(d)].sync \cup pol[PolicyOf(d)].async # {}
    /\ SetApp(d, [app[d] EXCEPT !.st = "there"])
    /\ UNCHANGED <<scene, pol, queued, listed, drc, site, view, sec, res, faults>>

DeleteDRPC(d) ==
    /\ Change("drpc") /\ app[d].st = "there" /\ SetApp(d, [NewApp(d) EXCEPT !.st = "gone"])
    /\ UNCHANGED <<scene, pol, queued, listed, drc, site, view, sec, res, faults>>

\* The passes of the DRPC, which may end after each of these steps: they ensure
\* the VRG on the workload's cluster,
ensureVRGManifestWork(d) ==
    LET c == app[d].home
    IN  /\ app[d].st = "there" /\ getAndEnsureValidDRPolicy(d)
        /\ SetApp(d, [app[d] EXCEPT !.spec[c] = IF @ = NoVRG THEN newVRG(d, drType(d))
                                                ELSE updateVRGDRTypeSpec(d, @, Reported(d, c), drType(d))])
        /\ app'[d] # app[d]
        /\ UNCHANGED <<scene, pol, queued, listed, drc, site, view, sec, res, changes, faults>>

\* give the VRG on the other cluster what that one has,
refreshVRGSecondarySpec(d, src, dst) == [newVRG(d, drType(d)) EXCEPT ![drType(d)] = app[d].spec[src][drType(d)]]

EnsureSecondary(d) ==
    LET src == app[d].home  dst == Peer(d, src)
    IN  /\ app[d].st = "there" /\ getAndEnsureValidDRPolicy(d)
        /\ drType(d) \in app[d].spec[src].has
        /\ SetApp(d, [app[d] EXCEPT !.spec[dst] = refreshVRGSecondarySpec(d, src, dst)])
        /\ app'[d] # app[d]
        /\ UNCHANGED <<scene, pol, queued, listed, drc, site, view, sec, res, changes, faults>>

\* and fail over to it, once it is there.
FailOver(d) ==
    LET dst == Peer(d, app[d].home)
    IN  /\ Change("failover")
        /\ app[d].st = "there" /\ getAndEnsureValidDRPolicy(d) /\ app[d].spec[dst] # NoVRG
        /\ SetApp(d, [app[d] EXCEPT !.home = dst, !.spec[dst] = updateVRGDRTypeSpec(d, @, {}, drType(d))])
        /\ UNCHANGED <<scene, pol, queued, listed, drc, site, view, sec, res, faults>>

\* The VRG on the workload's cluster sorts its PVCs; when that fails, what it
\* reported before stands.
SortPVCs(d) ==
    LET c == app[d].home  spec == app[d].spec[c]
        hows == updatePVCList(spec, site[c].cl, SCNames(d),
                              [useVolSync |-> scene.apps[d].useVolSync, volSyncDisabled |-> spec.volSyncDisabled])
    IN  /\ app[d].st = "there" /\ spec # NoVRG
        /\ SetApp(d, [app[d] EXCEPT !.how[c] =
                [n \in SCNames(d) |-> IF hows[n] = Unsorted /\ @[n] # NotYet THEN @[n] ELSE hows[n]]])
        /\ app'[d] # app[d]
        /\ UNCHANGED <<scene, pol, queued, listed, drc, site, view, sec, res, changes, faults>>

-----------------------------------------------------------------------------
NewPolicy(s, p) ==
    [st |-> IF s.policies[p].new THEN "none" ELSE "there", fin |-> FALSE, validated |-> "none",
     mapping |-> s.policies[p].mapping, nads |-> "none", peers |-> {}, sync |-> {}, async |-> {}]

InitPolicy ==
    /\ scene \in Scenes
    /\ pol = [p \in Policies |-> NewPolicy(scene, p)]
    /\ queued = Existing /\ listed = Existing
    /\ drc = scene.drc
    /\ site \in {x \in [DRClusters -> UNION {scene.first[c] : c \in DRClusters}] :
                  \A c \in DRClusters : x[c] \in scene.first[c]}
    /\ view = [c \in DRClusters |-> [read |-> FALSE, cl |-> NoClasses, nads |-> {}]]
    /\ sec = [s \in Secrets |-> [st |-> "there", fins |-> {}, ver |-> 1]]
    /\ res = [s \in Secrets |-> [fm \in Formats |-> [binding |-> FALSE, policy |-> 0, rule |-> {}]]]
    /\ app = [d \in DOMAIN scene.apps |-> NewApp(d)]
    /\ changes = 0 /\ faults = 0

NextPolicy ==
    \/ \E p \in Policies : \/ \E f \in {NoFault} \cup scene.writes : Reconcile(p, f)
                           \/ CreatePolicy(p) \/ DeletePolicy(p) \/ UnmapPolicy(p)
    \/ \E c \in DRClusters : ViewRefreshed(c) \/ DRClusterAppears(c) \/ ClusterChanges(c)
    \/ \E s \in Secrets, act \in {"rotate", "secret"} : ChangeSecret(s, act)
    \/ \E d \in DOMAIN app : \/ CreateDRPC(d) \/ DeleteDRPC(d) \/ ensureVRGManifestWork(d)
                             \/ EnsureSecondary(d) \/ FailOver(d) \/ SortPVCs(d)
    \/ CacheCatchesUp

SpecPolicy == InitPolicy /\ [][NextPolicy]_polVars

\* The controller retries what failed, with each order of a map time and again,
\* and is brought back by what changed; views are refreshed; DRClusters come
\* about; the cache catches up.  A pass that would change nothing may be
\* repeated for ever.
CleanPass(p, back) == Exists(p) /\ (back => ~There(p)) /\ ReconcileInOrder(p, NoFault, Ordered(p, back))
PassPending(p, back) ==
    /\ Exists(p) /\ (back => ~There(p)) /\ p \in queued /\ p \in listed
    /\ With(Pass(p, NoFault, Ordered(p, back)), LAMBDA r :
            r.res # "requeue" \/ [o |-> pol[p], sec |-> sec, res |-> res] # [o |-> r.w.o, sec |-> r.w.sec, res |-> r.w.res])

FairSpecPolicy ==
    /\ SpecPolicy
    /\ \A p \in Policies, back \in BOOLEAN : <>[]~PassPending(p, back) \/ []<><<CleanPass(p, back)>>_polVars
    /\ \A c \in DRClusters : WF_polVars(ViewRefreshed(c)) /\ WF_polVars(DRClusterAppears(c))
    /\ WF_polVars(CacheCatchesUp)

-----------------------------------------------------------------------------
(* Properties.                                                              *)

Reasons == {"none", "Succeeded", "ConfigMapGetFailed", "drClusterDetailsFailed", "DRClusterNotFound",
            "DRClustersUnavailable", "FinalizerAddFailed", "ConflictFound", "NADsMissing"}

\* The state has its type: a secret that is being deleted has a finalizer that
\* keeps it, so that deletePolicyResources lets it go with the last one; one
\* that is gone has none; and a placement rule names clusters of policies.
DRPolicyTypeOK ==
    /\ scene \in Scenes /\ queued \subseteq Policies /\ listed \subseteq Policies
    /\ \A p \in Policies : /\ pol[p].st \in {"none", "there", "deleting"} /\ pol[p].validated \in Reasons
                           /\ pol[p].st = "deleting" => pol[p].fin
                           /\ pol[p].nads \in {"none", "missing", "noneEligible", "valid"}
    /\ \A s \in Secrets : /\ sec[s].st \in {"none", "there", "deleting"} /\ sec[s].fins \subseteq Formats
                          /\ sec[s].st = "deleting" => sec[s].fins # {}
                          /\ sec[s].st = "none" => sec[s].fins = {}
                          /\ \A fm \in Formats : res[s][fm].rule \subseteq DRClusters

\* The peer classes that a settled policy reports are those that the classes of
\* its two clusters make up, as last read, whatever was reported before:
\* findAllPeers and pruneAndUpdateStatusPeers against a reference definition.
\* No more is said where a StorageClass has the label of its storage and it is
\* empty, which findPeers takes for an identifier.  And the state is well formed.
PeersAreComplete ==
    /\ DRPolicyTypeOK
    /\ \A p \in Policies : Settled(p) /\ pol[p].validated \in {"Succeeded", "ConflictFound"} =>
         LET a == view[Clusters(p)[1]].cl  b == view[Clusters(p)[2]].cl
             Of(Want(_)) == {pc.name : pc \in {q \in pol[p].async : Want(q)}}
         IN  EmptyLabels(a) \/ EmptyLabels(b) \/
             /\ {pc.name : pc \in pol[p].sync} = SyncPairs(a, b)
             /\ Of(LAMBDA q : q.off) = AsyncPairs(a, b, Sched(p), "offloaded")
             /\ Of(LAMBDA q : ~q.off /\ q.rid # "") = AsyncPairs(a, b, Sched(p), "replicated")
             /\ Of(LAMBDA q : ~q.off /\ q.rid = "") = AsyncPairs(a, b, Sched(p), "copied")
             /\ \A pc \in pol[p].async :
                     /\ pc.sids = {Named(a, pc.name).sid, Named(b, pc.name).sid}
                     /\ pc.rid # "" => \A cl \in {a, b} : pc.rid \in Offers(cl, Named(cl, pc.name), Sched(p))
                     /\ pc.grid # "" => \A cl \in {a, b} : pc.grid \in GroupOffers(cl, Named(cl, pc.name), Sched(p))

Needs(p, s, c) == c \in ClusterSet(p) /\ s \in drPolicySecretNames(p)

Delivered(s, fm, c) == res[s][fm].binding /\ res[s][fm].policy # 0 /\ c \in res[s][fm].rule

\* A secret is not taken from a cluster that needs it: by a policy that stays and
\* that the cache has, or by a workload of a policy that is being deleted
\* (deleteDRPolicy waits for it, drClusterListMustHaveSecrets keeps what others
\* need).  A policy the cache has not may lose it, and is not reconciled yet.
SecretsKept ==
    [][\A s \in Secrets, fm \in Formats, c \in DRClusters :
        /\ Delivered(s, fm, c) /\ sec[s].st = "there"
        /\ \E p \in Policies : /\ Needs(p, s, c)
                               /\ \/ pol'[p].st = "there" /\ p \in listed
                                  \/ \E d \in DOMAIN app : app[d].st = "there" /\ PolicyOf(d) = p
        => Delivered(s, fm, c)']_polVars

\* The way in which a PVC is replicated is never changed under a workload, on no
\* cluster it runs on, whatever becomes of the classes: updatePeerClass keeps
\* it, refreshVRGSecondarySpec hands it over.  (PVCs of a workload with the
\* annotation for groups are put into a group later.)
SchemeKept ==
    [][\A d \in DOMAIN app : \A n \in SCNames(d), c, e \in ClusterSet(PolicyOf(d)) :
        LET old == app[d].how[e][n]  new == app'[d].how[c][n]
        IN  old \notin {NotYet, Unsorted} /\ new \notin {NotYet, Unsorted} =>
                new.kind = old.kind /\ (scene.apps[d].cg \/ new.group = old.group)]_polVars

\* What should make a policy valid, from what is there.
ShouldBeValid(p) ==
    LET a == site[Clusters(p)[1]]  b == site[Clusters(p)[2]]
    IN  /\ \A c \in ClusterSet(p) : drc[c] # "none"
        /\ \E c \in ClusterSet(p) : drc[c] = "valid"
        /\ drPolicySecretNames(p) # {} /\ \A s \in drPolicySecretNames(p) : sec[s].st = "there"
        /\ SyncPairs(a.cl, b.cl) = {} \/ \A how \in {"offloaded", "replicated", "copied"} :
                                             AsyncPairs(a.cl, b.cl, Sched(p), how) = {}
        /\ \A q \in Existing \ {p} : scene.policies[p].at < scene.policies[q].at
        /\ pol[p].mapping => a.nads = b.nads

\* The secrets of a policy's object stores reach both of its clusters, those that
\* another policy took away before this one was seen included, and so does what
\* they are changed to (ticklePolicy).
SecretsDelivered ==
    \A p \in Policies, s \in Secrets, c \in DRClusters :
        []<>(There(p) /\ ShouldBeValid(p) /\ Needs(p, s, c) =>
             /\ \A fm \in scene.formats : Delivered(s, fm, c)
             /\ res[s]["ramen"].policy = sec[s].ver)

=============================================================================
