---------------------------- MODULE KubeObjects ----------------------------
(***************************************************************************)
(* Capture and recovery of an application's Kubernetes objects: the passes *)
(* of the VRG controller on two clusters over the same S3 stores, with the *)
(* requests Velero serves on its own.  A capture has one of two numbers in *)
(* turn; the VRG object kept in each store names the one to recover from.  *)
(***************************************************************************)
EXTENDS Integers, FiniteSetsExt, SequencesExt, Steps

CONSTANTS
    Clusters,           \* the two managed clusters, the one deployed to first
    Profiles,           \* the S3 profiles there are
    RecipeMaxAttempts,  \* failures of a capture before it is given up
    Scenes              \* the situations to explore: see SceneType

ASSUME KubeObjectsAssumption ==
    /\ IsInjective(Clusters) /\ Len(Clusters) = 2
    /\ RecipeMaxAttempts \in Nat

FailOns == {"any-error", "essential-error", "full-error"}

\* The calls of a pass that may fail: listing requests, deleting requests, a
\* hook, saving the status, or everything that needs one of the stores.
Calls == {"list", "requests", "hook", "save"} \cup Profiles

\* The S3 profiles of the VRG, in its order; the steps of both workflows of the recipe; what they fail on; whether it is
\* a VM recipe or another single group; what the hub and users may do; which
\* calls may fail; bounds on actions, failures and changes of the objects.
SceneType ==
    [stores : Seq(Profiles), steps : Seq([hook : BOOLEAN, essential : BOOLEAN]),
     captureFailOn : FailOns, restoreFailOn : FailOns, vm : BOOLEAN,
     acts : SUBSET {"failover", "relocate", "delete", "restart", "vms", "stop"},
     calls : SUBSET Calls, changes : Nat, faults : Nat, writes : Nat]

VARIABLES
    scene,    \* one of Scenes, never changed
    site,     \* cluster -> its VRG, Velero requests and application objects
    store,    \* S3 profile -> the VRG object and the captures in it
    version,  \* the newest version of the application's objects
    lost,     \* history: a capture was completed and its status never saved, or
              \* its cluster lost before every store had the VRG naming it
    changes, faults

kubeVars == <<scene, site, store, version, lost, changes, faults>>

ClusterSet == Range(Clusters)
Stores == scene.stores
StoreSet == Range(Stores)
Numbers == 0 .. 1
Nil == -1                        \* no capture to recover from
NoVRG == -2                      \* no VRG object in the store
Absent == -2                     \* nothing is stored of a group
Partial == -1                    \* a backup that failed midway
Steps_ == scene.steps
Groups(sc) == {i \in DOMAIN sc.steps : ~sc.steps[i].hook}
Keys(sc) == Numbers \X Groups(sc) \X Range(sc.stores)
NoRestore(sc) == [st |-> "none", num |-> 0, from |-> Head(sc.stores)]

\* An identifier: its number, and how many intervals ago its capture started
\* (2 stands for more than two).
NoIdentifier == [num |-> Nil, age |-> 2]

Peer(c) == CHOOSE d \in ClusterSet : d # c
May(act) == act \in scene.acts

-----------------------------------------------------------------------------
(* The state w of a pass: the site v, the stores, whether it is to requeue, *)
(* and the conditions it holds in memory of the kube objects and the VRG.   *)

kubeObjectsCaptureStatus(w, value) == [w EXCEPT !.kube = value]
Requeued(w) == [w EXCEPT !.requeue = TRUE]

shouldStopExecution(failOn, essential) ==
    failOn = "any-error" \/ (failOn = "essential-error" /\ essential)

\* A workflow so far.
Workflow(w) == [w |-> w, out |-> "go", allFailed |-> TRUE, essentials |-> 0,
                processed |-> 0, completed |-> 0, hookDone |-> FALSE, hookFailed |-> FALSE]

kubeObjectsHookExecute(x, failOn, essential, f) ==
    IF f = "hook"
    THEN [x EXCEPT !.hookFailed = TRUE,
                   !.w.v.hooks = IF shouldStopExecution(failOn, essential) THEN "failed" ELSE @]
    ELSE [x EXCEPT !.hookDone = TRUE]

kubeObjectsHookWorkflowResult(x) ==
    [x EXCEPT !.w.v.hooks = IF x.hookFailed THEN "failed"
                            ELSE IF x.hookDone THEN "executed" ELSE @]

\* A step that failed stops the workflow, or is passed over.
StepFailed(x, failOn, essential) ==
    IF shouldStopExecution(failOn, essential) THEN [x EXCEPT !.out = "error"]
    ELSE [x EXCEPT !.allFailed = @ /\ essential]

StepDone(x, essential) ==
    IF essential THEN [x EXCEPT !.allFailed = FALSE, !.essentials = @ + 1] ELSE x

\* No essential step was done: then that is not held against the workflow.
WorkflowEnd(x) ==
    With(kubeObjectsHookWorkflowResult(x), LAMBDA y :
        IF y.essentials = 0 THEN [y EXCEPT !.allFailed = FALSE] ELSE y)

-----------------------------------------------------------------------------
(* Capture.                                                                 *)

DeleteObjectsWithKeyPrefix(st, n, g) == [st EXCEPT !.cap[<<n, g>>] = Absent]

\* What a request is found as, and what is done about it, store by store.
createCaptureRequest(w, k, f) ==
    IF f = k[3] THEN [w |-> Requeued(w), done |-> 0, failed |-> TRUE]
    ELSE [w |-> [w EXCEPT !.v.backups[k] = "new"], done |-> 0, failed |-> FALSE]

kubeObjectsCaptureAndCaptureRequestDelete(w, k, f) ==
    [w EXCEPT !.store[k[3]] = IF f = k[3] THEN @ ELSE DeleteObjectsWithKeyPrefix(@, k[1], k[2]),
              !.v.backups[k] = IF f = "requests" THEN @ ELSE "none"]

processCaptureRequestStatus(w, k, f) ==
    CASE w.v.backups[k] = "done" -> [w |-> w, done |-> 1, failed |-> FALSE]
      [] w.v.backups[k] = "new" -> [w |-> w, done |-> 0, failed |-> FALSE]
      [] OTHER -> [w |-> Requeued(kubeObjectsCaptureStatus(
                             kubeObjectsCaptureAndCaptureRequestDelete(w, k, f), "False")),
                   done |-> 0, failed |-> TRUE]

kubeObjectsGroupCapture(w, n, g, f) ==
    FoldLeft(LAMBDA r, s :
        With(IF r.w.v.backups[<<n, g, s>>] = "none" THEN createCaptureRequest(r.w, <<n, g, s>>, f)
             ELSE processCaptureRequestStatus(r.w, <<n, g, s>>, f), LAMBDA t :
            [t EXCEPT !.done = @ + r.done, !.failed = @ \/ r.failed]),
        [w |-> w, done |-> 0, failed |-> FALSE], Stores)

\* (The group's requests are not waited for.)
CaptureGroup_NotAwaited(x, n, g, f) ==
    With(kubeObjectsGroupCapture(x.w, n, g, f), LAMBDA r :
        IF r.failed THEN StepFailed([x EXCEPT !.w = r.w], scene.captureFailOn, Steps_[g].essential)
        ELSE StepDone([x EXCEPT !.w = r.w], Steps_[g].essential))

\* The requests found done are counted even where another one failed.
CaptureGroup(x, n, g, f) ==
    With(kubeObjectsGroupCapture(x.w, n, g, f), LAMBDA r :
        LET y == [x EXCEPT !.w = r.w, !.completed = @ + r.done]
            essential == Steps_[g].essential
        IN IF r.failed THEN StepFailed([y EXCEPT !.w.kube = IF shouldStopExecution(
                                scene.captureFailOn, essential) THEN "False" ELSE @],
                                scene.captureFailOn, essential)
           ELSE With([StepDone(y, essential) EXCEPT !.processed = @ + Len(Stores)], LAMBDA z :
                IF z.completed < z.processed THEN [z EXCEPT !.out = "incomplete"] ELSE z))

HookStep(x, i, failOn, f) ==
    With(kubeObjectsHookExecute(x, failOn, Steps_[i].essential, f), LAMBDA y :
        IF f = "hook" THEN StepFailed(y, failOn, Steps_[i].essential)
        ELSE StepDone(y, Steps_[i].essential))

executeCaptureSteps(w, n, f) ==
    With(FoldLeft(LAMBDA x, i :
            IF x.out # "go" THEN x
            ELSE IF Steps_[i].hook
                 THEN With(HookStep(x, i, scene.captureFailOn, f), LAMBDA y :
                        IF y.out = "error" THEN [y EXCEPT !.w.kube = "False"] ELSE y)
                 ELSE CaptureGroup(x, n, i, f),
            Workflow(w), [i \in DOMAIN Steps_ |-> i]), LAMBDA x :
        IF x.out = "go" THEN WorkflowEnd(x) ELSE x)

\* The stores that come before the one that fails, if one does.
Reached(f) == {Stores[i] : i \in {j \in DOMAIN Stores : \A h \in 1 .. j : Stores[h] # f}}

\* The VRG with the status of the moment goes into the stores one by one.
vrgObjectProtectThrottled(w, f) ==
    LET u == [w EXCEPT !.store = [s \in StoreSet |->
                            IF s \in Reached(f) THEN [@[s] EXCEPT !.vrg = w.v.ctrf.num] ELSE @[s]],
                       !.v.uploaded = @ \/ Reached(f) # {}]
    IN IF Reached(f) = StoreSet THEN [u EXCEPT !.vrg = "True"]
       ELSE Requeued([u EXCEPT !.vrg = "False"])

vrgObjectProtect(w, f) == IF w.v.uploaded THEN w ELSE vrgObjectProtectThrottled(w, f)

ProtectRequestsDelete(v) == [v EXCEPT !.backups = [k \in DOMAIN @ |-> "none"]]

kubeObjectsCaptureIdentifierUpdateComplete(w, f) ==
    IF f = "requests" THEN Requeued(kubeObjectsCaptureStatus(w, "False"))
    ELSE kubeObjectsCaptureStatus(
            [w EXCEPT !.v = [ProtectRequestsDelete(@) EXCEPT !.retries = 0, !.newVMs = FALSE]], "True")

kubeObjectsCaptureComplete(w, n, f) ==
    With(vrgObjectProtectThrottled([w EXCEPT !.v.ctrf = [num |-> n, age |-> 0]], f), LAMBDA u :
        IF u.vrg = "False" THEN [u EXCEPT !.v.ctrf = w.v.ctrf]
        ELSE kubeObjectsCaptureIdentifierUpdateComplete(u, f))

\* The first failure makes the entry, the others count.
kubeObjectsCaptureRetryLimitExceeded(w) == w.v.retries + 1 > RecipeMaxAttempts
Counted(w) == [w EXCEPT !.v.retries = Min({@, RecipeMaxAttempts}) + 1]

\* As the list of requests had it when the pass began.
getFirstRequest(v, n) == v.backups[<<n, Min(Groups(scene)), Head(Stores)>>]

kubeObjectsCaptureStartOrResume(w, n, f) ==
    IF w.v.stopped THEN kubeObjectsCaptureStatus(w, "False")
    ELSE With(executeCaptureSteps(w, n, f), LAMBDA x :
        CASE x.out = "error" /\ kubeObjectsCaptureRetryLimitExceeded(x.w) ->
                kubeObjectsCaptureStatus(Counted(x.w), "False")
          [] x.out # "go" ->
                Requeued([(IF x.out = "error" THEN Counted(x.w) ELSE x.w) EXCEPT
                            !.kube = IF x.w.v.ctrf.num # Nil /\ x.w.v.ctrf.age < 2 THEN "True" ELSE @])
          [] x.out = "go" /\ x.allFailed -> Requeued(kubeObjectsCaptureStatus(x.w, "False"))
          [] x.out = "go" /\ ~x.allFailed /\ getFirstRequest(w.v, n) = "none" -> Requeued(x.w)
          [] OTHER -> kubeObjectsCaptureComplete(x.w, n, f))

kubeObjectsCapturesDelete(w, n, f) ==
    LET failing == f \in StoreSet
        u == [w EXCEPT !.store = [s \in StoreSet |-> IF s \notin Reached(f) THEN @[s]
                 ELSE [@[s] EXCEPT !.cap = [d \in DOMAIN @ |-> IF d[1] = n THEN Absent ELSE @[d]]]]]
    IN IF failing THEN Requeue(Requeued(kubeObjectsCaptureStatus(u, "False"))) ELSE Go(u)

isProtectedVMsListUpdated(v) == scene.vm /\ v.newVMs

kubeObjectsCaptureStartOrResumeOrDelay(w, f) ==
    LET n == 1 - (IF w.v.ctrf.num = Nil THEN 0 ELSE w.v.ctrf.num)
    IN IF f = "list" THEN Requeued(kubeObjectsCaptureStatus(w, "False"))
       ELSE IF \E k \in DOMAIN w.v.backups : w.v.backups[k] # "none"
       THEN kubeObjectsCaptureStartOrResume(w, n, f)
       ELSE IF w.v.ctrf.age = 0 /\ ~isProtectedVMsListUpdated(w.v)
       THEN kubeObjectsCaptureStatus(w, "True")
       ELSE Then(kubeObjectsCapturesDelete(w, n, f), LAMBDA u :
                Go(kubeObjectsCaptureStartOrResume(u, n, f))).w

kubeObjectsProtectPrimary(w, f) ==
    IF w.v.final THEN w ELSE kubeObjectsCaptureStartOrResumeOrDelay(w, f)

-----------------------------------------------------------------------------
(* Recovery.                                                                *)

\* A backup of the same name stands for the capture on this cluster; once
\* Velero is through with it the restore is made.  One that Velero did not take
\* stays, and no restore is made.
RecoverRequestCreate(w, k, f) ==
    CASE w.v.backups[k] = "none" /\ f # k[3] -> [w EXCEPT !.v.backups[k] = "new"]
      [] w.v.backups[k] = "none" /\ f = k[3] -> Requeued(w)
      [] w.v.backups[k] = "new" -> w
      [] w.v.backups[k] = "invalid" -> Requeued(w)
      [] OTHER -> [w EXCEPT !.v.restores[k[2]] = [st |-> "new", num |-> k[1], from |-> k[3]]]

\* A restore is removed with its backup.
RestoreDeallocate(w, g, f) ==
    LET r == w.v.restores[g]
    IN IF f = "requests" THEN w
       ELSE [w EXCEPT !.v.restores[g] = NoRestore(scene), !.v.backups[<<r.num, g, r.from>>] = "none"]

\* (A restore that was asked for counts as done.)
handleRecoverRequestStatus_Asked(w, g, f) ==
    IF w.v.restores[g].st = "failed" THEN Requeue(Requeued(RestoreDeallocate(w, g, f))) ELSE Go(w)

\* (A failed restore stays.)
handleRecoverRequestStatus_Kept(w, g, f) ==
    IF w.v.restores[g].st \in {"new", "failed"} THEN Requeue(w) ELSE Go(w)

handleRecoverRequestStatus(w, g, f) ==
    CASE w.v.restores[g].st = "done" -> Go(w)
      [] w.v.restores[g].st = "zero" ->
            IF scene.vm THEN Requeue(Requeued(RestoreDeallocate(w, g, f))) ELSE Go(w)
      [] w.v.restores[g].st = "new" -> Requeue(w)
      [] OTHER -> Requeue(Requeued(RestoreDeallocate(w, g, f)))

executeRecoverGroup(w, n, g, s, f) ==
    IF w.v.restores[g].st = "none" THEN Requeue(RecoverRequestCreate(w, <<n, g, s>>, f))
    ELSE handleRecoverRequestStatus(w, g, f)

\* What a group is to the restore: nothing carries over that it is essential.
convertRecipeGroupToRecoverSpec(i) == [essential |-> FALSE]

executeRecoverSteps(w, n, s, f) ==
    With(FoldLeft(LAMBDA x, i :
            IF x.out # "go" THEN x
            ELSE IF Steps_[i].hook THEN HookStep(x, i, scene.restoreFailOn, f)
            ELSE With(executeRecoverGroup(x.w, n, i, s, f), LAMBDA r :
                    LET essential == convertRecipeGroupToRecoverSpec(i).essential
                    IN IF r.res = "go" THEN StepDone([x EXCEPT !.w = r.w], essential)
                       ELSE StepFailed([x EXCEPT !.w = r.w], scene.restoreFailOn, essential)),
            Workflow(w), [i \in DOMAIN Steps_ |-> i]), LAMBDA x :
        IF x.out = "go" THEN WorkflowEnd(x) ELSE x)

RecoverRequestsDelete(v) ==
    ProtectRequestsDelete([v EXCEPT !.restores = [g \in DOMAIN @ |-> NoRestore(scene)]])

kubeObjectsRecoveryStartOrResume(w, n, s, f) ==
    IF f = "list" THEN Requeue(w)
    ELSE With(executeRecoverSteps(w, n, s, f), LAMBDA x :
        IF x.out # "go" \/ x.allFailed \/ f = "requests" THEN Requeue(Requeued(x.w))
        ELSE Go([x.w EXCEPT !.v = RecoverRequestsDelete(@)]))

kubeObjectsRecoverFromS3(w, s, f) ==
    IF f = s \/ w.store[s].vrg \notin Numbers THEN Requeue(w)
    ELSE kubeObjectsRecoveryStartOrResume(
            [w EXCEPT !.v.ctrf = [num |-> w.store[s].vrg, age |-> 1]], w.store[s].vrg, s, f)

\* The stores are tried in turn, whatever kept the one before from being done.
kubeObjectsRecover(w, f) ==
    IF ~w.v.action THEN Go(w)
    ELSE With(FoldLeft(LAMBDA r, s : IF r.res = "go" THEN r ELSE kubeObjectsRecoverFromS3(r.w, s, f),
                       Requeue(w), Stores), LAMBDA r :
        IF r.res = "go" THEN r ELSE Requeue(Requeued(r.w)))

-----------------------------------------------------------------------------
(* The passes.                                                              *)

StatusOf(v) == <<v.ctrf, v.ready, v.protected, v.hooks>>

\* The conditions are merged and the status is saved if it changed, which
\* makes a new version of the object.
updateVRGConditionsAndStatus(v, w, f) ==
    LET u == [w.v EXCEPT !.protected = IF "False" \in {w.kube, w.vrg} THEN "False" ELSE "True"]
    IN IF StatusOf(u) = StatusOf(v) THEN [w EXCEPT !.v = u]
       ELSE IF f = "save" THEN Requeued([w EXCEPT !.v = [u EXCEPT !.ctrf = v.ctrf, !.ready = v.ready,
                                            !.protected = v.protected, !.hooks = v.hooks]])
       ELSE [w EXCEPT !.v = [u EXCEPT !.uploaded = FALSE]]

resetKubeObjectsCaptureStatusIfRequired(w) ==
    IF w.v.final THEN w ELSE kubeObjectsCaptureStatus(w, "False")

shouldRestoreKubeObjects(v) == ~v.final /\ v.ready # "restored"

processAsPrimary(w, f) ==
    With(resetKubeObjectsCaptureStatusIfRequired(w), LAMBDA u :
        IF shouldRestoreKubeObjects(u.v)
        THEN With(kubeObjectsRecover(u, f), LAMBDA r :
                IF r.res # "go" THEN [r.w EXCEPT !.v.ready = "error"]
                ELSE Requeued([r.w EXCEPT !.v.ready = "restored"]))
        ELSE With(kubeObjectsProtectPrimary([u EXCEPT !.v.ready = "restored"], f), LAMBDA x :
                IF x.requeue THEN x ELSE vrgObjectProtect(x, f)))

cleanupVeleroBackupsForSecondary(w, f) ==
    IF f \in {"list", "requests"} THEN Requeued(w) ELSE [w EXCEPT !.v = ProtectRequestsDelete(@)]

resetInitialStatusAsSecondary(w) ==
    IF w.v.ready = "unused" THEN w ELSE Requeued([w EXCEPT !.v.ready = "unused"])

processAsSecondary(w, f) == resetInitialStatusAsSecondary(cleanupVeleroBackupsForSecondary(w, f))

deleteClusterDataInS3Stores(w, f) ==
    LET u == [w EXCEPT !.store = [s \in StoreSet |-> IF s \notin Reached(f) THEN @[s]
                 ELSE [vrg |-> NoVRG, cap |-> [d \in DOMAIN @[s].cap |-> Absent]]]]
    IN IF w.v.spec # "Primary" THEN Go(w)
       ELSE IF f \in StoreSet THEN Requeue(Requeued(u)) ELSE Go(u)

kubeObjectsProtectionDelete(w, f) ==
    IF f = "requests" THEN Requeue(Requeued(w)) ELSE Go([w EXCEPT !.v = RecoverRequestsDelete(@)])

NoSite(v) == [v EXCEPT !.spec = "None", !.action = FALSE, !.final = FALSE, !.deleted = FALSE,
                       !.ctrf = NoIdentifier, !.ready = "none", !.protected = "none",
                       !.hooks = "none", !.uploaded = FALSE]

processForDeletion(w, f) ==
    Then(Then(kubeObjectsProtectionDelete(w, f), LAMBDA u : deleteClusterDataInS3Stores(u, f)),
         LAMBDA u : Stop([u EXCEPT !.v = NoSite(@)])).w

Pass(c, f) ==
    LET v == site[c]
        w == [v |-> v, store |-> store, requeue |-> FALSE, kube |-> "nil", vrg |-> "nil"]
    IN IF v.deleted THEN processForDeletion(w, f)
       ELSE updateVRGConditionsAndStatus(v,
                IF v.spec = "Primary" THEN processAsPrimary(w, f) ELSE processAsSecondary(w, f), f)

\* What a pass leaves, whether it is to run again included.
Passed(c, f) == With(Pass(c, f), LAMBDA w : [w EXCEPT !.v.queued = w.requeue])

Running(c) == site[c].spec # "None" /\ site[c].alive

Reconcile(c, f) ==
    /\ Running(c) /\ site[c].queued
    /\ f # "none" => f \in scene.calls /\ faults < scene.faults
    /\ \E w \in {Passed(c, f)} :
        /\ site' = [site EXCEPT ![c] = w.v]
        /\ store' = w.store
        /\ lost' = (lost \/ (f = "save" /\ \E s \in StoreSet : w.store[s].vrg # store[s].vrg))
    /\ faults' = IF f = "none" THEN faults ELSE faults + 1
    /\ UNCHANGED <<scene, version, changes>>

-----------------------------------------------------------------------------
(* The hub, users and time.                                                 *)

Others == UNCHANGED <<scene, store, lost, faults>>

Decided(act) == May(act) /\ changes < scene.changes /\ changes' = changes + 1

Promoted(v) == [v EXCEPT !.spec = "Primary", !.action = TRUE, !.queued = TRUE, !.uploaded = FALSE]

Demoted(v) == [v EXCEPT !.spec = "Secondary", !.final = FALSE, !.queued = TRUE, !.uploaded = FALSE,
                        !.objs = [g \in DOMAIN @ |-> 0]]

\* The manager forgets what it held in memory.
Restarted(v) == [v EXCEPT !.retries = -1, !.uploaded = FALSE, !.newVMs = scene.vm, !.queued = TRUE]

Active(c) == Running(c) /\ site[c].spec = "Primary" /\ ~site[c].deleted

\* The cluster is lost and the application is to run on the other one.
Failover(c) ==
    /\ Active(c) /\ ~site[Peer(c)].deleted /\ Decided("failover")
    /\ site[Peer(c)].alive /\ site[Peer(c)].ready = "unused"
    /\ site' = [site EXCEPT ![c] = [Restarted(@) EXCEPT !.alive = FALSE, !.ctrf.age = 2],
                            ![Peer(c)] = Promoted(@)]
    /\ lost' = (lost \/ \E s, t \in StoreSet : store[s].vrg # store[t].vrg)
    /\ UNCHANGED <<scene, store, version, faults>>

\* The lost cluster is back and made a Secondary.
Returns(c) ==
    /\ ~site[c].alive
    /\ site' = [site EXCEPT ![c] = [Demoted(@) EXCEPT !.alive = TRUE]]
    /\ Others /\ UNCHANGED <<version, changes>>

Quiesce(c) ==
    /\ Active(c) /\ site[c].ready = "restored" /\ ~site[c].final
    /\ Running(Peer(c)) /\ site[Peer(c)].spec = "Secondary" /\ ~site[Peer(c)].deleted
    /\ Decided("relocate")
    /\ site' = [site EXCEPT ![c] = [@ EXCEPT !.final = TRUE, !.queued = TRUE, !.uploaded = FALSE]]
    /\ Others /\ UNCHANGED version

Relocate(c) ==
    /\ Active(c) /\ site[c].final
    /\ site' = [site EXCEPT ![c] = Demoted(@)]
    /\ Others /\ UNCHANGED <<version, changes>>

\* The other cluster is promoted once this one has settled as Secondary.
MoveTo(c) ==
    /\ Running(c) /\ site[c].spec = "Secondary" /\ May("relocate") /\ changes > 0
    /\ Running(Peer(c)) /\ site[Peer(c)].spec = "Secondary"
    /\ \A d \in ClusterSet : ~site[d].deleted /\ site[d].ready = "unused"
    /\ site' = [site EXCEPT ![c] = Promoted(@)]
    /\ Others /\ UNCHANGED <<version, changes>>

\* DR is disabled: the Secondary's VRG goes first.
Disable(c) ==
    /\ Running(c) /\ ~site[c].deleted /\ site[Peer(c)].alive
    /\ IF site[c].spec = "Primary" THEN site[Peer(c)].spec = "None" /\ UNCHANGED changes /\ May("delete")
       ELSE site[Peer(c)].spec = "Primary" /\ Decided("delete")
    /\ site' = [site EXCEPT ![c].deleted = TRUE, ![c].queued = TRUE]
    /\ Others /\ UNCHANGED version

Restart(c) ==
    /\ Running(c) /\ Decided("restart")
    /\ site' = [site EXCEPT ![c] = Restarted(@)]
    /\ Others /\ UNCHANGED version

UserProtectsVM(c) ==
    /\ Active(c) /\ scene.vm /\ Decided("vms")
    /\ site' = [site EXCEPT ![c] = [@ EXCEPT !.newVMs = TRUE, !.queued = TRUE, !.uploaded = FALSE]]
    /\ Others /\ UNCHANGED version

UserStopsRecipe(c) ==
    /\ Active(c) /\ Decided("stop")
    /\ site' = [site EXCEPT ![c] = [@ EXCEPT !.stopped = ~@, !.queued = TRUE, !.uploaded = FALSE]]
    /\ Others /\ UNCHANGED version

AppChanges(c) ==
    /\ Active(c) /\ site[c].ready = "restored" /\ ~site[c].final /\ version < scene.writes
    /\ version' = version + 1
    /\ site' = [site EXCEPT ![c].objs = [g \in DOMAIN @ |-> version']]
    /\ Others /\ UNCHANGED changes

\* An interval passes since the capture to recover from was started.
Tick(c) ==
    /\ Active(c) /\ site[c].ctrf.age < 2
    /\ site' = [site EXCEPT ![c].ctrf.age = @ + 1, ![c].queued = TRUE]
    /\ Others /\ UNCHANGED <<version, changes>>

-----------------------------------------------------------------------------
(* Velero.                                                                  *)

\* A backup whose name is taken in the store fails and leaves what is there.
BackupRuns(c, k) ==
    /\ site[c].alive /\ site[c].backups[k] = "new"
    /\ LET there == store[k[3]].cap[<<k[1], k[2]>>] # Absent
       IN /\ site' = [site EXCEPT ![c].backups[k] = IF there THEN "failed" ELSE "done", ![c].queued = TRUE]
          /\ store' = IF there THEN store
                      ELSE [store EXCEPT ![k[3]].cap[<<k[1], k[2]>>] = site[c].objs[k[2]]]
    /\ UNCHANGED <<scene, version, lost, changes, faults>>

BackupFails(c, k) ==
    /\ site[c].alive /\ site[c].backups[k] = "new" /\ faults < scene.faults
    /\ faults' = faults + 1
    /\ site' = [site EXCEPT ![c].backups[k] = "failed", ![c].queued = TRUE]
    /\ store' = [store EXCEPT ![k[3]].cap[<<k[1], k[2]>>] = IF @ = Absent THEN Partial ELSE @]
    /\ UNCHANGED <<scene, version, lost, changes>>

\* Velero does not take the backup, its storage location not being available.
BackupInvalid(c, k) ==
    /\ site[c].alive /\ site[c].backups[k] = "new" /\ faults < scene.faults
    /\ faults' = faults + 1
    /\ site' = [site EXCEPT ![c].backups[k] = "invalid", ![c].queued = TRUE]
    /\ UNCHANGED <<scene, store, version, lost, changes>>

RestoreRuns(c, g) ==
    LET r == site[c].restores[g]
        found == store[r.from].cap[<<r.num, g>>]
    IN /\ site[c].alive /\ r.st = "new"
       /\ site' = [site EXCEPT ![c].queued = TRUE,
             ![c].restores[g].st = IF found > 0 THEN "done" ELSE IF found = 0 THEN "zero" ELSE "failed",
             ![c].objs[g] = IF found > 0 THEN found ELSE @]
       /\ UNCHANGED <<scene, store, version, lost, changes, faults>>

RestoreFails(c, g) ==
    /\ site[c].alive /\ site[c].restores[g].st = "new" /\ faults < scene.faults
    /\ faults' = faults + 1
    /\ site' = [site EXCEPT ![c].restores[g].st = "failed", ![c].queued = TRUE]
    /\ UNCHANGED <<scene, store, version, lost, changes>>

-----------------------------------------------------------------------------
(* The specification.                                                       *)

SiteOf(sc, spec) ==
    [spec |-> spec, action |-> FALSE, final |-> FALSE, deleted |-> FALSE, stopped |-> FALSE,
     alive |-> TRUE, queued |-> spec = "Primary", ctrf |-> NoIdentifier,
     ready |-> IF spec = "Primary" THEN "none" ELSE "unused", protected |-> "none", hooks |-> "none", retries |-> -1, uploaded |-> FALSE,
     newVMs |-> sc.vm, backups |-> [k \in Keys(sc) |-> "none"],
     restores |-> [g \in Groups(sc) |-> NoRestore(sc)],
     objs |-> [g \in Groups(sc) |-> IF spec = "Primary" THEN 1 ELSE 0]]

\* Deployed on one cluster, nothing captured yet.
InitKube ==
    /\ scene \in Scenes
    /\ site = [c \in ClusterSet |-> SiteOf(scene, IF c = Head(Clusters) THEN "Primary" ELSE "Secondary")]
    /\ store = [s \in Range(scene.stores) |->
                   [vrg |-> NoVRG, cap |-> [d \in Numbers \X Groups(scene) |-> Absent]]]
    /\ version = 1 /\ lost = FALSE /\ changes = 0 /\ faults = 0

Velero(c) ==
    \/ \E k \in DOMAIN site[c].backups : BackupRuns(c, k)
    \/ \E g \in DOMAIN site[c].restores : RestoreRuns(c, g)

NextKube ==
    \E c \in ClusterSet :
        \/ \E f \in scene.calls \cup {"none"} : Reconcile(c, f)
        \/ Failover(c) \/ Returns(c) \/ Quiesce(c) \/ Relocate(c) \/ MoveTo(c) \/ Disable(c)
        \/ Restart(c) \/ UserProtectsVM(c) \/ UserStopsRecipe(c) \/ AppChanges(c) \/ Tick(c)
        \/ \E k \in DOMAIN site[c].backups : BackupRuns(c, k) \/ BackupFails(c, k) \/ BackupInvalid(c, k)
        \/ \E g \in DOMAIN site[c].restores : RestoreRuns(c, g) \/ RestoreFails(c, g)

SpecKube == InitKube /\ [][NextKube]_kubeVars

\* A queued pass that would change something.
PassPending(c) ==
    Running(c) /\ site[c].queued /\ With(Passed(c, "none"), LAMBDA w : <<w.v, w.store>> # <<site[c], store>>)

CleanPass(c) == /\ faults' = faults /\ version' = version /\ changes' = changes
                /\ site'[Peer(c)] = site[Peer(c)]
                /\ Reconcile(c, "none")

\* The work queue of a running manager is served, and not every call fails;
\* Velero serves its requests; the hub brings what was decided to its end.
FairSpecKube ==
    /\ SpecKube
    /\ \A c \in ClusterSet : []<>~PassPending(c) \/ []<><<CleanPass(c)>>_kubeVars
    /\ \A c \in ClusterSet : WF_kubeVars(Velero(c)) /\ WF_kubeVars(Relocate(c))
    /\ WF_kubeVars(\E c \in ClusterSet : MoveTo(c))

-----------------------------------------------------------------------------
(* Properties.                                                              *)

SiteType ==
    [spec : {"None", "Primary", "Secondary"}, action : BOOLEAN, final : BOOLEAN, deleted : BOOLEAN,
     stopped : BOOLEAN, alive : BOOLEAN, queued : BOOLEAN,
     ctrf : [num : Numbers \cup {Nil}, age : 0 .. 2],
     ready : {"none", "error", "restored", "unused"}, protected : {"none", "True", "False"},
     hooks : {"none", "failed", "executed"}, retries : -1 .. RecipeMaxAttempts + 1,
     uploaded : BOOLEAN, newVMs : BOOLEAN,
     backups : [Keys(scene) -> {"none", "new", "done", "failed", "invalid"}],
     restores : [Groups(scene) -> [st : {"none", "new", "done", "zero", "failed"},
                                   num : Numbers, from : StoreSet]],
     objs : [Groups(scene) -> 0 .. scene.writes]]

\* The VRGs and the stores have their types: a capture number alternates between
\* two (kubeObjectsCaptureComplete), and a store's VRG names one of them or none.
KubeTypeOK ==
    /\ site \in [ClusterSet -> SiteType]
    /\ store \in [StoreSet -> [vrg : Numbers \cup {Nil, NoVRG},
                               cap : [Numbers \X Groups(scene) -> {Absent, Partial} \cup 0 .. scene.writes]]]

\* The groups without which a capture is not complete.
Required == {g \in Groups(scene) : shouldStopExecution(scene.captureFailOn, Steps_[g].essential)}
Captured(s, n) == \A g \in Required : store[s].cap[<<n, g>>] \notin {Absent, Partial}

\* The capture a store's VRG names is in that store, with every group that must
\* be: kubeObjectsCaptureComplete uploads the VRG only once the requests are
\* done, and kubeObjectsCapturesDelete makes room under the other number.
RecoverableCapture ==
    lost \/ \A s \in StoreSet : store[s].vrg \in Numbers => Captured(s, store[s].vrg)

\* Where a recovery fails on any error, a Primary that says its kube objects are
\* ready has them all (executeRecoverSteps has seen every restore through), and
\* the state is well formed.  Where it does not, a request that was only just
\* made is passed over as one that failed.
RestoredWhole ==
    /\ KubeTypeOK
    /\ lost \/ scene.restoreFailOn # "any-error" \/ \A c \in ClusterSet : site[c].spec = "Primary" /\ site[c].ready = "restored"
         => \A g \in Required : site[c].objs[g] > 0

\* A store to recover from: its VRG names a capture, and Velero has not refused
\* a backup that stands for it.
Usable(c, s) ==
    /\ store[s].vrg \in Numbers
    /\ \A g \in Groups(scene) : site[c].backups[<<store[s].vrg, g, s>>] # "invalid"

\* A cluster promoted by a failover or a relocation gets its kube objects back
\* as long as there is a store to recover from (kubeObjectsRecover tries store
\* after store, pass after pass, and handleRecoverError removes a restore that
\* failed).  A backup that Velero refused is never removed.
RecoveryCompletes ==
    (\E c \in ClusterSet : Active(c) /\ site[c].action /\ ~lost /\ \E s \in StoreSet : Usable(c, s))
    ~> (\A c \in ClusterSet : Active(c) =>
            site[c].ready = "restored" \/ ~\E s \in StoreSet : Usable(c, s))

=============================================================================
