----------------------------- MODULE MCDRSystem -----------------------------
EXTENDS DRSystem, TLC

Symmetry == Permutations(Clusters)

(* The step at which the reconcile is writes nothing, and reads nothing    *)
(* but the snapshot and what only the hub writes.                          *)
Quiet ==
  CASE pc = "action" -> inst.spec.action # "Failover"
    [] pc = "deployWork" -> mw[target].state # "None"
    [] pc = "retain" ->
         decisions = retainClusterDecisionAsFailover(decisions,
                       getCurrentHomeClusterName(target))
    [] pc = "switch" -> mw[target].state = "Primary"
    [] pc = "ensureWork" -> mw[target] = setVRGAction(mw[target])
    [] pc = "annotate" ->
         inst.lastAction = [cluster |-> target, action |-> inst.spec.action]
    [] pc = "resetRD" -> ~mw[target].rdSpec
    [] pc = "cleanup" ->
         \/ CleanupComplete
         \/ /\ mw[Peer(target)].state = "Secondary"
            /\ ~PeerProcessesSecondary(vrgs[Peer(target)])
    [] pc = "secondary" -> mw[Peer(target)] = refreshVRGSecondarySpec
    [] pc = "prepare" -> mw[target].prepareForFinalSync
    [] pc = "finalSync" ->
         vrgs[target].status.finalSyncComplete \/ mw[target].runFinalSync
    [] OTHER -> FALSE

(* Such a step commutes with every step of the clusters and of their       *)
(* views, so only behaviors that take it at once are explored.  A change   *)
(* of the spec by the user matters to it only through the conflict of the  *)
(* status write that ends the reconcile; the change can as well be made    *)
(* before the last write of that reconcile, or, when there was none,       *)
(* before the reconcile starts.                                            *)
QuietStepsFirst == Quiet => pc' # pc

CompletedPhase(action) == CASE action = "" -> "Deployed"
                            [] action = "Failover" -> "FailedOver"
                            [] action = "Relocate" -> "Relocated"

Asked(action, fc, pref) ==
  [action |-> action, failoverCluster |-> fc,
   preferredCluster |-> pref, generation |-> 0]

(* The state that what was asked for last ends in, with the workload on    *)
(* cluster c; it was deployed on cluster from.  Generations are counted    *)
(* from there.                                                             *)
CompletedOn(c, asked, from) ==
  LET Ready(w) ==
        [spec |-> w,
         status |->
           [state |-> w.state, observed |-> TRUE, dataReady |-> TRUE,
            dataProtected |-> TRUE, clusterDataReady |-> TRUE,
            clusterDataProtected |-> w.state = "Primary",
            clusterData |-> IF w.state = "Primary" THEN "Restored"
                            ELSE "Unused",
            prepareForFinalSyncComplete |-> FALSE,
            finalSyncComplete |-> FALSE,
            protectedPVCs |-> w.state = "Primary"]]
  IN
  /\ spec = asked
  /\ status = [phase |-> CompletedPhase(asked.action), completed |-> TRUE,
               peerReady |-> "Success", peerGeneration |-> 0,
               preferredDecision |-> from]
  /\ lastAction = [cluster |-> c, action |-> asked.action]
  /\ decisions = [NoDecisions EXCEPT ![c].active = 1]
  /\ mw = [d \in Clusters |->
             [NoSpec EXCEPT !.state = IF d = c THEN "Primary" ELSE "Secondary",
                            !.action = asked.action,
                            !.rdSpec = VolSync /\ d # c]]
  /\ view = [d \in Clusters |-> Ready(mw[d])]
  /\ pc = "idle"
  /\ inst = NoInstance
  /\ vrgs = NoViews
  /\ queried = FALSE
  /\ target = NoCluster
  /\ faults = 0
  /\ vrg = view
  /\ running = [d \in Clusters |-> d = c]
  /\ unsynced = running

DeployedOn(c) == CompletedOn(c, Asked("", NoCluster, c), c)

(* A user who asks for the next action when the last one is reported       *)
(* completed and the peer ready.                                           *)
PatientUser ==
  spec' # spec =>
    ReportsCompleted(CompletedPhase(spec.action))
=============================================================================
