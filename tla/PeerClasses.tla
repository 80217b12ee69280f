---------------------------- MODULE PeerClasses ----------------------------
(***************************************************************************)
(* How the storage of two clusters is paired.  The classes of each cluster *)
(* give the peer classes that a DRPolicy reports; a VRG is given those its *)
(* PVCs need; and by them a VRG sorts its PVCs into those replicated by    *)
(* their storage and those replicated by VolSync.                          *)
(*                                                                         *)
(* A DRPolicy has two clusters, and names of StorageClasses are unique in  *)
(* a cluster, so that the lists of the code are sets here.  An identifier  *)
(* is a label of a class; "" is a label that is not there, or is empty,    *)
(* and a StorageClass tells which (labelled).                              *)
(***************************************************************************)
EXTENDS FiniteSetsExt, Steps

\* The classes of a cluster: the StorageClasses s, and those for snapshots (vs),
\* snapshots of groups (vgs), replication (vr) and replication of groups (vgr).
Classes(SCs, IDs, Drivers, Schedules) ==
    [s : SUBSET [name : SCs, sid : IDs, labelled : BOOLEAN, prov : Drivers, off : BOOLEAN, grid : IDs],
     vs : SUBSET [sid : IDs, prov : Drivers], vgs : SUBSET [sid : IDs, prov : Drivers],
     vr : SUBSET [sid : IDs, rid : IDs, sched : Schedules, prov : Drivers],
     vgr : SUBSET [sid : IDs, rid : IDs, grid : IDs, sched : Schedules, prov : Drivers, global : BOOLEAN]]

PeerClass(n, ids, sids, rid, grid, grouping, off, global) ==
    [name |-> n, ids |-> ids, sids |-> sids, rid |-> rid, grid |-> grid, grouping |-> grouping,
     off |-> off, global |-> global]

Names(cl) == {s.name : s \in cl.s}
Named(cl, n) == CHOOSE s \in cl.s : s.name = n

-----------------------------------------------------------------------------
(* The pairs of two clusters, from the classes a and b that were read.      *)

provisionerMatchesSC(s, driver) == s.prov = driver

hasVSClassMatchingSID(s, cl) == \E v \in cl.vs : v.sid # "" /\ v.sid = s.sid /\ provisionerMatchesSC(s, v.prov)
hasVGSClassMatchingSID(s, cl) == \E v \in cl.vgs : v.sid # "" /\ v.sid = s.sid /\ provisionerMatchesSC(s, v.prov)

isAsyncVSClassPeer(s, t, a, b) == hasVSClassMatchingSID(s, a) /\ hasVSClassMatchingSID(t, b)
isAsyncVGSClassPeer(s, t, a, b) == hasVGSClassMatchingSID(s, a) /\ hasVGSClassMatchingSID(t, b)

getVRID(s, v, sched) ==
    IF v.sid = "" \/ v.sid # s.sid \/ v.sched # sched \/ ~provisionerMatchesSC(s, v.prov) THEN "" ELSE v.rid

getVGRID(s, v, sched, grid) ==
    IF \/ v.sid = "" \/ v.sid # s.sid \/ v.sched # sched \/ ~provisionerMatchesSC(s, v.prov)
       \/ (grid # "" /\ grid # v.grid)
    THEN "" ELSE v.grid

\* One of the identifiers that both have, "" if there is none.
Common(A, B) == IF (A \cap B) \ {""} = {} THEN "" ELSE CHOOSE id \in (A \cap B) \ {""} : TRUE

getAsyncVRClassPeer(s, t, a, b, sched) ==
    Common({getVRID(s, v, sched) : v \in a.vr}, {getVRID(t, v, sched) : v \in b.vr})

getAsyncVGRClassPeer(s, t, a, b, sched) ==
    Common({getVGRID(s, v, sched, s.grid) : v \in a.vgr}, {getVGRID(t, v, sched, s.grid) : v \in b.vgr})

\* (The first class with the identifier decides; classes that share one agree.)
isAsyncVGRClassPeerGlobal(a, b, grid) ==
    \A cl \in {a, b} : \E v \in cl.vgr : v.grid = grid /\ v.global

getAsyncPeers(s, t, a, b, ids, sched) ==
    With([grid |-> getAsyncVGRClassPeer(s, t, a, b, sched), rid |-> getAsyncVRClassPeer(s, t, a, b, sched)],
         LAMBDA id :
         CASE s.sid = t.sid \/ s.off # t.off -> {}
           [] s.off /\ id.grid = "" -> {}
           [] s.off -> {PeerClass(s.name, ids, {s.sid, t.sid}, "", id.grid, TRUE, TRUE,
                                  isAsyncVGRClassPeerGlobal(a, b, id.grid))}
           [] id.rid # "" -> {PeerClass(s.name, ids, {s.sid, t.sid}, id.rid, id.grid, id.grid # "", FALSE, FALSE)}
           [] isAsyncVGSClassPeer(s, t, a, b) ->
                 {PeerClass(s.name, ids, {s.sid, t.sid}, "", "", TRUE, FALSE, FALSE)}
           [] isAsyncVSClassPeer(s, t, a, b) ->
                 {PeerClass(s.name, ids, {s.sid, t.sid}, "", "", FALSE, FALSE, FALSE)}
           [] OTHER -> {})

getSyncPeers(s, t, ids) ==
    IF s.sid = t.sid THEN {PeerClass(s.name, ids, {s.sid}, "", "", FALSE, FALSE, FALSE)} ELSE {}

findPeers(s, t, a, b, ids, sched) ==
    IF ~s.labelled THEN [sync |-> {}, async |-> {}]
    ELSE [sync |-> getSyncPeers(s, t, ids),
          async |-> IF sched = "" THEN {} ELSE getAsyncPeers(s, t, a, b, ids, sched)]

findAllPeers(a, b, ids, sched) ==
    With({findPeers(Named(a, n), Named(b, n), a, b, ids, sched) : n \in Names(a) \cap Names(b)},
         LAMBDA found : [sync |-> UNION {p.sync : p \in found}, async |-> UNION {p.async : p \in found}])

peerClassMatchesPeer(pc, peer) ==
    /\ pc.name = peer.name /\ pc.ids = peer.ids
    /\ pc.grid # "" /\ peer.grid # "" => pc.grid = peer.grid

pruneAndUpdateStatusPeers_Kept(status, peers) ==
    {pc \in status : \E p \in peers : peerClassMatchesPeer(pc, p)}
    \cup {p \in peers : ~\E pc \in status : peerClassMatchesPeer(pc, p)}

pruneAndUpdateStatusPeers(status, peers) ==
    {p \in peers : \E pc \in status : peerClassMatchesPeer(pc, p)}
    \cup {p \in peers : ~\E pc \in status : peerClassMatchesPeer(pc, p)}

\* An empty identifier is none: findPeers takes it for one, and for equal to a
\* label that is not there, so that two such classes count as shared storage.
EmptyLabels(cl) == \E s \in cl.s : s.labelled /\ s.sid = ""

\* What the pairs are meant to be: by its storage if both ends share it; by a
\* replication both ends offer for the schedule; by snapshots both can take.
Offers(cl, s, sched) ==
    {v.rid : v \in {x \in cl.vr : x.sid = s.sid /\ x.prov = s.prov /\ x.sched = sched}} \ {""}
GroupOffers(cl, s, sched) ==
    {v.grid : v \in {x \in cl.vgr : x.sid = s.sid /\ x.prov = s.prov /\ x.sched = sched}} \ {""}

SyncPairs(a, b) ==
    {n \in Names(a) \cap Names(b) : Named(a, n).sid = Named(b, n).sid /\ Named(a, n).sid # ""}
Wanted(s, ids) == IF s.grid = "" THEN ids ELSE ids \cap {s.grid}
AsyncPairs(a, b, sched, how) ==
    {n \in Names(a) \cap Names(b) :
        LET s == Named(a, n)  t == Named(b, n)
            reps == Offers(a, s, sched) \cap Offers(b, t, sched)
            groups == Wanted(s, GroupOffers(a, s, sched) \cap GroupOffers(b, t, sched))
            snaps == \/ \A e \in {<<a, s>>, <<b, t>>} : \E v \in e[1].vs : v.sid = e[2].sid /\ v.prov = e[2].prov
                     \/ \A e \in {<<a, s>>, <<b, t>>} : \E v \in e[1].vgs : v.sid = e[2].sid /\ v.prov = e[2].prov
        IN  /\ sched # "" /\ s.sid # "" /\ t.sid # "" /\ s.sid # t.sid /\ s.off = t.off
            /\ CASE how = "offloaded" -> s.off /\ groups # {}
                 [] how = "replicated" -> ~s.off /\ reps # {}
                 [] how = "copied" -> ~s.off /\ reps = {} /\ snaps}

-----------------------------------------------------------------------------
(* The peer classes of a VRG's spec, as the hub updates them for the names  *)
(* of the StorageClasses that its PVCs use.                                 *)

\* Only a class with the same way of replicating takes the place of another.
updatePeerClass_Any(to, from, cg) == [from EXCEPT !.grouping = cg \/ @]

updatePeerClass(to, from, cg) ==
    IF /\ to.off = from.off /\ to.global = from.global
       /\ (to.rid = "") = (from.rid = "") /\ to.grouping = from.grouping
    THEN [from EXCEPT !.grouping = cg \/ @] ELSE to

hasPeerClass(pcs, pc) == \E q \in pcs : q.name = pc.name /\ q.ids = pc.ids

updatePeers(spec, names, policy, cg) ==
    {IF to.name \in names /\ hasPeerClass(policy, to)
     THEN updatePeerClass(to, CHOOSE from \in policy : from.name = to.name /\ from.ids = to.ids, cg) ELSE to :
     to \in spec}
    \cup {from \in policy : from.name \in names /\ ~hasPeerClass(spec, from)}

-----------------------------------------------------------------------------
(* The sorting of a VRG's PVCs, by the peer classes pcs of its spec and the  *)
(* classes cl of its own cluster.  A PVC stands for those of its            *)
(* StorageClass n: it is replicated by storage ("volrep"), alone or grouped, *)
(* by VolSync ("volsync"), or sorting fails ("error").                      *)

How(kind, group) == [kind |-> kind, group |-> group]
Unsorted == How("error", FALSE)

isOffloadedByPeerClasses(pcs, s) == \E pc \in pcs : pc.name = s.name /\ s.sid \in pc.sids /\ pc.off

\* Either all are offloaded or none is, and what the peer classes and the
\* StorageClass say of it agrees.
OffloadFails(pcs, cl, names) ==
    \/ \E n \in names : ~Named(cl, n).labelled \/ isOffloadedByPeerClasses(pcs, Named(cl, n)) # Named(cl, n).off
    \/ \E m, n \in names : Named(cl, m).off # Named(cl, n).off

processOffloadedPVCs(pcs, cl, names) == names # {} /\ \A n \in names : Named(cl, n).off

\* Where some are replicated by a group of many workloads, all are, by the same.
processGloballyOffloadedPVCs(pcs, names) ==
    (\E pc \in pcs : pc.global)
    => \E grid \in {pc.grid : pc \in pcs} : \A n \in names : \E pc \in pcs : pc.name = n /\ pc.global /\ pc.grid = grid

findPeerClassMatchingSC(pcs, s) ==
    IF ~s.labelled THEN {} ELSE {pc \in pcs : pc.name = s.name /\ s.sid \in pc.sids}

\* (A class without the one identifier matches a peer class without it.)
findReplicationClassUsingPeerClass(pc, s, cl) ==
    LET Matches(v, grid) == v.sid = s.sid /\ v.prov = s.prov /\ (v.rid = pc.rid \/ grid = pc.grid)
    IN  IF pc.grouping THEN \E v \in cl.vgr : Matches(v, v.grid) ELSE \E v \in cl.vr : Matches(v, "")

findVolSnapClass(s, cl) == \E v \in cl.vs : v.sid = s.sid /\ v.prov = s.prov

separatePVCsUsingOnlySC(s, cl, o) ==
    IF ~o.useVolSync /\ \E v \in cl.vr : v.prov = s.prov THEN How("volrep", FALSE) ELSE How("volsync", FALSE)

separatePVCUsingPeerClassAndSC(pcs, s, cl, o) ==
    With(findPeerClassMatchingSC(pcs, s), LAMBDA found :
        IF found = {} THEN Unsorted
        ELSE With(CHOOSE pc \in found : TRUE, LAMBDA pc :
             CASE ~o.useVolSync /\ pc.rid # "" ->
                     IF findReplicationClassUsingPeerClass(pc, s, cl) THEN How("volrep", pc.grouping) ELSE Unsorted
               [] o.volSyncDisabled \/ ~findVolSnapClass(s, cl) -> Unsorted
               [] OTHER -> How("volsync", pc.grouping)))

\* How each of the PVCs is replicated; a failure with one is a failure of all.
Sorted(hows, names) == IF \E n \in names : hows[n] = Unsorted THEN [n \in names |-> Unsorted] ELSE hows

separateAsyncPVCs(pcs, cl, names, o) ==
    Sorted([n \in names |-> IF pcs = {} THEN separatePVCsUsingOnlySC(Named(cl, n), cl, o)
                            ELSE separatePVCUsingPeerClassAndSC(pcs, Named(cl, n), cl, o)], names)

updateAsyncPVCs(pcs, cl, names, o) ==
    CASE ~(names \subseteq Names(cl)) -> [n \in names |-> Unsorted]
      [] pcs # {} /\ OffloadFails(pcs, cl, names) -> [n \in names |-> Unsorted]
      [] pcs # {} /\ processOffloadedPVCs(pcs, cl, names) ->
            [n \in names |-> IF processGloballyOffloadedPVCs(pcs, names) THEN How("volrep", TRUE) ELSE Unsorted]
      [] OTHER -> separateAsyncPVCs(pcs, cl, names, o)

updateSyncPVCs(pcs, cl, names) ==
    IF \/ ~(names \subseteq Names(cl))
       \/ pcs # {} /\ \E n \in names : findPeerClassMatchingSC(pcs, Named(cl, n)) = {}
    THEN [n \in names |-> Unsorted] ELSE [n \in names |-> How("volrep", FALSE)]

updatePVCList(spec, cl, names, o) ==
    IF "async" \in spec.has THEN updateAsyncPVCs(spec.async, cl, names, o)
    ELSE updateSyncPVCs(spec.sync, cl, names)
=============================================================================
