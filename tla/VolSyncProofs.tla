---------------------------- MODULE VolSyncProofs ----------------------------
(***************************************************************************)
(* What is proved of the replication with VolSync, for every number of     *)
(* PVCs, every scene and every sequence of failing calls: the objects of a *)
(* volume stay well formed, and no cluster comes to send and receive one   *)
(* at once unless the deletion of its source failed in that very pass.     *)
(***************************************************************************)
EXTENDS VolSync, VolSyncVolumeProofs

-----------------------------------------------------------------------------
(* The pass of a VRG controller over its site.                              *)

SpecType ==
    [there : BOOLEAN, deleted : BOOLEAN, state : {"Primary", "Secondary"}, prep : BOOLEAN,
     run : BOOLEAN, action : {"none", "Relocate", "Failover"}, rd : SUBSET PVCs, rs : SUBSET PVCs]
SiteStatusType ==
    [prepared : BOOLEAN, final : BOOLEAN, active : BOOLEAN,
     ready : {"none", "restored", "error", "unused"}, data : BOOLEAN,
     state : {"Unknown", "Primary", "Secondary"}, rdInfo : SUBSET PVCs]
SiteType ==
    [spec : SpecType, status : SiteStatusType, secret : BOOLEAN, vol : [PVCs -> VolumeType]]

\* L tells the PVCs of which a cluster may be both source and destination.
SiteOK(s, L) == s \in SiteType /\ \A p \in PVCs : Well(s.vol[p], L[p])

\* A step of a pass leaves the specification alone.
Passes(s, t, L) == SiteOK(t, L) /\ t.spec = s.spec

\* The volumes of a site change.
LEMMA VolumesSet ==
    ASSUME NEW L, NEW s, SiteOK(s, L), NEW v, v = [p \in PVCs |-> v[p]],
           \A p \in PVCs : Well(v[p], L[p])
    PROVE  Passes(s, [s EXCEPT !.vol = v], L) /\ [s EXCEPT !.vol = v].vol = v
<1> DEFINE x == [s EXCEPT !.vol = v]
<1>1. s \in SiteType /\ v \in [PVCs -> VolumeType]
  BY DEF SiteOK, Well
<1>2. x \in SiteType /\ x.vol = v /\ x.spec = s.spec
  BY <1>1 DEF SiteType
<1> HIDE DEF x
<1>3. Passes(s, x, L)
  BY <1>2 DEF Passes, SiteOK
<1> QED
  BY <1>2, <1>3 DEF x

\* The status of a site changes.
LEMMA StatusSet ==
    ASSUME NEW L, NEW s, SiteOK(s, L), NEW a \in SiteStatusType
    PROVE  Passes(s, [s EXCEPT !.status = a], L)
<1> DEFINE x == [s EXCEPT !.status = a]
<1>1. s \in SiteType
  BY DEF SiteOK
<1>2. x \in SiteType /\ x.vol = s.vol /\ x.spec = s.spec
  BY <1>1 DEF SiteType
<1> HIDE DEF x
<1>3. Passes(s, x, L)
  BY <1>2 DEF Passes, SiteOK
<1> QED
  BY <1>3 DEF x

\* The hub changes the specification.
LEMMA SpecSet ==
    ASSUME NEW L, NEW s, SiteOK(s, L), NEW a \in SpecType
    PROVE  SiteOK([s EXCEPT !.spec = a], L)
<1> DEFINE x == [s EXCEPT !.spec = a]
<1>1. s \in SiteType
  BY DEF SiteOK
<1>2. x \in SiteType /\ x.vol = s.vol
  BY <1>1 DEF SiteType
<1> HIDE DEF x
<1>3. SiteOK(x, L)
  BY <1>2 DEF SiteOK
<1> QED
  BY <1>3 DEF x

\* Steps of a pass follow on each other.
LEMMA PassesTwice ==
    ASSUME NEW L, NEW s, NEW t, NEW u, Passes(s, t, L), Passes(t, u, L) PROVE Passes(s, u, L)
BY DEF Passes

\* The steps of several volumes.
LEMMA EachPasses ==
    ASSUME NEW L, NEW s, SiteOK(s, L), NEW r,
           \A p \in PVCs : p \in DOMAIN r => Well(r[p].w, L[p])
    PROVE  Passes(s, Each(s, r), L)
<1> DEFINE v == [p \in PVCs |-> IF p \in DOMAIN r THEN r[p].w ELSE s.vol[p]]
<1>1. s \in SiteType /\ DOMAIN s.vol = PVCs
  BY DEF SiteOK, SiteType
<1>2. Each(s, r) = [s EXCEPT !.vol = v]
  BY <1>1 DEF Each, SiteType
<1>3. \A p \in PVCs : Well(v[p], L[p])
  BY DEF SiteOK
<1>4. v = [p \in PVCs |-> v[p]]
  OBVIOUS
<1> HIDE DEF v
<1> QED
  BY <1>2, <1>3, <1>4, VolumesSet

\* The volumes of deselected PVCs are given back.
LEMMA DeselectedPasses ==
    ASSUME NEW L, NEW s, SiteOK(s, L), NEW F
    PROVE  /\ Passes(s, Deselected(s, F), L)
           /\ DOMAIN pvcsDeselectedUnprotect(s, F) \subseteq PVCs
           /\ \A p \in DOMAIN pvcsDeselectedUnprotect(s, F) :
                 Well(pvcsDeselectedUnprotect(s, F)[p].w, L[p])
<1> DEFINE r == pvcsDeselectedUnprotect(s, F)
<1>1. DOMAIN r \subseteq PVCs
  BY DEF pvcsDeselectedUnprotect
<1>2. ASSUME NEW p \in DOMAIN r PROVE Well(r[p].w, L[p])
  <2>1. p \in PVCs /\ r[p] = pvcUnprotectVolSync(s.vol[p], F[p])
    BY DEF pvcsDeselectedUnprotect
  <2>2. Well(s.vol[p], L[p])
    BY <2>1 DEF SiteOK
  <2>3. Tends(s.vol[p], pvcUnprotectVolSync(s.vol[p], F[p]), L[p])
    BY <2>2, UnprotectTends
  <2> QED
    BY <2>1, <2>3 DEF Tends, Keeps
<1> HIDE DEF r
<1>3. Passes(s, Each(s, r), L)
  BY <1>2, EachPasses
<1> QED
  BY <1>1, <1>2, <1>3 DEF Deselected, r

\* Destinations that are in the specification no more are removed.
LEMMA CleanedPasses ==
    ASSUME NEW L, NEW s, SiteOK(s, L), NEW F
    PROVE  Passes(s, Cleaned(s, F), L)
<1> DEFINE v == [p \in PVCs |->
                   CleanupRDNotInSpecList(Given(s, p), s.vol[p], F[p], p \in s.spec.rd)]
<1>1. s \in SiteType /\ DOMAIN s.vol = PVCs
  BY DEF SiteOK, SiteType
<1>2. Cleaned(s, F) = [s EXCEPT !.vol = v]
  BY <1>1 DEF Cleaned, SiteType
<1>3. ASSUME NEW p \in PVCs PROVE Well(v[p], L[p])
  <2>1. Well(s.vol[p], L[p])
    BY DEF SiteOK
  <2>2. Keeps(s.vol[p],
              CleanupRDNotInSpecList(Given(s, p), s.vol[p], F[p], p \in s.spec.rd), L[p])
    BY <2>1, CleanupRDKeeps
  <2> QED
    BY <2>2 DEF Keeps
<1>4. v = [p \in PVCs |-> v[p]]
  OBVIOUS
<1> HIDE DEF v
<1> QED
  BY <1>2, <1>3, <1>4, VolumesSet

\* The PVCs of a Primary are protected, then replicated.
LEMMA SourcesPass ==
    ASSUME NEW L, NEW s, SiteOK(s, L), NEW F
    PROVE  /\ Passes(s, reconcileVolSyncAsPrimary(s, F).s, L)
           /\ reconcileVolSyncAsPrimary(s, F).prepared \in BOOLEAN
<1> DEFINE a == [p \in volSyncPVCs(s) |-> Protect(Given(s, p), s.vol[p], F[p])]
           b == [p \in DOMAIN a |-> Then(a[p], LAMBDA v : ReconcileRS(Given(s, p), v, F[p]))]
           q == [s |-> Each(s, b),
                 prepared |-> \A p \in DOMAIN a : a[p].res = "go",
                 done |-> \A p \in DOMAIN b : b[p].res = "stop" \/ (b[p].res = "go" /\ ~s.spec.run)]
<1>1. reconcileVolSyncAsPrimary(s, F) = q
  <2> DEFINE Ends(y) ==
               [s |-> Each(s, y),
                prepared |-> \A p \in DOMAIN a : a[p].res = "go",
                done |-> \A p \in DOMAIN y : y[p].res = "stop" \/ (y[p].res = "go" /\ ~s.spec.run)]
             Sent(x) ==
               With([p \in DOMAIN x |-> Then(x[p], LAMBDA v : ReconcileRS(Given(s, p), v, F[p]))],
                    LAMBDA y :
                      [s |-> Each(s, y),
                       prepared |-> \A p \in DOMAIN x : x[p].res = "go",
                       done |-> \A p \in DOMAIN y :
                                   y[p].res = "stop" \/ (y[p].res = "go" /\ ~s.spec.run)])
  <2>1. reconcileVolSyncAsPrimary(s, F) = With(a, Sent)
    BY DEF reconcileVolSyncAsPrimary
  <2>2. q = Ends(b)
    OBVIOUS
  <2> HIDE DEF a
  <2>3. Sent(a) = With(b, Ends)
    OBVIOUS
  <2> HIDE DEF b, q, Ends, Sent
  <2>4. With(a, Sent) = Sent(a)
    BY DEF With
  <2>5. With(b, Ends) = Ends(b)
    BY DEF With
  <2> QED
    BY <2>1, <2>2, <2>3, <2>4, <2>5
<1>2. ASSUME NEW p \in PVCs, p \in DOMAIN b PROVE Well(b[p].w, L[p])
  <2>1. p \in volSyncPVCs(s) /\ Well(s.vol[p], L[p])
    BY <1>2 DEF SiteOK
  <2>2. a[p] = Protect(Given(s, p), s.vol[p], F[p])
    BY <2>1
  <2>3. Tends(s.vol[p], a[p], L[p])
    BY <2>1, <2>2, ProtectTends
  <2>4. b[p] = Then(a[p], LAMBDA v : ReconcileRS(Given(s, p), v, F[p]))
    BY <1>2
  <2> HIDE DEF a, b
  <2>5. b[p] = IF a[p].res = "go" THEN ReconcileRS(Given(s, p), a[p].w, F[p]) ELSE a[p]
    BY <2>4 DEF Then, With
  <2>6. Well(a[p].w, L[p])
    BY <2>3 DEF Tends, Keeps
  <2> QED
    BY <2>5, <2>6, ReconcileRSWell
<1> HIDE DEF a, b
<1>3. Passes(s, Each(s, b), L)
  BY <1>2, EachPasses
<1>4. q.s = Each(s, b) /\ q.prepared \in BOOLEAN
  OBVIOUS
<1> HIDE DEF q
<1> QED
  BY <1>1, <1>3, <1>4

\* The part of a pass as Primary that protects and replicates.
LEMMA PrimaryPasses ==
    ASSUME NEW L, NEW s, SiteOK(s, L), NEW F PROVE Passes(s, reconcileAsPrimary(s, F), L)
<1> DEFINE c == IF volSyncPVCs(s) = {} THEN s ELSE Cleaned(s, F)
           r == reconcileVolSyncAsPrimary(c, F)
           t == r.s
           m == IF s.spec.prep THEN r.prepared ELSE t.status.prepared
           n == IF r.done THEN s.spec.run ELSE t.status.final
           a == [t.status EXCEPT !.prepared = m, !.final = n]
           q == [t EXCEPT !.status.prepared = IF s.spec.prep THEN r.prepared ELSE @,
                          !.status.final = IF r.done THEN s.spec.run ELSE @]
<1>1. reconcileAsPrimary(s, F) = q
  <2> DEFINE Ends(x) == [x.s EXCEPT
               !.status.prepared = IF s.spec.prep THEN x.prepared ELSE @,
               !.status.final = IF x.done THEN s.spec.run ELSE @]
  <2>1. reconcileAsPrimary(s, F) = With(r, Ends)
    BY DEF reconcileAsPrimary
  <2>2. q = Ends(r)
    OBVIOUS
  <2> HIDE DEF r, q, Ends
  <2>3. With(r, Ends) = Ends(r)
    BY DEF With
  <2> QED
    BY <2>1, <2>2, <2>3
<1>2. Passes(s, c, L) /\ SiteOK(c, L)
  BY CleanedPasses DEF Passes
<1> HIDE DEF c
<1>3. Passes(c, t, L) /\ r.prepared \in BOOLEAN
  BY <1>2, SourcesPass
<1> HIDE DEF r
<1>4. /\ SiteOK(t, L) /\ t \in SiteType /\ t.status \in SiteStatusType /\ s.spec.run \in BOOLEAN
      /\ t.status.prepared \in BOOLEAN /\ t.status.final \in BOOLEAN
  BY <1>3 DEF Passes, SiteOK, SiteType, SpecType, SiteStatusType
<1> HIDE DEF t
<1>5. m \in BOOLEAN /\ n \in BOOLEAN
  BY <1>3, <1>4
<1>6. q = [t EXCEPT !.status = a]
  BY <1>4 DEF SiteType, SiteStatusType
<1> HIDE DEF m, n, q
<1>7. a \in SiteStatusType
  BY <1>4, <1>5 DEF SiteStatusType
<1> HIDE DEF a
<1> QED
  BY <1>1, <1>2, <1>3, <1>4, <1>6, <1>7, StatusSet, PassesTwice

\* Writing one of the VRG's own conditions.
LEMMA ReadySet ==
    ASSUME NEW L, NEW s, SiteOK(s, L), NEW x \in {"none", "restored", "error", "unused"}
    PROVE  Passes(s, [s EXCEPT !.status.ready = x], L)
<1> DEFINE a == [s.status EXCEPT !.ready = x]
<1>1. s \in SiteType /\ s.status \in SiteStatusType
  BY DEF SiteOK, SiteType
<1>2. [s EXCEPT !.status.ready = x] = [s EXCEPT !.status = a]
  BY <1>1 DEF SiteType, SiteStatusType
<1>3. a \in SiteStatusType
  BY <1>1 DEF SiteStatusType
<1> HIDE DEF a
<1> QED
  BY <1>2, <1>3, StatusSet

\* The volumes of the destinations are restored.
LEMMA RestorePasses ==
    ASSUME NEW L, NEW s, SiteOK(s, L), NEW F
    PROVE  Passes(s, restorePVsAndPVCsForVolSync(s, F).s, L)
<1> DEFINE r == [p \in s.spec.rd |-> restorePVForVolSync(Given(s, p), s.vol[p], F[p])]
           q == [s |-> Each(s, r), all |-> \A p \in s.spec.rd : r[p].res = "go",
                 some |-> s.spec.rd # {}]
<1>1. restorePVsAndPVCsForVolSync(s, F) = q
  BY DEF restorePVsAndPVCsForVolSync, With
<1>2. ASSUME NEW p \in PVCs, p \in DOMAIN r PROVE Well(r[p].w, L[p])
  <2>1. r[p] = restorePVForVolSync(Given(s, p), s.vol[p], F[p]) /\ Well(s.vol[p], L[p])
    BY <1>2 DEF SiteOK
  <2>2. Tends(s.vol[p], restorePVForVolSync(Given(s, p), s.vol[p], F[p]), L[p])
    BY <2>1, RestoreTends
  <2> QED
    BY <2>1, <2>2 DEF Tends, Keeps
<1> HIDE DEF r
<1>3. Passes(s, Each(s, r), L)
  BY <1>2, EachPasses
<1>4. q.s = Each(s, r)
  OBVIOUS
<1> HIDE DEF q
<1> QED
  BY <1>1, <1>3, <1>4

\* A pass over a Primary.
LEMMA ProcessPrimary ==
    ASSUME NEW L, NEW s, SiteOK(s, L), NEW F PROVE Passes(s, processAsPrimary(s, F), L)
<1> DEFINE a == [s EXCEPT !.status.ready = "restored"]
           b == reconcileAsPrimary(Deselected(a, F), F)
           r == restorePVsAndPVCsForVolSync(s, F)
           e == [r.s EXCEPT !.status.ready = "error"]
           t == [r.s EXCEPT !.status.ready = "restored"]
           u == reconcileAsPrimary(Deselected(t, F), F)
<1>1. processAsPrimary(s, F) = IF ~shouldRestoreClusterData(s) THEN b
                               ELSE IF ~r.all THEN e ELSE IF r.some THEN t ELSE u
  BY DEF processAsPrimary, With
<1>2. \A x : SiteOK(x, L) => Passes(x, reconcileAsPrimary(Deselected(x, F), F), L)
  BY DeselectedPasses, PrimaryPasses, PassesTwice DEF Passes
<1>3. Passes(s, a, L)
  BY ReadySet
<1> HIDE DEF a
<1>4. Passes(s, b, L)
  BY <1>2, <1>3, PassesTwice DEF Passes
<1> HIDE DEF b
<1>5. Passes(s, r.s, L) /\ SiteOK(r.s, L)
  BY RestorePasses DEF Passes
<1> HIDE DEF r
<1>6. Passes(s, e, L) /\ Passes(s, t, L)
  BY <1>5, ReadySet, PassesTwice
<1> HIDE DEF e, t
<1>7. Passes(s, u, L)
  BY <1>2, <1>6, PassesTwice DEF Passes
<1> HIDE DEF u
<1> QED
  BY <1>1, <1>4, <1>6, <1>7

\* The destinations of a Secondary, up to the first that fails.
LEMMA DestinationsPass ==
    ASSUME NEW L, NEW s, SiteOK(s, L), NEW F, \A p \in PVCs : F[p] = "deleteRS" => L[p]
    PROVE  Passes(s, reconcileNonCG(s, F), L)
<1> DEFINE r == [p \in s.spec.rd |-> ReconcileRD(Given(s, p), s.vol[p], F[p])]
           bad == {p \in s.spec.rd : r[p].res = "requeue"}
           seen == {p \in s.spec.rd : NotAfter(p, bad)}
           c == [p \in seen |-> r[p]]
           t == Each(s, c)
           m == IF scene.submariner THEN t.status.rdInfo
                ELSE t.status.rdInfo \cup {p \in seen : r[p].res = "go"}
           n == t.status.active \/ \E p \in bad \cap seen : scene.direct /\ s.secret
                                                            /\ IsPVCInUseByNonRDPod(r[p].w)
           a == [t.status EXCEPT !.rdInfo = m, !.active = n]
           q == [t EXCEPT !.status.rdInfo = IF scene.submariner THEN @
                                            ELSE @ \cup {p \in seen : r[p].res = "go"},
                          !.status.active = @ \/ \E p \in bad \cap seen :
                              scene.direct /\ s.secret /\ IsPVCInUseByNonRDPod(r[p].w)]
<1>1. reconcileNonCG(s, F) = q
  <2> DEFINE Bad(x) == {p \in s.spec.rd : x[p].res = "requeue"}
             Seen(x) == {p \in s.spec.rd : NotAfter(p, Bad(x))}
             Ends(x) == [Each(s, [p \in Seen(x) |-> x[p]]) EXCEPT
               !.status.rdInfo = IF scene.submariner THEN @
                                 ELSE @ \cup {p \in Seen(x) : x[p].res = "go"},
               !.status.active = @ \/ \E p \in Bad(x) \cap Seen(x) :
                   scene.direct /\ s.secret /\ IsPVCInUseByNonRDPod(x[p].w)]
  <2>1. reconcileNonCG(s, F) = With(r, Ends)
    BY DEF reconcileNonCG
  <2>2. q = Ends(r)
    OBVIOUS
  <2> HIDE DEF r, q, Ends
  <2>3. With(r, Ends) = Ends(r)
    BY DEF With
  <2> QED
    BY <2>1, <2>2, <2>3
<1>2. s.spec.rd \subseteq PVCs
  BY DEF SiteOK, SiteType, SpecType
<1>3. seen \subseteq s.spec.rd /\ DOMAIN c = seen
  OBVIOUS
<1>4. ASSUME NEW p \in PVCs, p \in DOMAIN c PROVE Well(c[p].w, L[p])
  <2>1. c[p] = ReconcileRD(Given(s, p), s.vol[p], F[p])
    BY <1>3, <1>4
  <2>2. Well(s.vol[p], L[p])
    BY DEF SiteOK
  <2> QED
    BY <2>1, <2>2, ReconcileRDWell
<1> HIDE DEF c
<1>5. Passes(s, t, L)
  BY <1>4, EachPasses
<1> HIDE DEF t
<1>6. /\ SiteOK(t, L) /\ t \in SiteType /\ t.status \in SiteStatusType
      /\ t.status.rdInfo \subseteq PVCs /\ t.status.active \in BOOLEAN
  BY <1>5 DEF Passes, SiteOK, SiteType, SiteStatusType
<1>7. m \subseteq PVCs
  BY <1>2, <1>3, <1>6
<1>8. n \in BOOLEAN
  BY <1>6
<1>9. q = [t EXCEPT !.status = a]
  BY <1>6 DEF SiteType, SiteStatusType
<1> HIDE DEF m, n, q
<1>10. a \in SiteStatusType
  BY <1>6, <1>7, <1>8 DEF SiteStatusType
<1> HIDE DEF a
<1> QED
  BY <1>1, <1>5, <1>6, <1>9, <1>10, StatusSet, PassesTwice

\* A pass over a Secondary.
LEMMA ProcessSecondary ==
    ASSUME NEW L, NEW s, SiteOK(s, L), NEW F, \A p \in PVCs : F[p] = "deleteRS" => L[p]
    PROVE  Passes(s, processAsSecondary(s, F), L)
<1> DEFINE v == [p \in PVCs |-> [s.vol[p] EXCEPT !.st = NoStatus]]
           t == [s EXCEPT !.vol = v]
           t0 == [s EXCEPT !.vol = [p \in DOMAIN s.vol |-> [@[p] EXCEPT !.st = NoStatus]]]
           a == [t EXCEPT !.status.active = TRUE]
           r == [p \in volSyncPVCs(t) |-> handleDeletingVolSyncPVCsAsSecondary(t.vol[p], F[p])]
           e == Each(t, r)
           b == [e.status EXCEPT !.prepared = FALSE, !.final = FALSE, !.active = FALSE]
           u == [e EXCEPT !.status.prepared = FALSE, !.status.final = FALSE,
                          !.status.active = FALSE]
           n == reconcileNonCG(Cleaned(u, F), F)
           q == IF \E p \in volSyncPVCs(t) : IsPVCInUseByNonRDPod(t.vol[p]) THEN a
                ELSE IF \E p \in DOMAIN r : r[p].res = "requeue" THEN u ELSE n
<1>1. s \in SiteType /\ DOMAIN s.vol = PVCs
  BY DEF SiteOK, SiteType
<1>2. t0 = t
  BY <1>1 DEF SiteType
<1>3. reconcileVolSyncAsSecondary(s, F) = q
  <2> DEFINE Looked(y) == IF \E p \in DOMAIN r : r[p].res = "requeue" THEN y
                        ELSE reconcileNonCG(Cleaned(y, F), F)
             Held(x) ==
               With([Each(t, x) EXCEPT !.status.prepared = FALSE, !.status.final = FALSE,
                                       !.status.active = FALSE], LAMBDA y :
                 IF \E p \in DOMAIN x : x[p].res = "requeue" THEN y
                 ELSE reconcileNonCG(Cleaned(y, F), F))
             Ends(z) ==
               IF \E p \in volSyncPVCs(z) : IsPVCInUseByNonRDPod(z.vol[p])
               THEN [z EXCEPT !.status.active = TRUE]
               ELSE With([p \in volSyncPVCs(z) |->
                            handleDeletingVolSyncPVCsAsSecondary(z.vol[p], F[p])], LAMBDA x :
                      With([Each(z, x) EXCEPT !.status.prepared = FALSE, !.status.final = FALSE,
                                              !.status.active = FALSE], LAMBDA y :
                        IF \E p \in DOMAIN x : x[p].res = "requeue" THEN y
                        ELSE reconcileNonCG(Cleaned(y, F), F)))
  <2>1. reconcileVolSyncAsSecondary(s, F) = With(t0, Ends)
    BY DEF reconcileVolSyncAsSecondary
  <2> HIDE DEF t0, t
  <2>2. Ends(t) = IF \E p \in volSyncPVCs(t) : IsPVCInUseByNonRDPod(t.vol[p]) THEN a
                  ELSE With(r, Held)
    OBVIOUS
  <2> HIDE DEF Ends, r
  <2>3. With(t0, Ends) = Ends(t)
    BY <1>2 DEF With
  <2>4. Held(r) = With(u, Looked)
    OBVIOUS
  <2>5. Looked(u) = IF \E p \in DOMAIN r : r[p].res = "requeue" THEN u ELSE n
    OBVIOUS
  <2> HIDE DEF Held, Looked, u
  <2>6. With(r, Held) = Held(r) /\ With(u, Looked) = Looked(u)
    BY DEF With
  <2> QED
    BY <2>1, <2>2, <2>3, <2>4, <2>5, <2>6
<1>4. \A p \in PVCs : Well(v[p], L[p])
  BY OtherSet, NothingTypes DEF SiteOK, Keeps
<1>5. v = [p \in PVCs |-> v[p]]
  OBVIOUS
<1> HIDE DEF v
<1>6. Passes(s, t, L) /\ SiteOK(t, L) /\ t \in SiteType /\ t.status \in SiteStatusType
  BY <1>4, <1>5, VolumesSet DEF Passes, SiteOK, SiteType
<1> HIDE DEF t, t0
<1>7. [t.status EXCEPT !.active = TRUE] \in SiteStatusType
  BY <1>6 DEF SiteStatusType
<1>8. a = [t EXCEPT !.status = [t.status EXCEPT !.active = TRUE]]
  BY <1>6 DEF SiteType, SiteStatusType
<1>9. Passes(t, a, L)
  BY <1>6, <1>7, <1>8, StatusSet
<1> HIDE DEF a
<1>10. ASSUME NEW p \in PVCs, p \in DOMAIN r PROVE Well(r[p].w, L[p])
  <2>1. r[p] = handleDeletingVolSyncPVCsAsSecondary(t.vol[p], F[p]) /\ Well(t.vol[p], L[p])
    BY <1>6, <1>10 DEF SiteOK
  <2> QED
    BY <2>1, DeletingTends DEF Tends, Keeps
<1> HIDE DEF r
<1>11. Passes(t, e, L) /\ SiteOK(e, L) /\ e \in SiteType /\ e.status \in SiteStatusType
  BY <1>6, <1>10, EachPasses DEF Passes, SiteOK, SiteType
<1> HIDE DEF e
<1>12. b \in SiteStatusType
  BY <1>11 DEF SiteStatusType
<1>13. u = [e EXCEPT !.status = b]
  BY <1>11 DEF SiteType, SiteStatusType
<1> HIDE DEF b
<1>14. Passes(t, u, L) /\ SiteOK(u, L)
  BY <1>11, <1>12, <1>13, StatusSet, PassesTwice DEF Passes
<1> HIDE DEF u
<1>15. Passes(u, n, L)
  BY <1>14, CleanedPasses, DestinationsPass, PassesTwice DEF Passes
<1> HIDE DEF n
<1>16. Passes(t, q, L)
  BY <1>9, <1>14, <1>15, PassesTwice
<1> HIDE DEF q
<1>17. Passes(s, q, L) /\ SiteOK(q, L)
  BY <1>6, <1>16, PassesTwice DEF Passes
<1> QED
  BY <1>3, <1>17, ReadySet, PassesTwice DEF processAsSecondary

\* A pass over a VRG that is being deleted.
LEMMA ProcessDeletion ==
    ASSUME NEW L, NEW s, SiteOK(s, L), NEW F PROVE SiteOK(processForDeletion(s, F), L)
<1> DEFINE d == pvcsDeselectedUnprotect(s, F)
           A(p) == IF p \in volSyncPVCs(s) THEN UndoPVRetentionForPVC(s.vol[p], F[p])
                   ELSE Go(s.vol[p])
           C(p, v) == cleanupResources(Given(s, p), v, F[p], p \in volSyncPVCs(s), p \in s.spec.rd)
           r == [p \in PVCs |-> IF p \in DOMAIN d THEN d[p] ELSE Then(A(p), LAMBDA v : C(p, v))]
           t == Each(s, r)
           h == \E p \in PVCs : r[p].res = "requeue"
<1>1. processForDeletion(s, F) = [t EXCEPT !.spec.there = h]
  BY DEF processForDeletion, With
<1>2. ASSUME NEW p \in PVCs, p \in DOMAIN r PROVE Well(r[p].w, L[p])
  <2>1. Well(s.vol[p], L[p])
    BY DEF SiteOK
  <2>2. Tends(s.vol[p], A(p), L[p])
    BY <2>1, RetentionTends, EndsAtOnce
  <2>3. \A v : Well(v, L[p]) => Tends(v, C(p, v), L[p])
    BY CleanupResourcesTends
  <2>4. r[p] = IF p \in DOMAIN d THEN d[p] ELSE Then(A(p), LAMBDA v : C(p, v))
    OBVIOUS
  <2> HIDE DEF r, A, C
  <2>5. r[p] = IF p \in DOMAIN d THEN d[p]
               ELSE IF A(p).res = "go" THEN C(p, A(p).w) ELSE A(p)
    BY <2>4 DEF Then, With
  <2>6. Well(A(p).w, L[p])
    BY <2>2 DEF Tends, Keeps
  <2>7. Well(C(p, A(p).w).w, L[p])
    BY <2>3, <2>6 DEF Tends, Keeps
  <2>8. p \in DOMAIN d => Well(d[p].w, L[p])
    BY DeselectedPasses
  <2> QED
    BY <2>5, <2>6, <2>7, <2>8
<1> HIDE DEF r
<1>3. SiteOK(t, L)
  BY <1>2, EachPasses DEF Passes
<1>4. h \in BOOLEAN
  OBVIOUS
<1> HIDE DEF t, h
<1>5. t \in SiteType /\ t.spec \in SpecType
  BY <1>3 DEF SiteOK, SiteType
<1>6. [t EXCEPT !.spec.there = h] = [t EXCEPT !.spec = [t.spec EXCEPT !.there = h]]
  BY <1>5 DEF SiteType, SpecType
<1>7. [t.spec EXCEPT !.there = h] \in SpecType
  BY <1>4, <1>5 DEF SpecType
<1> QED
  BY <1>1, <1>3, <1>6, <1>7, SpecSet

\* The status is written, or what the pass learnt is lost.
LEMMA SavedOK ==
    ASSUME NEW L, NEW old, SiteOK(old, L), NEW s, SiteOK(s, L), NEW f
    PROVE  SiteOK(Saved(old, s, f), L)
<1> DEFINE v == [p \in PVCs |-> [s.vol[p] EXCEPT !.st = old.vol[p].st]]
           d == aggregateVolSyncDataReadyCondition(s)
           e == IF d THEN s.spec.state ELSE "Unknown"
           a == [s.status EXCEPT !.data = d, !.state = e]
           x == [s EXCEPT !.status = old.status]
           y == [x EXCEPT !.vol = v]
<1>1. /\ s \in SiteType /\ DOMAIN s.vol = PVCs /\ s.status \in SiteStatusType
      /\ s.spec.state \in {"Primary", "Secondary"} /\ old.status \in SiteStatusType
  BY DEF SiteOK, SiteType, SpecType
<1>2. Saved(old, s, f) =
        IF f = "saveStatus"
        THEN [s EXCEPT !.status = old.status,
                       !.vol = [p \in DOMAIN s.vol |-> [@[p] EXCEPT !.st = old.vol[p].st]]]
        ELSE [s EXCEPT !.status.data = d, !.status.state = e]
  BY DEF Saved, With
<1>3. [s EXCEPT !.status = old.status,
                !.vol = [p \in DOMAIN s.vol |-> [@[p] EXCEPT !.st = old.vol[p].st]]] = y
  BY <1>1 DEF SiteType
<1>4. ASSUME NEW p \in PVCs PROVE Well(v[p], L[p])
  <2>1. old.vol[p].st \in StatusType /\ Well(s.vol[p], L[p])
    BY DEF SiteOK, Well, VolumeType
  <2>2. Keeps(s.vol[p], [s.vol[p] EXCEPT !.st = old.vol[p].st], L[p])
    BY <2>1, OtherSet
  <2> QED
    BY <2>2 DEF Keeps
<1>5. v = [p \in PVCs |-> v[p]]
  OBVIOUS
<1> HIDE DEF v
<1>6. SiteOK(x, L)
  BY <1>1, StatusSet DEF Passes
<1> HIDE DEF x
<1>7. SiteOK(y, L)
  BY <1>4, <1>5, <1>6, VolumesSet DEF Passes
<1> HIDE DEF y
<1>8. d \in BOOLEAN
  BY DEF aggregateVolSyncDataReadyCondition
<1> HIDE DEF d
<1>9. e \in {"Unknown", "Primary", "Secondary"}
  BY <1>1
<1> HIDE DEF e
<1>10. [s EXCEPT !.status.data = d, !.status.state = e] = [s EXCEPT !.status = a]
  BY <1>1 DEF SiteType, SiteStatusType
<1>11. a \in SiteStatusType
  BY <1>1, <1>8, <1>9 DEF SiteStatusType
<1> HIDE DEF a
<1>12. SiteOK([s EXCEPT !.status = a], L)
  BY <1>11, StatusSet DEF Passes
<1> QED
  BY <1>2, <1>3, <1>7, <1>10, <1>12

\* Any pass, whatever call fails.
LEMMA PassOK ==
    ASSUME NEW L, NEW s, SiteOK(s, L), NEW f, NEW q, f = "deleteRS" => L[q]
    PROVE  SiteOK(processVRG(s, f, q), L)
<1> DEFINE F == [p \in PVCs |-> IF p = q THEN f ELSE "none"]
           x == IF s.spec.state = "Primary" THEN processAsPrimary(s, F)
                ELSE processAsSecondary(s, F)
<1>1. processVRG(s, f, q) = IF s.spec.deleted THEN processForDeletion(s, F) ELSE Saved(s, x, f)
  BY DEF processVRG, With
<1>2. \A p \in PVCs : F[p] = "deleteRS" => L[p]
  OBVIOUS
<1> HIDE DEF F
<1>3. SiteOK(x, L)
  BY <1>2, ProcessPrimary, ProcessSecondary DEF Passes
<1> HIDE DEF x
<1> QED
  BY <1>1, <1>3, SavedOK, ProcessDeletion

-----------------------------------------------------------------------------
(* The two sites.                                                           *)

\* Each cluster has the other for a peer.
LEMMA Peers ==
    ASSUME NEW c \in ClusterSet PROVE Peer(c) \in ClusterSet /\ Peer(c) # c
<1>1. \E d \in ClusterSet : d # c
  BY VolSyncAssumption DEF ClusterSet, Range, IsInjective
<1> QED
  BY <1>1 DEF Peer

SitesOK(S, L) == S = [c \in ClusterSet |-> S[c]] /\ \A c \in ClusterSet : SiteOK(S[c], L[c])

\* Every loop is tolerated.
AnyLoop == [c \in ClusterSet |-> [p \in PVCs |-> TRUE]]

\* The inductive invariant.
VolSyncInv ==
    /\ scene \in Scenes
    /\ SitesOK(site, AnyLoop)
    /\ home \in ClusterSet
    /\ syncs \in Nat /\ writes \in Nat

\* The scene is never changed, so the types of the next state are those of this one.
LEMMA NextSites ==
    ASSUME VolSyncInv, scene' = scene, SitesOK(site', AnyLoop), home' \in ClusterSet,
           syncs' \in Nat, writes' \in Nat
    PROVE  VolSyncInv'
<1>1. PVCs' = PVCs /\ AnyLoop' = AnyLoop
  BY DEF PVCs, AnyLoop
<1> QED
  BY <1>1 DEF VolSyncInv, SitesOK, SiteOK, SiteType, SpecType, SiteStatusType

\* One site changes.
LEMMA OneSite ==
    ASSUME NEW L, NEW S, SitesOK(S, L), NEW c \in ClusterSet, NEW x, SiteOK(x, L[c])
    PROVE  SitesOK([S EXCEPT ![c] = x], L)
BY DEF SitesOK

\* One volume changes.
LEMMA OneVolume ==
    ASSUME NEW L, NEW S, SitesOK(S, L), NEW c \in ClusterSet, NEW p \in PVCs,
           NEW w, Well(w, L[c][p])
    PROVE  /\ SitesOK([S EXCEPT ![c].vol[p] = w], L)
           /\ [S EXCEPT ![c].vol[p] = w] = [S EXCEPT ![c] = [S[c] EXCEPT !.vol[p] = w]]
           /\ S[c].vol[p] \in VolumeType
<1> DEFINE v == [S[c].vol EXCEPT ![p] = w]
<1>1. S = [e \in ClusterSet |-> S[e]] /\ SiteOK(S[c], L[c])
  BY DEF SitesOK
<1>2. S[c] \in SiteType /\ S[c].vol \in [PVCs -> VolumeType]
  BY <1>1 DEF SiteOK, SiteType
<1>3. [S EXCEPT ![c].vol[p] = w] = [S EXCEPT ![c] = [S[c] EXCEPT !.vol = v]]
  BY <1>1, <1>2 DEF SiteType
<1>4. [S EXCEPT ![c].vol[p] = w] = [S EXCEPT ![c] = [S[c] EXCEPT !.vol[p] = w]]
  BY <1>1, <1>2 DEF SiteType
<1>5. v = [q \in PVCs |-> v[q]] /\ \A q \in PVCs : Well(v[q], L[c][q])
  BY <1>1, <1>2 DEF SiteOK
<1> HIDE DEF v
<1>6. SiteOK([S[c] EXCEPT !.vol = v], L[c])
  BY <1>1, <1>5, VolumesSet DEF Passes
<1> QED
  BY <1>2, <1>3, <1>4, <1>6, OneSite

\* The specification of one VRG changes.
LEMMA OneSpec ==
    ASSUME NEW L, NEW S, SitesOK(S, L), NEW c \in ClusterSet, NEW a \in SpecType
    PROVE  SitesOK([S EXCEPT ![c].spec = a], L)
<1>1. S = [e \in ClusterSet |-> S[e]] /\ SiteOK(S[c], L[c])
  BY DEF SitesOK
<1>2. [S EXCEPT ![c].spec = a] = [S EXCEPT ![c] = [S[c] EXCEPT !.spec = a]]
  BY <1>1
<1> QED
  BY <1>1, <1>2, SpecSet, OneSite

-----------------------------------------------------------------------------
(* The hub.                                                                 *)

\* What the hub writes into the specification of one VRG.
LEMMA SpecWrites ==
    ASSUME NEW L, NEW S, SitesOK(S, L), NEW c \in ClusterSet
    PROVE  /\ SitesOK([S EXCEPT ![c].spec.prep = TRUE], L)
           /\ SitesOK([S EXCEPT ![c].spec.prep = FALSE, ![c].spec.run = TRUE], L)
           /\ SitesOK([S EXCEPT ![c].spec.state = "Secondary", ![c].spec.prep = FALSE,
                                ![c].spec.run = FALSE], L)
           /\ \A a \in {"Relocate", "Failover"} :
                 SitesOK([S EXCEPT ![c].spec.state = "Primary", ![c].spec.action = a], L)
           /\ SitesOK([S EXCEPT ![c].spec.rd = {}], L)
           /\ SitesOK([S EXCEPT ![c].spec.deleted = TRUE], L)
<1> DEFINE g == S[c].spec
<1>1. S = [e \in ClusterSet |-> S[e]] /\ S[c] \in SiteType /\ g \in SpecType
  BY DEF SitesOK, SiteOK, SiteType
<1>2. SitesOK([S EXCEPT ![c].spec.prep = TRUE], L)
  <2>1. [S EXCEPT ![c].spec.prep = TRUE] = [S EXCEPT ![c].spec = [g EXCEPT !.prep = TRUE]]
    BY <1>1 DEF SiteType, SpecType
  <2>2. [g EXCEPT !.prep = TRUE] \in SpecType
    BY <1>1 DEF SpecType
  <2> QED
    BY <2>1, <2>2, OneSpec
<1>3. SitesOK([S EXCEPT ![c].spec.prep = FALSE, ![c].spec.run = TRUE], L)
  <2>1. [S EXCEPT ![c].spec.prep = FALSE, ![c].spec.run = TRUE]
          = [S EXCEPT ![c].spec = [g EXCEPT !.prep = FALSE, !.run = TRUE]]
    BY <1>1 DEF SiteType, SpecType
  <2>2. [g EXCEPT !.prep = FALSE, !.run = TRUE] \in SpecType
    BY <1>1 DEF SpecType
  <2> QED
    BY <2>1, <2>2, OneSpec
<1>4. SitesOK([S EXCEPT ![c].spec.state = "Secondary", ![c].spec.prep = FALSE,
                        ![c].spec.run = FALSE], L)
  <2>1. [S EXCEPT ![c].spec.state = "Secondary", ![c].spec.prep = FALSE, ![c].spec.run = FALSE]
          = [S EXCEPT ![c].spec = [g EXCEPT !.state = "Secondary", !.prep = FALSE, !.run = FALSE]]
    BY <1>1 DEF SiteType, SpecType
  <2>2. [g EXCEPT !.state = "Secondary", !.prep = FALSE, !.run = FALSE] \in SpecType
    BY <1>1 DEF SpecType
  <2> QED
    BY <2>1, <2>2, OneSpec
<1>5. ASSUME NEW a \in {"Relocate", "Failover"}
      PROVE  SitesOK([S EXCEPT ![c].spec.state = "Primary", ![c].spec.action = a], L)
  <2>1. [S EXCEPT ![c].spec.state = "Primary", ![c].spec.action = a]
          = [S EXCEPT ![c].spec = [g EXCEPT !.state = "Primary", !.action = a]]
    BY <1>1 DEF SiteType, SpecType
  <2>2. [g EXCEPT !.state = "Primary", !.action = a] \in SpecType
    BY <1>1 DEF SpecType
  <2> QED
    BY <2>1, <2>2, OneSpec
<1>6. SitesOK([S EXCEPT ![c].spec.rd = {}], L)
  <2>1. [S EXCEPT ![c].spec.rd = {}] = [S EXCEPT ![c].spec = [g EXCEPT !.rd = {}]]
    BY <1>1 DEF SiteType, SpecType
  <2>2. [g EXCEPT !.rd = {}] \in SpecType
    BY <1>1 DEF SpecType
  <2> QED
    BY <2>1, <2>2, OneSpec
<1>7. SitesOK([S EXCEPT ![c].spec.deleted = TRUE], L)
  <2>1. [S EXCEPT ![c].spec.deleted = TRUE] = [S EXCEPT ![c].spec = [g EXCEPT !.deleted = TRUE]]
    BY <1>1 DEF SiteType, SpecType
  <2>2. [g EXCEPT !.deleted = TRUE] \in SpecType
    BY <1>1 DEF SpecType
  <2> QED
    BY <2>1, <2>2, OneSpec
<1> QED
  BY <1>2, <1>3, <1>4, <1>5, <1>6, <1>7

\* Handing destinations, the secret and sources across.
LEMMA HandedAcross ==
    ASSUME VolSyncInv, NEW L, NEW S, SitesOK(S, L)
    PROVE  /\ SitesOK([S EXCEPT ![Peer(home)].spec = refreshVRGSecondarySpec(S)], L)
           /\ SitesOK(EnsureVolSyncReplicationSetup(S), L)
           /\ SitesOK(ensureVolSyncReplicationSource(S), L)
<1> DEFINE d == Peer(home)
<1>1. home \in ClusterSet /\ d \in ClusterSet
  BY Peers DEF VolSyncInv
<1>2. \A c \in ClusterSet : SiteOK(S[c], L[c]) /\ S[c] \in SiteType /\ S[c].spec \in SpecType
  BY DEF SitesOK, SiteOK, SiteType
<1>3. refreshVRGSecondarySpec(S) \in SpecType
  <2> DEFINE listed == {p \in PVCs : S[home].vol[p].st.listed}
             g == S[d].spec
             n == IF listed = {} THEN g.rd ELSE listed
  <2>1. g \in SpecType /\ g.rd \subseteq PVCs
    BY <1>1, <1>2 DEF SpecType
  <2>2. refreshVRGSecondarySpec(S) = [g EXCEPT !.there = TRUE, !.rd = n]
    BY <2>1 DEF refreshVRGSecondarySpec, SpecType
  <2>3. n \subseteq PVCs
    BY <2>1
  <2> HIDE DEF g, n
  <2> QED
    BY <2>1, <2>2, <2>3 DEF SpecType
<1>4. SitesOK(EnsureVolSyncReplicationSetup(S), L)
  <2> DEFINE T == [c \in ClusterSet |-> [S[c] EXCEPT !.secret = TRUE]]
  <2>1. \A c \in ClusterSet : SiteOK([S[c] EXCEPT !.secret = TRUE], L[c])
    BY <1>2 DEF SiteOK, SiteType
  <2>2. SitesOK(T, L)
    BY <2>1 DEF SitesOK
  <2> QED
    BY <2>2 DEF EnsureVolSyncReplicationSetup
<1>5. SitesOK(ensureVolSyncReplicationSource(S), L)
  <2> DEFINE g == S[home].spec
             n == g.rs \cup S[d].status.rdInfo
             T == [S EXCEPT ![home].spec.rs = @ \cup S[Peer(home)].status.rdInfo]
  <2>1. g \in SpecType /\ g.rs \subseteq PVCs /\ S[d].status.rdInfo \subseteq PVCs
    BY <1>1, <1>2 DEF SpecType, SiteType, SiteStatusType
  <2>2. S = [c \in ClusterSet |-> S[c]]
    BY DEF SitesOK
  <2>3. T = [S EXCEPT ![home].spec = [g EXCEPT !.rs = n]]
    BY <1>1, <1>2, <2>2 DEF SiteType, SpecType
  <2>4. [g EXCEPT !.rs = n] \in SpecType
    BY <2>1 DEF SpecType
  <2> HIDE DEF n, g
  <2>5. SitesOK(T, L)
    BY <1>1, <2>3, <2>4, OneSpec
  <2> QED
    BY <2>5 DEF ensureVolSyncReplicationSource
<1> QED
  BY <1>1, <1>3, <1>4, <1>5, OneSpec

\* What a step keeps, when it leaves the scene alone.
Kept(L) ==
    /\ SitesOK(site', L) /\ scene' = scene /\ home' \in ClusterSet
    /\ syncs' \in Nat /\ writes' \in Nat

\* Every step of the hub.
LEMMA HubKeeps ==
    ASSUME VolSyncInv, NEW L, SitesOK(site, L),
           HubWorks \/ HubPrepares \/ HubFailsOver \/ (\E c \in ClusterSet : HubDeletes(c))
    PROVE  Kept(L)
<1> DEFINE d == Peer(home)
           R == [site EXCEPT ![home].spec.prep = FALSE, ![home].spec.run = TRUE]
<1>1. /\ home \in ClusterSet /\ d \in ClusterSet
      /\ syncs \in Nat /\ writes \in Nat
  BY Peers DEF VolSyncInv
<1>2. ASSUME NEW S, NEW h \in ClusterSet, NEW pl, SitesOK(S, L), Hub(S, h, pl) PROVE Kept(L)
  BY <1>1, <1>2 DEF Hub, Kept
<1>2a. SitesOK(R, L)
  BY <1>1, SpecWrites
<1>2b. ASSUME NEW c \in ClusterSet PROVE SitesOK(Demoted(c), L)
  BY <1>1, SpecWrites DEF Demoted
<1>2c. ASSUME NEW c \in ClusterSet, NEW a \in {"Relocate", "Failover"}
       PROVE  SitesOK(Promoted(c, a), L)
  BY <1>1, SpecWrites DEF Promoted
<1>3. CASE HubPrepares
  BY <1>1, <1>2, <1>3, SpecWrites DEF HubPrepares
<1>4. CASE HubFailsOver
  BY <1>1, <1>2, <1>4, <1>2c DEF HubFailsOver
<1>5. ASSUME NEW c \in ClusterSet, HubDeletes(c) PROVE Kept(L)
  BY <1>1, <1>2, <1>5, SpecWrites DEF HubDeletes
<1>6. CASE HubClears
  BY <1>1, <1>2, <1>6 DEF HubClears
<1>7. CASE HubRunsFinalSync
  <2>1. Hub(R, home, placed)
    BY <1>7 DEF HubRunsFinalSync
  <2> HIDE DEF R
  <2> QED
    BY <1>1, <1>2, <1>2a, <2>1
<1>8. CASE HubDemotes
  BY <1>1, <1>2, <1>8, <1>2b DEF HubDemotes
<1>9. CASE HubRelocates
  BY <1>1, <1>2, <1>9, <1>2c DEF HubRelocates
<1>10. CASE HubPlaces
  BY <1>1, <1>2, <1>10 DEF HubPlaces
<1>11. CASE ResetVolSyncRDOnPrimary
  BY <1>1, <1>2, <1>11, SpecWrites DEF ResetVolSyncRDOnPrimary
<1>12. CASE HubCleansUp
  BY <1>1, <1>2, <1>12, <1>2b DEF HubCleansUp
<1>13. CASE EnsureSecondaryReplicationSetup
  <2> DEFINE t == [site EXCEPT ![d].spec = refreshVRGSecondarySpec(site)]
             e == EnsureVolSyncReplicationSetup(t)
             u == IF ~site[d].spec.there THEN t ELSE ensureVolSyncReplicationSource(e)
  <2>1. Hub(u, home, placed)
    BY <1>13 DEF EnsureSecondaryReplicationSetup
  <2>2. SitesOK(t, L)
    BY <1>1, HandedAcross
  <2> HIDE DEF t
  <2>3. SitesOK(e, L)
    BY <2>2, HandedAcross
  <2> HIDE DEF e
  <2>4. SitesOK(u, L)
    BY <2>2, <2>3, HandedAcross
  <2> QED
    BY <1>1, <1>2, <2>1, <2>4
<1> QED
  BY <1>1, <1>3, <1>4, <1>5, <1>6, <1>7, <1>8, <1>9, <1>10, <1>11, <1>12, <1>13 DEF HubWorks

-----------------------------------------------------------------------------
(* The application, Kubernetes and the VolSync operator.                    *)

\* Changes to one field of one object of a volume.
LEMMA FieldsSet ==
    ASSUME NEW may, NEW w, Well(w, may)
    PROVE  /\ Well([w EXCEPT !.pvc.selected = FALSE], may)
           /\ Well([w EXCEPT !.rd.addr = TRUE], may)
           /\ w.local.rd => Well([w EXCEPT !.local.addr = TRUE], may)
           /\ Well([w EXCEPT !.local.last = w.local.trigger, !.data = w.rd.image.ver], may)
<1>1. w \in VolumeType /\ w.pvc \in PVCType /\ w.rd \in RDType /\ w.local \in LocalType
  BY DEF Well, VolumeType
<1>2. Well([w EXCEPT !.pvc.selected = FALSE], may)
  <2> DEFINE a == [w.pvc EXCEPT !.selected = FALSE]
  <2>1. [w EXCEPT !.pvc.selected = FALSE] = [w EXCEPT !.pvc = a]
    BY <1>1 DEF VolumeType, PVCType
  <2>2. a \in PVCType /\ a.there = w.pvc.there /\ a.app = w.pvc.app
    BY <1>1 DEF PVCType
  <2> HIDE DEF a
  <2>3. a.app => a.there
    BY <2>2 DEF Well
  <2> QED
    BY <2>1, <2>2, <2>3, PVCSet DEF Keeps
<1>3. Well([w EXCEPT !.rd.addr = TRUE], may)
  <2> DEFINE a == [w.rd EXCEPT !.addr = TRUE]
  <2>1. [w EXCEPT !.rd.addr = TRUE] = [w EXCEPT !.rd = a]
    BY <1>1 DEF VolumeType, RDType
  <2>2. a \in RDType /\ a.there = w.rd.there
    BY <1>1 DEF RDType
  <2> HIDE DEF a
  <2> QED
    BY <2>1, <2>2, RDSet DEF Keeps
<1>4. ASSUME w.local.rd PROVE Well([w EXCEPT !.local.addr = TRUE], may)
  <2> DEFINE a == [w.local EXCEPT !.addr = TRUE]
  <2>1. [w EXCEPT !.local.addr = TRUE] = [w EXCEPT !.local = a]
    BY <1>1 DEF VolumeType, LocalType
  <2>2. a \in LocalType /\ a.rd
    BY <1>1, <1>4 DEF LocalType
  <2> HIDE DEF a
  <2> QED
    BY <2>1, <2>2, LocalSet DEF Keeps
<1>5. Well([w EXCEPT !.local.last = w.local.trigger, !.data = w.rd.image.ver], may)
  <2> DEFINE a == [w.local EXCEPT !.last = w.local.trigger]
             x == [w EXCEPT !.local = a]
  <2>1. [w EXCEPT !.local.last = w.local.trigger, !.data = w.rd.image.ver]
          = [x EXCEPT !.data = w.rd.image.ver]
    BY <1>1 DEF VolumeType, LocalType
  <2>2. a \in LocalType /\ a.rd = w.local.rd /\ a.trigger = w.local.trigger /\ a.addr = w.local.addr
    BY <1>1 DEF LocalType
  <2>3. w.rd.image.ver \in Nat
    BY <1>1 DEF RDType
  <2> HIDE DEF a
  <2>4. (a.trigger # 0 => a.rd) /\ (a.addr => a.rd)
    BY <2>2 DEF Well
  <2>5. Well(x, may)
    BY <2>2, <2>4, LocalSet DEF Keeps
  <2> HIDE DEF x
  <2> QED
    BY <2>1, <2>3, <2>5, OtherSet DEF Keeps
<1> QED
  BY <1>2, <1>3, <1>4, <1>5

\* A PVC nobody holds any more goes, and its PV by the reclaim policy.
LEMMA RemovedWell ==
    ASSUME NEW may, NEW w, Well(w, may), ~w.mounted
    PROVE  Well([w EXCEPT !.pvc = NoPVC, !.pv = Reclaimed(@)], may)
<1> DEFINE b == Reclaimed(w.pv)
           x == [w EXCEPT !.pvc = NoPVC, !.pv = b]
<1>1. w \in VolumeType /\ w.pv \in PVType
  BY DEF Well, VolumeType
<1>2. x = [w EXCEPT !.pvc = NoPVC, !.pv = Reclaimed(@)]
  BY <1>1 DEF VolumeType
<1>3. b \in PVType
  BY <1>1, NothingTypes DEF PVType, Reclaimed
<1>4. NoPVC \in PVCType /\ ~NoPVC.there /\ ~NoPVC.app
  BY NothingTypes DEF NoPVC
<1> HIDE DEF b
<1>5. /\ x \in VolumeType /\ x.pvc = NoPVC /\ x.mounted = w.mounted
      /\ x.rs = w.rs /\ x.rd = w.rd /\ x.local = w.local
  BY <1>1, <1>3, <1>4 DEF VolumeType
<1> HIDE DEF x
<1>6. Well(x, may)
  BY <1>4, <1>5 DEF Well
<1> QED
  BY <1>2, <1>6

\* Every step on the volume of one cluster.
LEMMA AppKeeps ==
    ASSUME VolSyncInv, NEW L, SitesOK(site, L), NEW c \in ClusterSet, NEW p \in PVCs,
           \/ AppCreatesPVC(c, p) \/ PodStarts(c, p) \/ AppStops(c, p) \/ AppDeletesPVC(c, p)
           \/ PVCRemoved(c, p) \/ MountJobEnds(c, p, "done") \/ MountJobEnds(c, p, "failed")
           \/ RDGetsAddress(c, p) \/ LocalRDGetsAddress(c, p) \/ LocalSync(c, p)
           \/ AppWrites(c, p) \/ UserDeletesPVC(c, p) \/ UserDeselectsPVC(c, p)
    PROVE  Kept(L)
<1> DEFINE w == site[c].vol[p]
<1>1. home \in ClusterSet /\ syncs \in Nat /\ writes \in Nat
  BY DEF VolSyncInv
<1>2. Well(w, L[c][p])
  BY <1>1 DEF SitesOK, SiteOK
<1>3. ASSUME NEW x, Well(x, L[c][p]), Volume(c, p, x), writes' \in Nat PROVE Kept(L)
  <2>1. SitesOK(site', L)
    BY <1>1, <1>3, OneVolume DEF Volume
  <2>2. scene' = scene /\ home' = home /\ syncs' = syncs
    BY <1>3 DEF Volume
  <2> QED
    BY <1>1, <1>3, <2>1, <2>2 DEF Kept
<1>4. CASE AppCreatesPVC(c, p)
  <2>1. ~w.pvc.there /\ Volume(c, p, Claimed(w, TRUE, 0, 0)) /\ writes' = writes
    BY <1>4 DEF AppCreatesPVC, Quiet
  <2>2. Well(Claimed(w, TRUE, 0, 0), L[c][p])
    BY <1>2, <2>1, ClaimedKeeps DEF Keeps
  <2> QED
    BY <1>1, <1>3, <2>1, <2>2
<1>5. CASE PodStarts(c, p)
  <2>1. w.pvc.app /\ Volume(c, p, [w EXCEPT !.mounted = TRUE]) /\ writes' = writes
    BY <1>5 DEF PodStarts
  <2>2. w.pvc.there
    BY <1>2, <2>1 DEF Well
  <2>3. Well([w EXCEPT !.mounted = TRUE], L[c][p])
    BY <1>2, <2>2, OtherSet DEF Keeps
  <2> QED
    BY <1>1, <1>3, <2>1, <2>3
<1>6. CASE AppStops(c, p)
  <2>1. Volume(c, p, [w EXCEPT !.mounted = FALSE]) /\ writes' = writes
    BY <1>6 DEF AppStops, Quiet
  <2>2. Well([w EXCEPT !.mounted = FALSE], L[c][p])
    BY <1>2, OtherSet DEF Keeps
  <2> QED
    BY <1>1, <1>3, <2>1, <2>2
<1>7. CASE AppDeletesPVC(c, p)
  <2>1. Volume(c, p, DeletePVC(w)) /\ writes' = writes
    BY <1>7 DEF AppDeletesPVC, Quiet
  <2>2. Well(DeletePVC(w), L[c][p])
    BY <1>2, DeletePVCKeeps DEF Keeps
  <2> QED
    BY <1>1, <1>3, <2>1, <2>2
<1>8. CASE PVCRemoved(c, p)
  <2> DEFINE x == [w EXCEPT !.pvc = NoPVC, !.pv = Reclaimed(@)]
  <2>1. ~w.mounted /\ Volume(c, p, x) /\ writes' = writes
    BY <1>8 DEF PVCRemoved, Quiet
  <2>2. Well(x, L[c][p])
    BY <1>2, <2>1, RemovedWell
  <2> QED
    BY <1>1, <1>3, <2>1, <2>2
<1>9. ASSUME NEW result \in {"done", "failed"}, MountJobEnds(c, p, result) PROVE Kept(L)
  <2> DEFINE x == [w EXCEPT !.job = result]
  <2>1. site' = [site EXCEPT ![c].vol[p].job = result] /\ writes' = writes
        /\ scene' = scene /\ home' = home /\ syncs' = syncs
    BY <1>9 DEF MountJobEnds, Quiet
  <2>2. site = [e \in ClusterSet |-> site[e]] /\ site[c] \in SiteType /\ w \in VolumeType
    BY <1>1, <1>2 DEF SitesOK, SiteOK, Well
  <2>3. site' = [site EXCEPT ![c].vol[p] = x]
    BY <2>1, <2>2 DEF SiteType, VolumeType
  <2>4. Well(x, L[c][p])
    BY <1>2, OtherSet DEF Keeps
  <2> HIDE DEF x
  <2>5. SitesOK([site EXCEPT ![c].vol[p] = x], L)
    BY <1>1, <2>4, OneVolume
  <2>6. SitesOK(site', L)
    BY <2>3, <2>5
  <2> QED
    BY <1>1, <2>1, <2>6 DEF Kept
<1>10. CASE RDGetsAddress(c, p)
  <2>1. Volume(c, p, [w EXCEPT !.rd.addr = TRUE]) /\ writes' = writes
    BY <1>10 DEF RDGetsAddress, Quiet
  <2> QED
    BY <1>1, <1>2, <1>3, <2>1, FieldsSet
<1>11. CASE LocalRDGetsAddress(c, p)
  <2>1. w.local.rd /\ Volume(c, p, [w EXCEPT !.local.addr = TRUE]) /\ writes' = writes
    BY <1>11 DEF LocalRDGetsAddress, Quiet
  <2> QED
    BY <1>1, <1>2, <1>3, <2>1, FieldsSet
<1>12. CASE LocalSync(c, p)
  <2>1. Volume(c, p, [w EXCEPT !.local.last = w.local.trigger, !.data = w.rd.image.ver])
        /\ writes' = writes
    BY <1>12 DEF LocalSync, Quiet
  <2> QED
    BY <1>1, <1>2, <1>3, <2>1, FieldsSet
<1>13. CASE AppWrites(c, p)
  <2>1. writes' = writes + 1 /\ Volume(c, p, [w EXCEPT !.data = writes' + 1])
    BY <1>13 DEF AppWrites
  <2>2. writes' \in Nat /\ writes' + 1 \in Nat
    BY <1>1, <2>1
  <2>3. Well([w EXCEPT !.data = writes' + 1], L[c][p])
    BY <1>2, <2>2, OtherSet DEF Keeps
  <2> QED
    BY <1>3, <2>1, <2>2, <2>3
<1>14. CASE UserDeletesPVC(c, p)
  <2>1. Volume(c, p, [DeletePVC(w) EXCEPT !.mounted = FALSE]) /\ writes' = writes
    BY <1>14 DEF UserDeletesPVC
  <2>2. Well(DeletePVC(w), L[c][p])
    BY <1>2, DeletePVCKeeps DEF Keeps
  <2>3. Well([DeletePVC(w) EXCEPT !.mounted = FALSE], L[c][p])
    BY <2>2, OtherSet DEF Keeps
  <2> QED
    BY <1>1, <1>3, <2>1, <2>3
<1>15. CASE UserDeselectsPVC(c, p)
  <2>1. Volume(c, p, [w EXCEPT !.pvc.selected = FALSE]) /\ writes' = writes
    BY <1>15 DEF UserDeselectsPVC, Quiet
  <2> QED
    BY <1>1, <1>2, <1>3, <2>1, FieldsSet
<1> QED
  BY <1>4, <1>5, <1>6, <1>7, <1>8, <1>9, <1>10, <1>11, <1>12, <1>13, <1>14, <1>15

\* A sync changes one field of one object.
LEMMA SyncSets ==
    ASSUME NEW L, NEW S, SitesOK(S, L), NEW c \in ClusterSet, NEW p \in PVCs
    PROVE  /\ \A a \in RSType :
                a.there = S[c].vol[p].rs.there /\ a.trigger = S[c].vol[p].rs.trigger
                  => SitesOK([S EXCEPT ![c].vol[p].rs = a], L)
           /\ \A n \in Nat \cup {Torn} : SitesOK([S EXCEPT ![c].vol[p].data = n], L)
           /\ S[c].vol[p].rs \in RSType /\ S[c].vol[p].data \in Nat \cup {Torn}
<1> DEFINE w == S[c].vol[p]
<1>1. /\ S = [e \in ClusterSet |-> S[e]] /\ S[c] \in SiteType /\ S[c].vol \in [PVCs -> VolumeType]
      /\ Well(w, L[c][p])
  BY DEF SitesOK, SiteOK, SiteType
<1>2. w \in VolumeType /\ w.rs \in RSType /\ w.rd \in RDType /\ w.data \in Nat \cup {Torn}
  BY <1>1 DEF VolumeType
<1>3. ASSUME NEW a \in RSType, a.there = w.rs.there, a.trigger = w.rs.trigger
      PROVE  SitesOK([S EXCEPT ![c].vol[p].rs = a], L)
  <2> DEFINE x == [w EXCEPT !.rs = a]
  <2>1. a.trigger # "none" <=> a.there
    BY <1>1, <1>3 DEF Well
  <2>2. Well(x, L[c][p])
    BY <1>1, <1>3, <2>1, RSSet DEF Keeps
  <2>3. [S EXCEPT ![c].vol[p].rs = a] = [S EXCEPT ![c].vol[p] = x]
    BY <1>1, <1>2 DEF SiteType, VolumeType
  <2> HIDE DEF x
  <2> QED
    BY <2>2, <2>3, OneVolume
<1>4. ASSUME NEW n \in Nat \cup {Torn} PROVE SitesOK([S EXCEPT ![c].vol[p].data = n], L)
  <2> DEFINE x == [w EXCEPT !.data = n]
  <2>1. Well(x, L[c][p])
    BY <1>1, OtherSet DEF Keeps
  <2>2. [S EXCEPT ![c].vol[p].data = n] = [S EXCEPT ![c].vol[p] = x]
    BY <1>1, <1>2 DEF SiteType, VolumeType
  <2> HIDE DEF x
  <2> QED
    BY <2>1, <2>2, OneVolume
<1> QED
  BY <1>2, <1>3, <1>4

\* A sync changes the source on one cluster, and the destination on the other
\* or, past a failed delete, on the same one.
LEMMA SyncKeeps ==
    ASSUME VolSyncInv, NEW L, SitesOK(site, L), NEW c \in ClusterSet, NEW p \in PVCs,
           (\E here \in BOOLEAN : SyncStarts(c, p, here)) \/ SyncEnds(c, p)
    PROVE  Kept(L)
<1> DEFINE w == site[c].vol[p]
<1>1. home \in ClusterSet /\ syncs \in Nat /\ writes \in Nat
  BY DEF VolSyncInv
<1>2. \A here : Target(c, here) \in ClusterSet
  BY Peers DEF Target
<1>3. w.rs \in RSType /\ w.data \in Nat \cup {Torn}
  BY SyncSets
<1>4. ASSUME NEW here \in BOOLEAN, SyncStarts(c, p, here) PROVE Kept(L)
  <2> DEFINE d == Target(c, here)
             a == [w.rs EXCEPT !.job = w.rs.trigger, !.carry = w.data, !.here = here]
             T == [site EXCEPT ![c].vol[p].rs = a]
             n == IF scene.direct THEN Torn ELSE site[d].vol[p].data
             U == [T EXCEPT ![d].vol[p].data = n]
  <2>1. /\ w.data # Torn
        /\ site' = [site EXCEPT ![c].vol[p].rs = a,
                                ![d].vol[p].data = n]
        /\ scene' = scene /\ home' = home /\ syncs' = syncs /\ writes' = writes
    BY <1>4 DEF SyncStarts
  <2>2. a \in RSType /\ a.there = w.rs.there /\ a.trigger = w.rs.trigger
    BY <1>3, <2>1 DEF RSType
  <2>3. d \in ClusterSet
    BY <1>2
  <2> HIDE DEF a, d
  <2>4. site' = U
    BY <2>1
  <2>5. SitesOK(T, L)
    BY <2>2, SyncSets
  <2> HIDE DEF T
  <2>6. n \in Nat \cup {Torn}
    BY <2>3, SyncSets
  <2> HIDE DEF n
  <2>7. SitesOK(U, L)
    BY <2>3, <2>5, <2>6, SyncSets
  <2> HIDE DEF U
  <2> QED
    BY <1>1, <2>1, <2>4, <2>7 DEF Kept
<1>5. CASE SyncEnds(c, p)
  <2> DEFINE d == Target(c, w.rs.here)
             l == IF w.rs.job = "schedule" THEN "none" ELSE w.rs.job
             a == [w.rs EXCEPT !.job = "none", !.synced = TRUE, !.here = FALSE, !.last = l]
             i == [id |-> syncs', ver |-> w.rs.carry]
             T == [site EXCEPT ![c].vol[p].rs = a]
             v == T[d].vol[p]
             n == IF scene.direct THEN w.rs.carry ELSE v.data
             b == [v.rd EXCEPT !.image = i]
             y == [v EXCEPT !.rd.image = i, !.data = n]
             z == [v EXCEPT !.rd = b]
             U == [T EXCEPT ![d].vol[p] = y]
  <2>1. /\ syncs' = syncs + 1
        /\ site' = U
        /\ scene' = scene /\ home' = home /\ writes' = writes
    BY <1>5 DEF SyncEnds
  <2>2. syncs' \in Nat /\ w.rs.carry \in Nat /\ l \in Triggers
    <3>1. syncs' = syncs + 1
      BY <2>1
    <3>2. w.rs.carry \in Nat /\ w.rs.job \in Triggers
      BY <1>3 DEF RSType
    <3>3. l \in Triggers
      BY <3>2 DEF Triggers
    <3> QED
      BY <1>1, <3>1, <3>2, <3>3
  <2>3. a \in RSType /\ a.there = w.rs.there /\ a.trigger = w.rs.trigger
    <3> HIDE DEF l
    <3> QED
      BY <1>3, <2>2 DEF RSType, Triggers
  <2>4. i \in [id : Nat, ver : Nat] /\ d \in ClusterSet
    BY <1>2, <2>2
  <2> HIDE DEF a, d, i
  <2>5. SitesOK(T, L)
    BY <2>3, SyncSets
  <2> HIDE DEF T
  <2>6. Well(v, L[d][p]) /\ v \in VolumeType /\ v.rd \in RDType /\ v.data \in Nat \cup {Torn}
    BY <2>4, <2>5 DEF SitesOK, SiteOK, Well, VolumeType
  <2> HIDE DEF v
  <2>7. b \in RDType /\ b.there = v.rd.there /\ n \in Nat \cup {Torn}
    BY <2>2, <2>4, <2>6 DEF RDType
  <2>8. y = [z EXCEPT !.data = n]
    BY <2>6 DEF VolumeType, RDType
  <2> HIDE DEF b, n, y
  <2>9. Well(z, L[d][p])
    BY <2>6, <2>7, RDSet DEF Keeps
  <2> HIDE DEF z
  <2>10. Well(y, L[d][p])
    BY <2>7, <2>8, <2>9, OtherSet DEF Keeps
  <2>11. SitesOK(U, L)
    BY <2>4, <2>5, <2>10, OneVolume
  <2> HIDE DEF U
  <2> QED
    BY <1>1, <2>1, <2>2, <2>11 DEF Kept
<1> QED
  BY <1>4, <1>5


-----------------------------------------------------------------------------
(* The theorems.                                                            *)

\* The volumes a scene starts with are well formed.
LEMMA StartsWell ==
    ASSUME NEW may, NEW direct \in BOOLEAN
    PROVE  /\ Well(NoVolume, may) /\ Well(Sending, may) /\ Well(Receiving(direct), may)
           /\ Well([Sending EXCEPT !.mounted = FALSE, !.pvc.terminating = TRUE, !.data = 2,
                                   !.rs.trigger = "prepare", !.rs.last = "prepare"], may)
<1>1. Well(NoVolume, may)
  BY NothingTypes DEF Well, NoVolume, VolumeType, NoRS, NoRD, NoPVC, NoLocal
<1>2. ASSUME NEW app \in BOOLEAN, NEW fin \in BOOLEAN
      PROVE  Keeps(NoVolume, Bound(app, fin), may) /\ Bound(app, fin).pvc.there
  <2> DEFINE a == [NoPVC EXCEPT !.there = TRUE, !.app = app, !.finalizer = fin]
             b == [NoPV EXCEPT !.there = TRUE, !.retain = TRUE, !.ours = TRUE]
             x == [NoVolume EXCEPT !.pvc = a, !.pv = b, !.data = 1]
  <2>1. a \in PVCType /\ a.there /\ b \in PVType /\ b.there
    BY NothingTypes DEF PVCType, PVType, NoPVC, NoPV
  <2> HIDE DEF a, b
  <2>2. NoVolume \in VolumeType
    BY <1>1 DEF Well
  <2>3. /\ x \in VolumeType /\ x.pvc = a /\ x.pv = b
        /\ x.rs = NoVolume.rs /\ x.rd = NoVolume.rd /\ x.local = NoVolume.local
    <3>1. a \in PVCType /\ b \in PVType /\ 1 \in Nat \cup {Torn}
      BY <2>1
    <3>2. x \in VolumeType
      BY <2>2, <3>1 DEF VolumeType
    <3> QED
      BY <2>2, <3>2 DEF VolumeType
  <2>4. Bound(app, fin) = x
    BY DEF Bound, a, b
  <2> HIDE DEF x
  <2> QED
    BY <1>1, <2>1, <2>3, <2>4 DEF Keeps, Well
<1>3. Well(Sending, may) /\ Sending.rs.there /\ Sending.pvc.there
  <2> DEFINE B == Bound(TRUE, TRUE)
             r == [NoRS EXCEPT !.there = TRUE, !.trigger = "schedule", !.synced = TRUE]
             s == [listed |-> TRUE, restored |-> "None", setup |-> "Complete"]
             x == [B EXCEPT !.mounted = TRUE, !.st = s, !.rs = r]
  <2>1. Well(B, may) /\ B \in VolumeType /\ B.pvc.there /\ ~B.rd.there
    BY <1>2 DEF Keeps, Well, NoVolume, NoRD
  <2>2. r \in RSType /\ r.there /\ r.trigger # "none" /\ s \in StatusType
    BY NothingTypes DEF RSType, StatusType, NoRS, Triggers
  <2>3. Sending = x
    BY DEF Sending
  <2> HIDE DEF B, r, s
  <2>4. /\ x \in VolumeType /\ x.pvc = B.pvc /\ x.pv = B.pv /\ x.rs = r /\ x.rd = B.rd
        /\ x.local = B.local
    BY <2>1, <2>2 DEF VolumeType
  <2> HIDE DEF x
  <2> QED
    BY <2>1, <2>2, <2>3, <2>4 DEF Well
<1>4. Well(Receiving(direct), may)
  <2> DEFINE B == IF direct THEN Bound(FALSE, FALSE) ELSE NoVolume
             r == [NoRD EXCEPT !.there = TRUE, !.addr = TRUE, !.image = [id |-> 1, ver |-> 1]]
             x == [B EXCEPT !.rd = r]
  <2>1. Well(B, may) /\ B \in VolumeType /\ ~B.rs.there
    BY <1>1, <1>2 DEF Keeps, Well, NoVolume, NoRS
  <2>2. r \in RDType
    BY NothingTypes DEF RDType, NoRD
  <2>3. Receiving(direct) = x
    BY DEF Receiving
  <2> HIDE DEF B, r
  <2>4. /\ x \in VolumeType /\ x.pvc = B.pvc /\ x.pv = B.pv /\ x.rs = B.rs
        /\ x.mounted = B.mounted /\ x.local = B.local
    BY <2>1, <2>2 DEF VolumeType
  <2> HIDE DEF x
  <2> QED
    BY <2>1, <2>3, <2>4 DEF Well
<1>5. Well([Sending EXCEPT !.mounted = FALSE, !.pvc.terminating = TRUE, !.data = 2,
                           !.rs.trigger = "prepare", !.rs.last = "prepare"], may)
  <2> DEFINE w == Sending
             a == [w.pvc EXCEPT !.terminating = TRUE]
             r == [w.rs EXCEPT !.trigger = "prepare", !.last = "prepare"]
             x == [w EXCEPT !.mounted = FALSE, !.pvc = a, !.data = 2, !.rs = r]
  <2>1. Well(w, may) /\ w \in VolumeType /\ w.pvc \in PVCType /\ w.rs \in RSType
        /\ w.rs.there /\ w.pvc.there
    BY <1>3 DEF Well, VolumeType
  <2> HIDE DEF w
  <2>2. [w EXCEPT !.mounted = FALSE, !.pvc.terminating = TRUE, !.data = 2,
                  !.rs.trigger = "prepare", !.rs.last = "prepare"] = x
    BY <2>1 DEF VolumeType, PVCType, RSType
  <2>3. a \in PVCType /\ a.there = w.pvc.there /\ a.app = w.pvc.app
    BY <2>1 DEF PVCType
  <2>4. r \in RSType /\ r.there = w.rs.there /\ r.trigger = "prepare"
    BY <2>1 DEF RSType, Triggers
  <2> HIDE DEF a, r
  <2>5. /\ x \in VolumeType /\ x.pvc = a /\ x.pv = w.pv /\ x.rs = r /\ x.rd = w.rd
        /\ x.local = w.local
    BY <2>1, <2>3, <2>4 DEF VolumeType
  <2> HIDE DEF x
  <2>6. Well(x, may)
    BY <2>1, <2>3, <2>4, <2>5 DEF Well
  <2> QED
    BY <2>2, <2>6 DEF w
<1> QED
  BY <1>1, <1>3, <1>4, <1>5

\* The sites a scene starts with are well formed.
LEMMA StartsOK ==
    ASSUME NEW L, scene \in SceneType, NEW c \in ClusterSet PROVE SiteOK(Site(scene, c), L)
<1>1. /\ scene.start \in {"deploy", "settled", "stopped"} /\ scene.direct \in BOOLEAN
      /\ scene.submariner \in BOOLEAN
  BY DEF SceneType
<1>2. ASSUME NEW may
      PROVE  /\ Well(NoVolume, may) /\ Well(Sending, may) /\ Well(Receiving(scene.direct), may)
             /\ Well([Sending EXCEPT !.mounted = FALSE, !.pvc.terminating = TRUE, !.data = 2,
                                     !.rs.trigger = "prepare", !.rs.last = "prepare"], may)
  BY <1>1, StartsWell
<1>3. ASSUME NEW g \in SpecType, NEW a \in SiteStatusType, NEW b \in BOOLEAN,
             NEW w, \A p \in PVCs : Well(w, L[p])
      PROVE  SiteOK([spec |-> g, status |-> a, secret |-> b, vol |-> [p \in PVCs |-> w]], L)
  <2>1. PVCs # {} => w \in VolumeType
    BY <1>3 DEF Well
  <2> QED
    BY <1>3, <2>1 DEF SiteOK, SiteType
<1>4. ASSUME NEW state \in {"Primary", "Secondary"}, NEW rd \in SUBSET PVCs, NEW rs \in SUBSET PVCs
      PROVE  VRG(state, rd, rs) \in SpecType
  BY DEF VRG, SpecType
<1>5. NoStatusYet \in SiteStatusType
  BY DEF NoStatusYet, SiteStatusType
<1>6. SiteOK(DeploySite(scene, c), L)
  <2> DEFINE m == IF c = Clusters[1] THEN "Primary" ELSE "Secondary"
             h == (c = Clusters[1])
             g == [VRG(m, {}, {}) EXCEPT !.there = h]
  <2>1. VRG(m, {}, {}) \in SpecType
    BY <1>4
  <2>2. g \in SpecType
    BY <2>1 DEF SpecType
  <2>3. DeploySite(scene, c) = [spec |-> g, status |-> NoStatusYet, secret |-> FALSE,
                                vol |-> [p \in PVCs |-> NoVolume]]
    BY DEF DeploySite, PVCs
  <2> HIDE DEF g
  <2> QED
    BY <1>2, <1>3, <1>5, <2>2, <2>3
<1>7. SiteOK(SettledSite(scene, c), L)
  <2> DEFINE n == IF scene.submariner THEN {} ELSE PVCs
             g == VRG("Primary", {}, n)
             h == VRG("Secondary", PVCs, {})
             a == [NoStatusYet EXCEPT !.ready = "restored", !.data = TRUE, !.state = "Primary"]
             b == [NoStatusYet EXCEPT !.ready = "unused", !.data = TRUE, !.state = "Secondary",
                                      !.rdInfo = n]
  <2>1. n \in SUBSET PVCs
    OBVIOUS
  <2>2. SettledSite(scene, c) =
          IF c = Clusters[1]
          THEN [spec |-> g, status |-> a, secret |-> TRUE, vol |-> [p \in PVCs |-> Sending]]
          ELSE [spec |-> h, status |-> b, secret |-> TRUE,
                vol |-> [p \in PVCs |-> Receiving(scene.direct)]]
    BY DEF SettledSite, PVCs
  <2> HIDE DEF n
  <2>3. g \in SpecType /\ h \in SpecType
    BY <1>4, <2>1
  <2>4. a \in SiteStatusType /\ b \in SiteStatusType
    BY <1>5, <2>1 DEF SiteStatusType
  <2> HIDE DEF g, h, a, b
  <2> QED
    BY <1>2, <1>3, <2>2, <2>3, <2>4
<1>8. SiteOK(StoppedSite(scene, c), L)
  <2> DEFINE s == SettledSite(scene, c)
             w == [Sending EXCEPT !.mounted = FALSE, !.pvc.terminating = TRUE, !.data = 2,
                                  !.rs.trigger = "prepare", !.rs.last = "prepare"]
             v == [p \in PVCs |-> w]
             g == [s.spec EXCEPT !.run = TRUE]
             a == [s.status EXCEPT !.prepared = TRUE]
             x == [s EXCEPT !.spec = g]
             y == [x EXCEPT !.status = a]
             z == [y EXCEPT !.vol = v]
  <2>1. SiteOK(s, L) /\ s \in SiteType /\ s.spec \in SpecType /\ s.status \in SiteStatusType
    BY <1>7 DEF SiteOK, SiteType
  <2>2. StoppedSite(scene, c) =
          IF c # Clusters[1] THEN s
          ELSE [s EXCEPT !.spec.run = TRUE, !.status.prepared = TRUE, !.vol = v]
    BY DEF StoppedSite, PVCs
  <2>3. \A p \in PVCs : Well(w, L[p])
    BY <1>2
  <2> HIDE DEF s, w
  <2>4. [s EXCEPT !.spec.run = TRUE, !.status.prepared = TRUE, !.vol = v] = z
    BY <2>1 DEF SiteType, SpecType, SiteStatusType
  <2>5. g \in SpecType /\ a \in SiteStatusType
    BY <2>1 DEF SpecType, SiteStatusType
  <2>6. v = [p \in PVCs |-> v[p]] /\ \A p \in PVCs : Well(v[p], L[p])
    BY <2>3
  <2> HIDE DEF g, a, v
  <2>7. SiteOK(x, L)
    BY <2>1, <2>5, SpecSet
  <2> HIDE DEF x
  <2>8. SiteOK(y, L)
    BY <2>5, <2>7, StatusSet DEF Passes
  <2> HIDE DEF y
  <2>9. SiteOK(z, L)
    BY <2>6, <2>8, VolumesSet DEF Passes
  <2> HIDE DEF z
  <2> QED
    BY <2>1, <2>2, <2>4, <2>9
<1> QED
  BY <1>1, <1>6, <1>7, <1>8 DEF Site

\* A pass, where a failed delete may leave a loop.
LEMMA PassKeeps ==
    ASSUME VolSyncInv, NEW L, SitesOK(site, L), NEW c \in ClusterSet, NEW f \in Calls,
           NEW q \in PVCs, Reconcile(c, f, q), f = "deleteRS" => L[c][q]
    PROVE  Kept(L)
<1>1. /\ site' = [site EXCEPT ![c] = processVRG(site[c], f, q)]
      /\ scene' = scene /\ home' = home /\ syncs' = syncs /\ writes' = writes
  BY DEF Reconcile
<1>2. SiteOK(site[c], L[c])
  BY DEF SitesOK
<1>3. SiteOK(processVRG(site[c], f, q), L[c])
  BY <1>2, PassOK
<1>4. SitesOK(site', L)
  BY <1>1, <1>3, OneSite
<1> QED
  BY <1>1, <1>4 DEF VolSyncInv, Kept

\* Steps that are not passes bring no loop about.
LEMMA OthersKeep ==
    ASSUME VolSyncInv, NEW L, SitesOK(site, L),
           \/ HubWorks \/ Chooses \/ UNCHANGED volsyncVars
           \/ \E c \in ClusterSet, p \in PVCs : Works(c, p)
    PROVE  Kept(L)
<1>1. CASE HubWorks
  BY <1>1, HubKeeps
<1>2. CASE Chooses
  BY <1>2, HubKeeps, AppKeeps DEF Chooses
<1>3. ASSUME NEW c \in ClusterSet, NEW p \in PVCs, Works(c, p) PROVE Kept(L)
  BY <1>3, AppKeeps, SyncKeeps DEF Works
<1>4. CASE UNCHANGED volsyncVars
  BY <1>4 DEF volsyncVars, VolSyncInv, Kept
<1> QED
  BY <1>1, <1>2, <1>3, <1>4

\* The invariant holds of every scene, whatever calls fail.
THEOREM VolSyncInvariant == SpecVolSync => []VolSyncInv
<1>1. Init => VolSyncInv
  <2> SUFFICES ASSUME Init PROVE VolSyncInv
    OBVIOUS
  <2>1. scene \in Scenes /\ scene \in SceneType
    BY VolSyncAssumption DEF Init
  <2>2. site = [c \in ClusterSet |-> Site(scene, c)] /\ home = Clusters[1]
        /\ syncs = 1 /\ writes = 0
    BY DEF Init
  <2>3. \A c \in ClusterSet : SiteOK(Site(scene, c), AnyLoop[c])
    BY <2>1, StartsOK
  <2>4. SitesOK(site, AnyLoop)
    BY <2>2, <2>3 DEF SitesOK
  <2>5. home \in ClusterSet
    BY <2>2, VolSyncAssumption DEF ClusterSet, Range
  <2> QED
    BY <2>1, <2>2, <2>4, <2>5 DEF VolSyncInv
<1>2. VolSyncInv /\ [Next]_volsyncVars => VolSyncInv'
  <2> SUFFICES ASSUME VolSyncInv, [Next]_volsyncVars PROVE VolSyncInv'
    OBVIOUS
  <2>1. SitesOK(site, AnyLoop)
    BY DEF VolSyncInv
  <2>2. ASSUME NEW c \in ClusterSet, NEW f \in Calls, NEW q \in PVCs, Reconcile(c, f, q)
        PROVE  Kept(AnyLoop)
    <3>1. AnyLoop[c][q]
      BY DEF AnyLoop
    <3> QED
      BY <2>1, <2>2, <3>1, PassKeeps
  <2>3. Kept(AnyLoop)
    BY <2>1, <2>2, OthersKeep DEF Next
  <2> QED
    BY <2>3, NextSites DEF Kept
<1> QED
  BY <1>1, <1>2, PTL DEF SpecVolSync

\* A cluster comes to send and receive a PVC at once only in a pass in which
\* the deletion of its source failed (cleanupRS logs it and ReconcileRD goes
\* on).  No other pass, failing call, step of the hub, of the application or
\* of a sync brings the two together.
THEOREM LoopsNeedAFailedDelete == SpecVolSync => LoopsOnlyPastAFailedDelete
<1> DEFINE Safe == \A c \in ClusterSet, p \in PVCs :
                      ~Looped(c, p) /\ Looped(c, p)' => Reconcile(c, "deleteRS", p)
<1>1. VolSyncInv /\ [Next]_volsyncVars => [Safe]_volsyncVars
  <2> SUFFICES ASSUME VolSyncInv, [Next]_volsyncVars,
                      NEW c \in ClusterSet, NEW p \in PVCs, ~Looped(c, p), Looped(c, p)'
               PROVE  Reconcile(c, "deleteRS", p)
    OBVIOUS
  <2> DEFINE L == [AnyLoop EXCEPT ![c] = [q \in PVCs |-> q # p]]
  <2>1. L[c] = [q \in PVCs |-> q # p] /\ \A d \in ClusterSet \ {c} : L[d] = AnyLoop[d]
    BY DEF AnyLoop
  <2>2. ~L[c][p] /\ \A d \in ClusterSet, q \in PVCs : ~L[d][q] => d = c /\ q = p
    BY <2>1 DEF AnyLoop
  <2> HIDE DEF L
  <2>3. SitesOK(site, L)
    <3>1. SitesOK(site, AnyLoop)
      BY DEF VolSyncInv
    <3>2. \A d \in ClusterSet, q \in PVCs : Well(site[d].vol[q], L[d][q])
      BY <2>2, <3>1 DEF SitesOK, SiteOK, Well, Looped
    <3> QED
      BY <3>1, <3>2 DEF SitesOK, SiteOK
  <2>4. ~Kept(L)
    <3>1. ~Well(site'[c].vol[p], L[c][p])
      BY <2>2 DEF Well, Looped
    <3> QED
      BY <3>1 DEF Kept, SitesOK, SiteOK
  <2>5. PICK d \in ClusterSet, f \in Calls, q \in PVCs : Reconcile(d, f, q)
    BY <2>3, <2>4, OthersKeep DEF Next
  <2>6. f = "deleteRS" /\ ~L[d][q]
    BY <2>3, <2>4, <2>5, PassKeeps
  <2> QED
    BY <2>2, <2>5, <2>6
<1>2. SpecVolSync => [][Safe]_volsyncVars
  BY <1>1, VolSyncInvariant, PTL DEF SpecVolSync
<1> QED
  BY <1>2 DEF LoopsOnlyPastAFailedDelete

\* The objects of a volume stay well formed: what is mounted exists, a PVC has
\* its PV, a source has a trigger, and a local copy has its destination.
THEOREM VolumesWellFormed == SpecVolSync => []VolSyncTypeOK
<1>1. VolSyncInv => VolSyncTypeOK
  BY DEF VolSyncInv, SitesOK, SiteOK, Well, VolSyncTypeOK
<1> QED
  BY <1>1, VolSyncInvariant, PTL
=============================================================================
