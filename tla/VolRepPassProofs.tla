-------------------------- MODULE VolRepPassProofs --------------------------
(***************************************************************************)
(* What one pass of the VRG controller does to every volume, for every     *)
(* number of volumes and S3 stores and every call that fails.              *)
(***************************************************************************)
EXTENDS VolRep, ProtectedVolumeProofs, WellFoundedInduction

-----------------------------------------------------------------------------
(* Restoring.                                                               *)

\* What restoring from the stores may make of a volume.
Renews(v, w, x) ==
    /\ Sound(v, x) /\ x.vr = w.vr /\ x.inUse = w.inUse /\ x.reclaims = w.reclaims /\ x.s3 = w.s3
    /\ w.pv.phase # "None" => x.pv.phase # "None"
    /\ \/ x.pvc = w.pvc
       \/ /\ x.pvc.there /\ x.pvc.selected /\ ~x.pvc.terminating
          /\ x.pvc.owner = "none" /\ ~x.pvc.finalizer
    /\ Retained(w) => Retained(x)

\* Restoring nothing renews.
LEMMA RenewsSelf == ASSUME NEW v, NEW w, Sound(v, w) PROVE Renews(v, w, w)
BY DEF Renews

\* The PV and the PVC of a volume are restored one after the other.
LEMMA RenewsTwice ==
    ASSUME NEW v, NEW w, NEW x, NEW y, Renews(v, w, x), Renews(v, x, y) PROVE Renews(v, w, y)
BY DEF Renews

\* An object that is not there has its type.
LEMMA NothingTypes == NoPVC \in PVCType /\ NoPV \in PVType /\ NoVR \in VRType
BY DEF NoPVC, PVCType, NoPV, PVType, NoVR, VRType, NoConditions, Readings, Roles

\* RestorePV: restorePVsFromS3 for one PV.
LEMMA PVRestored ==
    ASSUME NEW w, Sound(spec, w) PROVE Renews(spec, w, RestorePV(w))
<1> DEFINE a == [NoPV EXCEPT !.phase = "Available", !.retain = TRUE,
                             !.retained = w.reclaims, !.restored = TRUE]
           b == [w.pv EXCEPT !.phase = "Available", !.leftBehind = FALSE, !.restored = TRUE]
           x == [w EXCEPT !.pv = a]
           y == [w EXCEPT !.pv = b]
<1>1. w \in VolumeType /\ w.pv \in PVType /\ w.reclaims \in BOOLEAN
  BY DEF Sound, VolumeType
<1>2. a \in PVType /\ a.phase = "Available" /\ a.retain /\ a.retained = w.reclaims /\ ~a.archived
  BY <1>1, NothingTypes DEF PVType, NoPV
<1>3. b \in PVType /\ b.phase = "Available" /\ b.retain = w.pv.retain /\ b.retained = w.pv.retained
      /\ b.archived = w.pv.archived
  BY <1>1 DEF PVType
<1>4. RestorePV(w) = IF w.pv.phase = "None" THEN x
                     ELSE IF w.pv.phase # "Bound" /\ ~spec.async THEN y ELSE w
  BY <1>1 DEF RestorePV, VolumeType, PVType
<1> HIDE DEF a, b
<1>5. /\ x \in VolumeType /\ x.pv = a /\ x.pvc = w.pvc /\ x.vr = w.vr /\ x.s3 = w.s3
      /\ x.inUse = w.inUse /\ x.reclaims = w.reclaims
  BY <1>1, <1>2 DEF VolumeType
<1>6. /\ y \in VolumeType /\ y.pv = b /\ y.pvc = w.pvc /\ y.vr = w.vr /\ y.s3 = w.s3
      /\ y.inUse = w.inUse /\ y.reclaims = w.reclaims
  BY <1>1, <1>3 DEF VolumeType
<1> HIDE DEF x, y
<1>7. w.pv.phase = "None" => Sound(spec, x)
  BY <1>2, <1>5 DEF Sound, Paired, PolicyKept, Archived, Replicated, isArchivedAlready
<1>8. w.pv.phase \notin {"None", "Bound"} => Sound(spec, y)
  BY <1>3, <1>6 DEF Sound, Paired, PolicyKept, Archived, Replicated, isArchivedAlready, AllCurrent, Leaving
<1>9. w.pv.phase = "None" => Renews(spec, w, x)
  BY <1>2, <1>5, <1>7 DEF Renews, Retained
<1>10. w.pv.phase \notin {"None", "Bound"} => Renews(spec, w, y)
  BY <1>3, <1>6, <1>8 DEF Renews, Retained
<1> QED
  BY <1>4, <1>9, <1>10, RenewsSelf

\* RestorePVC: restorePVCsFromS3 for one PVC.
LEMMA PVCRestored ==
    ASSUME NEW w, Sound(spec, w) PROVE Renews(spec, w, RestorePVC(w))
<1> DEFINE a == [NoPVC EXCEPT !.there = TRUE, !.selected = TRUE,
                              !.bound = w.pvc.bound, !.resizing = w.pvc.resizing]
           x == [w EXCEPT !.pvc = a]
<1>1. w \in VolumeType /\ w.pvc \in PVCType
  BY DEF Sound, VolumeType
<1>2. /\ a \in PVCType /\ a.there /\ a.selected /\ ~a.terminating /\ a.owner = "none"
      /\ ~a.finalizer /\ ~a.protected /\ ~a.archived /\ a.bound = w.pvc.bound
  BY <1>1, NothingTypes DEF PVCType, NoPVC
<1>3. RestorePVC(w) = x
  BY DEF RestorePVC
<1> HIDE DEF a
<1>4. /\ x \in VolumeType /\ x.pvc = a /\ x.pv = w.pv /\ x.vr = w.vr /\ x.s3 = w.s3
      /\ x.inUse = w.inUse /\ x.reclaims = w.reclaims
  BY <1>1, <1>2 DEF VolumeType
<1> HIDE DEF x
<1>5. Sound(spec, x)
  BY <1>2, <1>4 DEF Sound, Paired, PolicyKept, Archived, Replicated, isArchivedAlready
<1>6. Renews(spec, w, x)
  BY <1>2, <1>4, <1>5 DEF Renews, Retained
<1> QED
  BY <1>3, <1>6

\* One store gives back what it holds.
LEMMA StoreRestored ==
    ASSUME NEW i, NEW ws, \A p \in VolumeSet : Sound(spec, ws[p])
    PROVE  LET r == Restored(i, ws) IN
           /\ r.ws = [p \in VolumeSet |-> r.ws[p]]
           /\ \A p \in VolumeSet : Renews(spec, ws[p], r.ws[p])
<1> DEFINE pvs == {p \in VolumeSet : ws[p].s3[i].pv # "none"}
           pvcs == {p \in VolumeSet : ws[p].s3[i].pvc # "none"}
           badPV(p) == ws[p].pv.phase # "None" /\ ~validateExistingPV(ws[p])
           badPVC(p) == ws[p].pvc.there /\ ~validateExistingPVC(ws[p])
           first == [p \in VolumeSet |-> IF p \in pvs /\ ~badPV(p) THEN RestorePV(ws[p]) ELSE ws[p]]
           second == [p \in VolumeSet |-> IF p \in pvcs /\ ~badPVC(p) THEN RestorePVC(first[p]) ELSE first[p]]
           r == Restored(i, ws)
<1>1. r.ws = IF \E p \in pvs : badPV(p) THEN first ELSE second
  BY DEF Restored, Tried
<1>2. ASSUME NEW p \in VolumeSet PROVE Renews(spec, ws[p], first[p])
  BY PVRestored, RenewsSelf
<1>3. ASSUME NEW p \in VolumeSet PROVE Renews(spec, ws[p], second[p])
  <2>1. second[p] = RestorePVC(first[p]) \/ second[p] = first[p]
    OBVIOUS
  <2> HIDE DEF first, second
  <2>2. Sound(spec, first[p])
    BY <1>2 DEF Renews
  <2>3. Renews(spec, first[p], second[p])
    BY <2>1, <2>2, PVCRestored, RenewsSelf
  <2> QED
    BY <1>2, <2>3, RenewsTwice
<1>4. first = [p \in VolumeSet |-> first[p]] /\ second = [p \in VolumeSet |-> second[p]]
  OBVIOUS
<1> HIDE DEF first, second, pvs, badPV, r
<1>5. /\ r.ws = [p \in VolumeSet |-> r.ws[p]]
      /\ \A p \in VolumeSet : Renews(spec, ws[p], r.ws[p])
  BY <1>1, <1>2, <1>3, <1>4
<1> QED
  BY <1>5 DEF r

\* Every set of natural numbers has a least element.
LEMMA NatMin ==
    ASSUME NEW T \in SUBSET Nat, T # {} PROVE \E n \in T : \A m \in T : n <= m
<1> DEFINE R == {ss \in Nat \X Nat : ss[1] < ss[2]}
<1>1. IsWellFoundedOn(R, Nat)
  BY NatLessThanWellFounded DEF OpToRel
<1> HIDE DEF R
<1>2. PICK n \in T : \A m \in T : ~(<<m, n>> \in R)
  BY <1>1, WFMin
<1>3. \A m \in T : n <= m
  <2> SUFFICES ASSUME NEW m \in T, m < n PROVE FALSE
    OBVIOUS
  <2>1. <<m, n>> \in Nat \X Nat /\ <<m, n>>[1] < <<m, n>>[2]
    OBVIOUS
  <2>2. <<m, n>> \in R
    BY <2>1, Zenon DEF R
  <2> QED
    BY <1>2, <2>2
<1> QED
  BY <1>3

\* The stores give back one after the other, by induction on their number.
LEMMA AllRestored ==
    ASSUME NEW f, NEW ws, ws = [p \in VolumeSet |-> ws[p]], \A p \in VolumeSet : Sound(spec, ws[p])
    PROVE  LET r == restorePVsAndPVCsFromS3(ws, f) IN
           /\ r.ws = [p \in VolumeSet |-> r.ws[p]]
           /\ \A p \in VolumeSet : Renews(spec, ws[p], r.ws[p])
<1> DEFINE base == Tried(ws, Stores = 0)
           N(y, i) == IF y.done THEN y
                      ELSE IF f.call = "download" /\ f.store = i THEN Tried(y.ws, FALSE)
                      ELSE Restored(i, y.ws)
           Ds(g, i) == IF i = 0 THEN base ELSE N(g[i-1], i)
           Defines(g, n) == g = [i \in 0..n |-> Ds(g, i)]
           after == CHOOSE g : g = [i \in 0..Stores |-> Ds(g, i)]
           Good(y) == /\ y.ws = [p \in VolumeSet |-> y.ws[p]]
                      /\ \A p \in VolumeSet : Renews(spec, ws[p], y.ws[p])
<1>1. restorePVsAndPVCsFromS3(ws, f) = after[Stores]
  BY DEF restorePVsAndPVCsFromS3
<1>2. Good(base)
  BY RenewsSelf DEF Tried
<1>3. ASSUME NEW y, NEW i, Good(y) PROVE Good(N(y, i))
  <2>1. \A p \in VolumeSet : Sound(spec, y.ws[p])
    BY <1>3 DEF Renews
  <2> DEFINE r == Restored(i, y.ws)
  <2>2. r.ws = [p \in VolumeSet |-> r.ws[p]] /\ \A p \in VolumeSet : Renews(spec, y.ws[p], r.ws[p])
    BY <2>1, StoreRestored
  <2> HIDE DEF r
  <2>3. Good(r)
    BY <1>3, <2>2, RenewsTwice
  <2>4. N(y, i) \in {y, Tried(y.ws, FALSE), r}
    BY DEF r
  <2>5. Good(Tried(y.ws, FALSE))
    BY <1>3 DEF Tried
  <2> HIDE DEF Good, N
  <2> QED
    BY <1>3, <2>3, <2>4, <2>5
<1> HIDE DEF base, N, Good
<1>4. \A n \in Nat : \E g : Defines(g, n)
  <2> DEFINE T == {n \in Nat : ~ \E g : Defines(g, n)}
  <2> SUFFICES ASSUME T # {} PROVE FALSE
    OBVIOUS
  <2>1. T \in SUBSET Nat
    OBVIOUS
  <2> HIDE DEF T
  <2>2. PICK n \in T : \A m \in T : n <= m
    BY <2>1, NatMin
  <2>3. n \in Nat /\ ~ \E g : Defines(g, n)
    BY DEF T
  <2>4. CASE n = 0
    <3>1. Defines([i \in 0..0 |-> base], 0)
      OBVIOUS
    <3> QED
      BY <2>3, <2>4, <3>1
  <2>5. CASE n # 0
    <3>1. n - 1 \in Nat /\ ~(n <= n - 1)
      BY <2>3, <2>5
    <3>2. n - 1 \notin T
      BY <2>2, <3>1
    <3>3. PICK h : Defines(h, n - 1)
      BY <3>1, <3>2 DEF T
    <3> DEFINE g == [i \in 0..n |-> IF i = n THEN N(h[n-1], n) ELSE h[i]]
    <3>4. ASSUME NEW i \in 0..n PROVE g[i] = Ds(g, i)
      <4>1. CASE i = n
        BY <2>3, <2>5, <4>1
      <4>2. CASE i # n /\ i = 0
        <5>1. h[0] = base
          BY <2>3, <3>1, <3>3
        <5> QED
          BY <4>2, <5>1
      <4>3. CASE i # n /\ i # 0
        <5>1. i \in 0..(n-1) /\ i - 1 \in 0..(n-1) /\ i - 1 # n /\ i - 1 \in 0..n
          BY <2>3, <4>3
        <5>2. h[i] = N(h[i-1], i)
          BY <3>3, <4>3, <5>1
        <5>3. g[i-1] = h[i-1] /\ g[i] = h[i]
          BY <4>3, <5>1
        <5> HIDE DEF g
        <5> QED
          BY <4>3, <5>2, <5>3
      <4> QED
        BY <4>1, <4>2, <4>3
    <3>5. g = [i \in 0..n |-> g[i]]
      OBVIOUS
    <3> HIDE DEF g
    <3>6. Defines(g, n)
      BY <3>4, <3>5
    <3> QED
      BY <2>3, <3>6
  <2> QED
    BY <2>4, <2>5
<1>5. Defines(after, Stores)
  BY <1>4, StoresAssumption
<1> HIDE DEF after
<1>6. \A i \in 0..Stores : Good(after[i])
  <2> DEFINE T == {i \in 0..Stores : ~Good(after[i])}
  <2> SUFFICES ASSUME T # {} PROVE FALSE
    OBVIOUS
  <2>1. T \in SUBSET Nat
    BY StoresAssumption
  <2> HIDE DEF T
  <2>2. PICK n \in T : \A m \in T : n <= m
    BY <2>1, NatMin
  <2>3. n \in 0..Stores /\ ~Good(after[n])
    BY DEF T
  <2>4. CASE n = 0
    BY <1>2, <1>5, <2>3, <2>4
  <2>5. CASE n # 0
    <3>1. n - 1 \in 0..Stores /\ ~(n <= n - 1)
      BY <2>3, <2>5, StoresAssumption
    <3>2. Good(after[n-1])
      BY <2>2, <3>1 DEF T
    <3>3. after[n] = N(after[n-1], n)
      BY <1>5, <2>3, <2>5
    <3> QED
      BY <1>3, <2>3, <3>2, <3>3
  <2> QED
    BY <2>4, <2>5
<1>7. Good(restorePVsAndPVCsFromS3(ws, f))
  BY <1>1, <1>6, StoresAssumption
<1> QED
  BY <1>7 DEF Good

-----------------------------------------------------------------------------
(* One pass.                                                                *)

\* What a pass in which the call f fails makes of a volume.
Total(v, f, w, x) ==
    /\ Sound(v, x) /\ x.inUse = w.inUse
    /\ w.pv.phase # "None" => x.pv.phase # "None" \/ (~v.async /\ w.pv.phase = "Released")
    /\ x.pvc.terminating => w.pvc.terminating
    /\ x.pvc.there /\ ~x.pvc.selected => w.pvc.there /\ ~w.pvc.selected
    /\ VRStep(v, w, x) \/ (v.deleted /\ x.vr.there /\ x.vr.terminating)
    /\ w.pvc.finalizer => x.pvc.finalizer \/ ~x.vr.there \/ (x.pvc.there /\ x.pvc.owner = "none")
    /\ Retained(w) /\ f.call # "updatePVC" => Retained(x)

\* A pass restores the volumes and then works on each of them.
LEMMA RenewsThenPasses ==
    ASSUME NEW v, NEW f, NEW g, NEW w, NEW x, NEW y, f.call # "updatePVC" => g.call # "updatePVC",
           Renews(v, w, x), Passes(v, g, x, y)
    PROVE  Total(v, f, w, y)
<1>1. Ended(v, x) => Ended(v, w)
  BY DEF Renews, Ended
<1>2. VRStep(v, w, y)
  BY <1>1 DEF Renews, Passes, VRStep, MayStop, Created, Updated
<1>4. w.pvc.finalizer => y.pvc.finalizer \/ ~y.vr.there \/ (y.pvc.there /\ y.pvc.owner = "none")
  BY DEF Renews, Passes, SameVolume
<1>5. /\ Sound(v, y) /\ y.inUse = w.inUse /\ (w.pv.phase # "None" => y.pv.phase # "None")
      /\ y.pvc.terminating => w.pvc.terminating
      /\ y.pvc.there /\ ~y.pvc.selected => w.pvc.there /\ ~w.pvc.selected
  BY DEF Renews, Passes, SameVolume
<1>6. Retained(w) /\ f.call # "updatePVC" => Retained(y)
  BY DEF Renews, Passes
<1> QED
  BY <1>2, <1>4, <1>5, <1>6 DEF Total

\* A pass ends with writing the status.
LEMMA TotalThenProtects ==
    ASSUME NEW v, NEW f, NEW w, NEW x, NEW y, Total(v, f, w, x), Protects(v, x, y)
    PROVE  Total(v, f, w, y)
<1>1. VRStep(v, w, y) \/ (v.deleted /\ y.vr.there /\ y.vr.terminating)
  BY DEF Total, Protects, VRStep, Created, Updated
<1>2. w.pvc.finalizer => y.pvc.finalizer \/ ~y.vr.there \/ (y.pvc.there /\ y.pvc.owner = "none")
  BY DEF Total, Protects, SameVolume
<1>3. /\ Sound(v, y) /\ y.inUse = w.inUse
      /\ w.pv.phase # "None" => y.pv.phase # "None" \/ (~v.async /\ w.pv.phase = "Released")
      /\ y.pvc.terminating => w.pvc.terminating
      /\ y.pvc.there /\ ~y.pvc.selected => w.pvc.there /\ ~w.pvc.selected
  BY DEF Total, Protects, SameVolume
<1>4. Retained(w) /\ f.call # "updatePVC" => Retained(y)
  BY DEF Total, Protects
<1> QED
  BY <1>1, <1>2, <1>3, <1>4 DEF Total

\* A volume is unprotected by pvcsDeselectedUnprotect or left to the rest of the pass.
LEMMA Deselected ==
    ASSUME NEW F, NEW ws, ws = [p \in VolumeSet |-> ws[p]], \A p \in VolumeSet : Sound(spec, ws[p])
    PROVE  LET us == pvcsDeselectedUnprotect(ws, F) IN
           /\ us = [p \in VolumeSet |-> us[p]]
           /\ \A p \in VolumeSet : /\ Passes(spec, F[p], ws[p], us[p])
                                   /\ us[p] = ws[p] \/ p \notin volRepPVCs(us)
<1> DEFINE us == pvcsDeselectedUnprotect(ws, F)
           out == {p \in VolumeSet : /\ ws[p].pvc.there /\ ws[p].pvc.owner = "vrg"
                                     /\ p \notin volRepPVCs(ws)}
           clean(w) == IF VolumeUnprotectionEnabled THEN pvcStatusDeleteIfPresent(w) ELSE w
           mid(p) == IF p \in out /\ ws[p].pvc.finalizer
                     THEN pvcUnprotectVolRep(spec, ws[p], F[p]).w ELSE ws[p]
<1>1. us = IF spec.state # "Primary" \/ spec.finalSync THEN ws
           ELSE [p \in VolumeSet |-> IF p \in volRepPVCs(ws) THEN ws[p] ELSE clean(mid(p))]
  BY DEF pvcsDeselectedUnprotect
<1>2. \A p \in VolumeSet : Passes(spec, F[p], ws[p], ws[p])
  BY ProtectsSelf, ProtectsPasses
<1> HIDE DEF us
<1>3. CASE spec.state # "Primary" \/ spec.finalSync
  <2>1. us = ws
    BY <1>1, <1>3
  <2> QED
    BY <1>2, <2>1 DEF us
<1>4. CASE ~(spec.state # "Primary" \/ spec.finalSync)
  <2>1. us = [p \in VolumeSet |-> IF p \in volRepPVCs(ws) THEN ws[p] ELSE clean(mid(p))]
    BY <1>1, <1>4
  <2>2. us = [p \in VolumeSet |-> us[p]]
    BY <2>1
  <2>3. ASSUME NEW p \in VolumeSet, p \notin volRepPVCs(ws)
        PROVE  Passes(spec, F[p], ws[p], mid(p))
    <3>1. ASSUME p \in out, ws[p].pvc.finalizer PROVE Leaving(spec, ws[p])
      BY <2>3, <3>1 DEF Leaving, volRepPVCs, Selected
    <3>2. ASSUME p \in out, ws[p].pvc.finalizer
          PROVE  Passes(spec, F[p], ws[p], pvcUnprotectVolRep(spec, ws[p], F[p]).w)
      BY <1>4, <3>1, <3>2, UnprotectedPVC
    <3> HIDE DEF out
    <3> QED
      BY <1>2, <3>2
  <2>4. ~VolumeUnprotectionEnabled => \A p \in VolumeSet : mid(p) = ws[p]
    BY DEF pvcUnprotectVolRep, Stop
  <2> HIDE DEF mid
  <2>5. ASSUME NEW p \in VolumeSet, p \notin volRepPVCs(ws)
        PROVE  Passes(spec, F[p], ws[p], clean(mid(p)))
    <3>1. Protects(spec, mid(p), pvcStatusDeleteIfPresent(mid(p)))
      BY <2>3, <2>5, StatusSteps DEF Passes
    <3> QED
      BY <2>3, <2>5, <3>1, PassesThenProtects
  <2>6. ASSUME NEW p \in VolumeSet PROVE Passes(spec, F[p], ws[p], us[p])
    <3> HIDE DEF clean
    <3> QED
      BY <1>2, <2>1, <2>5
  <2>7. ASSUME NEW p \in VolumeSet, p \notin volRepPVCs(ws) PROVE us[p] = ws[p] \/ p \notin volRepPVCs(us)
    <3>1. us[p] = clean(mid(p))
      BY <2>1, <2>7
    <3>2. CASE ~VolumeUnprotectionEnabled
      BY <2>4, <3>1, <3>2
    <3>3. CASE VolumeUnprotectionEnabled
      <4>1. mid(p) \in VolumeType
        BY <2>3, <2>7 DEF Passes, Sound
      <4>2. ~us[p].st.listed
        BY <3>1, <3>3, <4>1 DEF pvcStatusDeleteIfPresent, VolumeType, NoStatus
      <4>3. us[p].pvc.there = ws[p].pvc.there /\ us[p].pvc.selected = ws[p].pvc.selected
        BY <2>6 DEF Passes, SameVolume
      <4> QED
        BY <2>7, <4>2, <4>3 DEF volRepPVCs, Selected
    <3> QED
      BY <3>2, <3>3
  <2>8. \A p \in VolumeSet : us[p] = ws[p] \/ p \notin volRepPVCs(us)
    BY <2>1, <2>7
  <2> QED
    BY <2>2, <2>6, <2>8 DEF us
<1> QED
  BY <1>3, <1>4

\* pvcsDeselectedUnprotect and reconcileAsPrimary: deselected PVCs are let go, the selected ones protected.
LEMMA PrimaryVolumes ==
    ASSUME NEW F, NEW f, NEW ws, ws = [p \in VolumeSet |-> ws[p]],
           \A p \in VolumeSet : Sound(spec, ws[p])
    PROVE  LET r == reconcileAsPrimary(pvcsDeselectedUnprotect(ws, F), F, f) IN
           /\ r.ws = [p \in VolumeSet |-> r.ws[p]]
           /\ \A p \in VolumeSet : Passes(spec, F[p], ws[p], r.ws[p])
<1> DEFINE us == pvcsDeselectedUnprotect(ws, F)
           dry == DryRunSnapshots(us, f)
           xs == reconcileVolRepsAsPrimary(us, dry.go, F)
           r == reconcileAsPrimary(us, F, f)
<1>1. /\ us = [p \in VolumeSet |-> us[p]]
      /\ \A p \in VolumeSet : /\ Passes(spec, F[p], ws[p], us[p])
                              /\ us[p] = ws[p] \/ p \notin volRepPVCs(us)
  BY Deselected
<1>2. r.ws = xs
  <2> HIDE DEF us
  <2>2. r = Outcome(xs, dry.snaps, "Restored", TRUE)
    BY DEF reconcileAsPrimary, With
  <2> HIDE DEF xs, dry, r
  <2> QED
    BY <2>2 DEF Outcome
<1> HIDE DEF us, r, dry
<1>3. xs = [p \in VolumeSet |-> IF dry.go /\ p \in volRepPVCs(us)
                                THEN processPVCAsPrimary(spec, us[p], F[p]).w ELSE us[p]]
  BY DEF reconcileVolRepsAsPrimary
<1> HIDE DEF xs
<1>4. ASSUME NEW p \in VolumeSet PROVE Passes(spec, F[p], ws[p], xs[p])
  <2>1. CASE dry.go /\ p \in volRepPVCs(us)
    <3>1. us[p] = ws[p]
      BY <1>1, <2>1
    <3>2. Passes(spec, F[p], ws[p], processPVCAsPrimary(spec, ws[p], F[p]).w)
      BY AsPrimary
    <3> QED
      BY <1>3, <2>1, <3>1, <3>2
  <2>2. CASE ~(dry.go /\ p \in volRepPVCs(us))
    BY <1>1, <1>3, <2>2
  <2> QED
    BY <2>1, <2>2
<1>5. xs = [p \in VolumeSet |-> xs[p]]
  BY <1>3
<1> QED
  BY <1>2, <1>4, <1>5 DEF r, us

\* Every volume after a pass, or as far as the pass went.
PassOf(f, ws) == /\ ws = [p \in VolumeSet |-> ws[p]]
                 /\ \A p \in VolumeSet : Total(spec, f, vols[p], ws[p])

\* F gives volume by volume the call that fails.
FaultsOf(f, F) == \A p \in VolumeSet : f.call # "updatePVC" => F[p].call # "updatePVC"

VolumesSound == /\ vols = [p \in VolumeSet |-> vols[p]]
                /\ \A p \in VolumeSet : Sound(spec, vols[p])

\* processAsPrimary over all volumes.
LEMMA PassAsPrimary ==
    ASSUME NEW F, NEW f, FaultsOf(f, F), VolumesSound
    PROVE  PassOf(f, processAsPrimary(f, F).ws)
<1> DEFINE r == IF shouldRestoreClusterData THEN restorePVsAndPVCsFromS3(vols, f)
                ELSE [ws |-> vols, ok |-> TRUE, n |-> 0]
           o == reconcileAsPrimary(pvcsDeselectedUnprotect(r.ws, F), F, f)
           q == processAsPrimary(f, F)
<1>1. /\ r.ws = [p \in VolumeSet |-> r.ws[p]]
      /\ \A p \in VolumeSet : Renews(spec, vols[p], r.ws[p])
  <2> DEFINE a == restorePVsAndPVCsFromS3(vols, f)
  <2>1. a.ws = [p \in VolumeSet |-> a.ws[p]] /\ \A p \in VolumeSet : Renews(spec, vols[p], a.ws[p])
    BY AllRestored DEF VolumesSound
  <2>2. vols = [p \in VolumeSet |-> vols[p]] /\ \A p \in VolumeSet : Renews(spec, vols[p], vols[p])
    BY RenewsSelf DEF VolumesSound
  <2> HIDE DEF a
  <2>3. r.ws = IF shouldRestoreClusterData THEN a.ws ELSE vols
    BY DEF a
  <2> HIDE DEF r
  <2> QED
    BY <2>1, <2>2, <2>3
<1>2. q.ws = r.ws \/ q.ws = o.ws
  <2> DEFINE Ends(x) == IF ~x.ok THEN Outcome(x.ws, snaps, "Error", FALSE)
                        ELSE IF x.n # 0 THEN Outcome(x.ws, snaps, "Restored", TRUE)
                        ELSE reconcileAsPrimary(pvcsDeselectedUnprotect(x.ws, F), F, f)
  <2>0. q = With(r, Ends)
    BY DEF processAsPrimary
  <2>1. q = Ends(r)
    <3> HIDE DEF Ends, r, q
    <3> QED
      BY <2>0 DEF With
  <2>2. q = Outcome(r.ws, snaps, "Error", FALSE) \/ q = Outcome(r.ws, snaps, "Restored", TRUE) \/ q = o
    BY <2>1
  <2> HIDE DEF r, o, q, Ends
  <2> QED
    BY <2>2 DEF Outcome
<1> HIDE DEF r, q
<1>3. \A p \in VolumeSet : Sound(spec, r.ws[p])
  BY <1>1 DEF Renews
<1>4. o.ws = [p \in VolumeSet |-> o.ws[p]] /\ \A p \in VolumeSet : Passes(spec, F[p], r.ws[p], o.ws[p])
  BY <1>1, <1>3, PrimaryVolumes
<1> HIDE DEF o
<1>5. PassOf(f, o.ws)
  BY <1>1, <1>4, RenewsThenPasses DEF PassOf, FaultsOf
<1>6. PassOf(f, r.ws)
  <2>1. \A p \in VolumeSet : Passes(spec, F[p], r.ws[p], r.ws[p])
    BY <1>3, ProtectsSelf, ProtectsPasses
  <2> QED
    BY <1>1, <2>1, RenewsThenPasses DEF PassOf, FaultsOf
<1>7. PassOf(f, q.ws)
  BY <1>2, <1>5, <1>6
<1> QED
  BY <1>7 DEF q

\* processAsSecondary over all volumes.
LEMMA PassAsSecondary ==
    ASSUME NEW F, NEW f, FaultsOf(f, F), VolumesSound
    PROVE  PassOf(f, processAsSecondary(f, F).ws)
<1> DEFINE dry == DryRunSnapshots(vols, f)
           xs == reconcileVolRepsAsSecondary(vols, dry.go, F)
           q == processAsSecondary(f, F)
<1>1. q.ws = xs
  <2>1. q = Outcome(xs, dry.snaps, "Unused", cond.restore = "Unused")
    BY DEF processAsSecondary, With
  <2> HIDE DEF q, dry, xs
  <2> QED
    BY <2>1 DEF Outcome
<1> HIDE DEF q, dry
<1>2. xs = [p \in VolumeSet |-> IF dry.go /\ p \in volRepPVCs(vols)
                                THEN processPVCAsSecondary(spec, vols[p], F[p]).w ELSE vols[p]]
  BY DEF reconcileVolRepsAsSecondary
<1> HIDE DEF xs
<1>3. ASSUME NEW p \in VolumeSet PROVE Total(spec, f, vols[p], xs[p])
  <2>1. Renews(spec, vols[p], vols[p]) /\ Passes(spec, F[p], vols[p], vols[p])
    BY RenewsSelf, ProtectsSelf, ProtectsPasses DEF VolumesSound
  <2>2. Passes(spec, F[p], vols[p], processPVCAsSecondary(spec, vols[p], F[p]).w)
    BY AsSecondary DEF VolumesSound
  <2>3. Passes(spec, F[p], vols[p], xs[p])
    BY <1>2, <2>1, <2>2
  <2> QED
    BY <2>1, <2>3, RenewsThenPasses DEF FaultsOf
<1>4. xs = [p \in VolumeSet |-> xs[p]]
  BY <1>2
<1>5. PassOf(f, q.ws)
  BY <1>1, <1>3, <1>4 DEF PassOf
<1> QED
  BY <1>5 DEF q

\* deleteLeftBehindPVs: a PV left behind in the synchronous mode has no PVC and no
\* VolumeReplication.
LEMMA LeftBehindDeleted ==
    ASSUME NEW f, NEW w, NEW x, Total(spec, f, w, x), ~spec.async,
           spec.deleted, w.pv.phase = x.pv.phase, x.pv.phase = "Released"
    PROVE  Total(spec, f, w, [x EXCEPT !.pv = NoPV])
<1> DEFINE y == [x EXCEPT !.pv = NoPV]
<1>1. x \in VolumeType
  BY DEF Total, Sound
<1>2. y \in VolumeType /\ y.pvc = x.pvc /\ y.vr = x.vr /\ y.s3 = x.s3 /\ y.pv = NoPV
      /\ y.inUse = x.inUse /\ y.reclaims = x.reclaims /\ y.st = x.st
  BY <1>1, NothingTypes DEF VolumeType
<1> HIDE DEF y
<1>3. NoPV.phase = "None" /\ ~NoPV.retained
  BY DEF NoPV
<1>4. Sound(spec, y)
  <2>1. ~x.pvc.bound
    BY DEF Total, Sound, Paired
  <2>2. Paired(y) /\ PolicyKept(y) /\ Replicated(spec, y)
    BY <1>2, <1>3, <2>1 DEF Total, Sound, Paired, PolicyKept, Replicated
  <2>3. Archived(spec, y)
    BY <1>2 DEF Archived, Leaving
  <2> QED
    BY <1>2, <2>2, <2>3 DEF Sound
<1>5. VRStep(spec, w, y) \/ (spec.deleted /\ y.vr.there /\ y.vr.terminating)
  BY <1>2 DEF Total, VRStep, Created, Updated
<1>6. Retained(w) /\ f.call # "updatePVC" => Retained(y)
  <2>1. ~x.vr.there
    BY DEF Total, Sound, Replicated
  <2>2. x.pvc.protected /\ Retained(x) => x.pvc.finalizer
    BY DEF Retained
  <2>3. ~x.pvc.finalizer
    BY DEF Total, Sound, Paired
  <2> QED
    BY <1>2, <2>1, <2>2, <2>3 DEF Total, Retained
<1>7. Total(spec, f, w, y)
  BY <1>2, <1>3, <1>4, <1>5, <1>6 DEF Total
<1> QED
  BY <1>7 DEF y

\* deleteClusterDataInS3Stores: only the objects of a VRG that ends go.
LEMMA ClusterDataDeleted ==
    ASSUME NEW f, NEW w, NEW x, Total(spec, f, w, x), spec.deleted
    PROVE  Total(spec, f, w, [x EXCEPT !.s3 = Emptied])
<1> DEFINE y == [x EXCEPT !.s3 = Emptied]
<1>1. x \in VolumeType
  BY DEF Total, Sound
<1>2. y \in VolumeType /\ y.pvc = x.pvc /\ y.vr = x.vr /\ y.pv = x.pv
      /\ y.inUse = x.inUse /\ y.reclaims = x.reclaims /\ y.st = x.st
  BY <1>1 DEF VolumeType, S3Type, Emptied, Objects
<1> HIDE DEF y
<1>3. Sound(spec, y)
  BY <1>2 DEF Total, Sound, Paired, PolicyKept, Replicated, Archived, Leaving
<1>4. VRStep(spec, w, y) \/ (spec.deleted /\ y.vr.there /\ y.vr.terminating)
  BY <1>2 DEF Total, VRStep, Created, Updated
<1>5. Retained(x) => Retained(y)
  BY <1>2 DEF Retained
<1>6. Total(spec, f, w, y)
  BY <1>2, <1>3, <1>4, <1>5 DEF Total
<1> QED
  BY <1>6 DEF y

\* Kubernetes collects the VolumeReplication of a VRG that has gone.
LEMMA VRCollected ==
    ASSUME NEW f, NEW w, NEW x, Total(spec, f, w, x), spec.deleted, x.vr.there
    PROVE  Total(spec, f, w, [x EXCEPT !.vr.terminating = TRUE])
<1> DEFINE y == [x EXCEPT !.vr.terminating = TRUE]
<1>1. x \in VolumeType
  BY DEF Total, Sound
<1>2. y \in VolumeType /\ y.pvc = x.pvc /\ y.pv = x.pv /\ y.s3 = x.s3
      /\ y.inUse = x.inUse /\ y.reclaims = x.reclaims /\ y.st = x.st
      /\ y.vr.there /\ y.vr.terminating /\ y.vr.state = x.vr.state
  BY <1>1 DEF VolumeType, VRType
<1> HIDE DEF y
<1>3. Sound(spec, y)
  BY <1>2 DEF Total, Sound, Paired, PolicyKept, Replicated, Archived, Leaving
<1>5. Retained(x) => Retained(y)
  BY <1>2 DEF Retained
<1>6. Total(spec, f, w, y)
  BY <1>2, <1>3, <1>5 DEF Total
<1> QED
  BY <1>6 DEF y

\* reconcileVRsForDeletion over all volumes.
LEMMA VolumesLetGo ==
    ASSUME NEW F, NEW f, FaultsOf(f, F), VolumesSound, spec.deleted
    PROVE  LET r == reconcileVRsForDeletion(pvcsDeselectedUnprotect(vols, F), F) IN
           \A p \in VolumeSet : Passes(spec, F[p], vols[p], r[p].w)
<1> DEFINE us == pvcsDeselectedUnprotect(vols, F)
           r == reconcileVRsForDeletion(us, F)
<1>1. \A p \in VolumeSet : /\ Passes(spec, F[p], vols[p], us[p])
                           /\ us[p] = vols[p] \/ p \notin volRepPVCs(us)
  BY Deselected DEF VolumesSound
<1> HIDE DEF us
<1>2. r = [p \in VolumeSet |-> IF p \in volRepPVCs(us) THEN pvcsUnprotectVolRep(spec, us[p], F[p])
                               ELSE Stop(us[p])]
  BY DEF reconcileVRsForDeletion
<1> HIDE DEF r
<1>3. ASSUME NEW p \in VolumeSet PROVE Passes(spec, F[p], vols[p], r[p].w)
  <2>1. CASE p \in volRepPVCs(us)
    <3>1. us[p] = vols[p] /\ Ended(spec, vols[p])
      BY <1>1, <2>1 DEF Ended
    <3>2. Passes(spec, F[p], vols[p], pvcsUnprotectVolRep(spec, vols[p], F[p]).w)
      BY <3>1, Unprotected DEF VolumesSound
    <3> QED
      BY <1>2, <2>1, <3>1, <3>2
  <2>2. CASE p \notin volRepPVCs(us)
    <3>1. r[p] = Stop(us[p])
      BY <1>2, <2>2
    <3>2. r[p].w = us[p]
      BY <3>1 DEF Stop
    <3> QED
      BY <1>1, <3>2
  <2> QED
    BY <2>1, <2>2
<1> QED
  BY <1>3 DEF r, us

\* When the status is not saved, the rest of the pass stays.
LEMMA StatusUnsaved ==
    ASSUME NEW f, NEW ws, PassOf(f, ws), VolumesSound
    PROVE  PassOf(f, Unsaved(ws).vols)
<1> DEFINE xs == [p \in VolumeSet |-> [ws[p] EXCEPT !.st = vols[p].st]]
<1>1. Unsaved(ws).vols = xs
  BY DEF Unsaved
<1>2. ASSUME NEW p \in VolumeSet PROVE Total(spec, f, vols[p], xs[p])
  <2>1. vols[p].st \in StatusType
    BY DEF VolumesSound, Sound, VolumeType
  <2>2. Total(spec, f, vols[p], ws[p]) /\ Sound(spec, ws[p])
    BY DEF PassOf, Total
  <2>3. Protects(spec, ws[p], [ws[p] EXCEPT !.st = vols[p].st])
    BY <2>1, <2>2, ProtectsStatus
  <2> QED
    BY <2>2, <2>3, TotalThenProtects
<1>3. xs = [p \in VolumeSet |-> xs[p]]
  OBVIOUS
<1> HIDE DEF xs
<1> QED
  BY <1>1, <1>2, <1>3 DEF PassOf

\* processForDeletion over all volumes.
LEMMA PassForDeletion ==
    ASSUME NEW F, NEW f, FaultsOf(f, F), VolumesSound, spec.deleted
    PROVE  LET r == processForDeletion(f, F) IN PassOf(f, r.vols) /\ r.there \in BOOLEAN
<1> DEFINE r == reconcileVRsForDeletion(pvcsDeselectedUnprotect(vols, F), F)
           ws == [p \in VolumeSet |-> r[p].w]
           q == processForDeletion(f, F)
           ls == deleteLeftBehindPVs(ws)
           ds == deleteClusterDataInS3Stores(ls)
           cs == Collected(ds)
<1>1. \A p \in VolumeSet : Passes(spec, F[p], vols[p], r[p].w)
  BY VolumesLetGo
<1>2. q = DeletionEnds(r, ws, f)
  <2> DEFINE Ends(x) == DeletionEnds(x, [p \in VolumeSet |-> x[p].w], f)
  <2>1. q = With(r, Ends)
    BY DEF processForDeletion
  <2>2. q = Ends(r)
    <3> HIDE DEF Ends, r, q
    <3> QED
      BY <2>1 DEF With
  <2> QED
    BY <2>2
<1> HIDE DEF r, q
<1>3. q = Unsaved(ws) \/ q = [Unsaved(cs) EXCEPT !.there = FALSE]
  BY <1>2 DEF DeletionEnds
<1>4. \A p \in VolumeSet : Passes(spec, F[p], vols[p], ws[p])
  BY <1>1
<1>5. ws = [p \in VolumeSet |-> ws[p]]
  OBVIOUS
<1> HIDE DEF ws
<1>6. PassOf(f, ws)
  <2>1. \A p \in VolumeSet : Renews(spec, vols[p], vols[p])
    BY RenewsSelf DEF VolumesSound
  <2> QED
    BY <1>4, <1>5, <2>1, RenewsThenPasses DEF PassOf, FaultsOf
<1>7. PassOf(f, ls)
  <2>1. CASE spec.async \/ spec.state # "Secondary"
    BY <1>6, <2>1 DEF deleteLeftBehindPVs
  <2>2. CASE ~(spec.async \/ spec.state # "Secondary")
    <3>1. ls = [p \in VolumeSet |-> IF ws[p].pv.leftBehind /\ ws[p].pv.phase = "Released"
                                    THEN [ws[p] EXCEPT !.pv = NoPV] ELSE ws[p]]
      BY <2>2 DEF deleteLeftBehindPVs
    <3> HIDE DEF ls
    <3>2. ASSUME NEW p \in VolumeSet PROVE Total(spec, f, vols[p], ls[p])
      <4>1. Total(spec, f, vols[p], ws[p]) /\ vols[p].pv.phase = ws[p].pv.phase
        BY <1>4, <1>6 DEF PassOf, Passes, SameVolume
      <4>2. ws[p].pv.phase = "Released" => Total(spec, f, vols[p], [ws[p] EXCEPT !.pv = NoPV])
        BY <2>2, <4>1, LeftBehindDeleted
      <4> QED
        BY <3>1, <4>1, <4>2
    <3>3. ls = [p \in VolumeSet |-> ls[p]]
      BY <3>1
    <3> QED
      BY <3>2, <3>3 DEF PassOf
  <2> QED
    BY <2>1, <2>2
<1> HIDE DEF ls
<1>8. PassOf(f, ds)
  <2>1. CASE spec.state # "Primary"
    BY <1>7, <2>1 DEF deleteClusterDataInS3Stores
  <2>2. CASE spec.state = "Primary"
    <3>1. ds = [p \in VolumeSet |-> [ls[p] EXCEPT !.s3 = Emptied]]
      BY <2>2 DEF deleteClusterDataInS3Stores
    <3> HIDE DEF ds
    <3>2. ASSUME NEW p \in VolumeSet PROVE Total(spec, f, vols[p], ds[p])
      BY <1>7, <3>1, ClusterDataDeleted DEF PassOf
    <3>3. ds = [p \in VolumeSet |-> ds[p]]
      BY <3>1
    <3> QED
      BY <3>2, <3>3 DEF PassOf
  <2> QED
    BY <2>1, <2>2
<1> HIDE DEF ds
<1>9. PassOf(f, cs)
  <2>1. cs = [p \in VolumeSet |-> IF ds[p].vr.there THEN [ds[p] EXCEPT !.vr.terminating = TRUE]
                                  ELSE ds[p]]
    BY DEF Collected
  <2> HIDE DEF cs
  <2>2. ASSUME NEW p \in VolumeSet PROVE Total(spec, f, vols[p], cs[p])
    <3>1. Total(spec, f, vols[p], ds[p])
      BY <1>8 DEF PassOf
    <3>2. ds[p].vr.there => Total(spec, f, vols[p], [ds[p] EXCEPT !.vr.terminating = TRUE])
      BY <3>1, VRCollected
    <3> QED
      BY <2>1, <3>1, <3>2
  <2>3. cs = [p \in VolumeSet |-> cs[p]]
    BY <2>1
  <2> QED
    BY <2>2, <2>3 DEF PassOf
<1> HIDE DEF cs
<1>10. PassOf(f, Unsaved(ws).vols) /\ PassOf(f, Unsaved(cs).vols)
  BY <1>6, <1>9, StatusUnsaved
<1>11. \A x : Unsaved(x).there = TRUE /\ [Unsaved(x) EXCEPT !.there = FALSE].there = FALSE
              /\ [Unsaved(x) EXCEPT !.there = FALSE].vols = Unsaved(x).vols
  BY DEF Unsaved
<1>12. PassOf(f, q.vols) /\ q.there \in BOOLEAN
  BY <1>3, <1>10, <1>11
<1> QED
  BY <1>12 DEF q

\* updateVRGStatus, whether or not it fails.
LEMMA StatusUpdated ==
    ASSUME NEW f, NEW ws, NEW ss, NEW c, PassOf(f, ws), VolumesSound
    PROVE  LET r == updateVRGStatus(ws, ss, c, f) IN PassOf(f, r.vols) /\ r.there \in BOOLEAN
<1> DEFINE r == updateVRGStatus(ws, ss, c, f)
<1>1. r.there = TRUE /\ (r.vols = ws \/ r.vols = Unsaved(ws).vols)
  BY DEF updateVRGStatus, Unsaved
<1>2. PassOf(f, Unsaved(ws).vols)
  BY StatusUnsaved
<1> HIDE DEF r
<1>3. PassOf(f, r.vols) /\ r.there \in BOOLEAN
  BY <1>1, <1>2
<1> QED
  BY <1>3 DEF r

\* processVRG: the whole pass in every role, whatever call fails.
LEMMA OnePass ==
    ASSUME NEW f, NEW q, VolumesSound
    PROVE  LET r == processVRG(f, q) IN PassOf(f, r.vols) /\ r.there \in BOOLEAN
<1> DEFINE F == At(f, q)
           o == IF spec.state = "Primary" THEN processAsPrimary(f, F) ELSE processAsSecondary(f, F)
           r == processVRG(f, q)
<1>1. FaultsOf(f, F)
  BY DEF At, NoFault, FaultsOf
<1>2. CASE spec.deleted
  <2>1. r = processForDeletion(f, F)
    BY <1>2 DEF processVRG
  <2> HIDE DEF r, F
  <2>2. PassOf(f, r.vols) /\ r.there \in BOOLEAN
    BY <1>1, <1>2, <2>1, PassForDeletion
  <2> QED
    BY <2>2 DEF r
<1>3. CASE ~spec.deleted
  <2> DEFINE Saved(x) == updateVRGConditionsAndStatus(x.ws, x.ss, x.restore, x.sums, f)
             c == [cond EXCEPT !.restore = o.restore]
             s == IF o.sums THEN updateVRGConditions(o.ws, Relisted(listed, o.ws), c) ELSE c
  <2>1. r = With(o, Saved)
    BY <1>3 DEF processVRG
  <2>2. r = Saved(o)
    <3> HIDE DEF Saved, o, r
    <3> QED
      BY <2>1 DEF With
  <2>3. PassOf(f, o.ws)
    <3> HIDE DEF F
    <3>1. PassOf(f, processAsPrimary(f, F).ws) /\ PassOf(f, processAsSecondary(f, F).ws)
      BY <1>1, PassAsPrimary, PassAsSecondary
    <3> QED
      BY <3>1
  <2> HIDE DEF o, r
  <2>4. r = updateVRGStatus(o.ws, o.ss, s, f)
    BY <2>2 DEF updateVRGConditionsAndStatus, With
  <2> HIDE DEF s
  <2>5. PassOf(f, r.vols) /\ r.there \in BOOLEAN
    BY <2>3, <2>4, StatusUpdated
  <2> QED
    BY <2>5 DEF r
<1> QED
  BY <1>2, <1>3
=============================================================================
